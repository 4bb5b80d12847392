----------------------------- MODULE EditorProofs -----------------------------
(***************************************************************************)
(* The shell's documents, the window's images and the pictures in them, for *)
(* any projects, assets, meshes, sizes and number of editors: all live in   *)
(* the workspace, whose operations are taken one by one first.  Then the    *)
(* handles to assets, for any assets that load each other, clients and      *)
(* manifests; the menu, for any commands in any menus; and the browser's   *)
(* tree, for any records in any order.                                     *)
(***************************************************************************)
EXTENDS Shell, Rendering, AssetLoader, Menu, AssetBrowser, Integers, FiniteSetTheorems, SequenceTheorems, WellFoundedInduction, TLAPS

-----------------------------------------------------------------------------
(* Induction, as the least number that some set holds *)

LEMMA LeastNumber ==
    ASSUME NEW S, S \subseteq Nat, S # {}
    PROVE  \E n \in S : \A m \in S : n <= m
<1> DEFINE less == {pair \in Nat \X Nat : pair[1] < pair[2]}
<1>1. IsWellFoundedOn(less, Nat)
  BY NatLessThanWellFounded DEF OpToRel, IsWellFoundedOn
<1>2. \A m, n \in Nat : <<m, n>> \in less <=> m < n
  OBVIOUS
<1> HIDE DEF less
<1>3. PICK n \in S : \A m \in S : <<m, n>> \notin less
  BY <1>1, WFMin
<1>4. ASSUME NEW m \in S PROVE n <= m
  <2>1. m \in Nat /\ n \in Nat /\ <<m, n>> \notin less
    BY <1>3
  <2>2. ~(m < n)
    BY <1>2, <2>1
  <2>3. QED
    BY <2>1, <2>2
<1>5. QED
  BY <1>4

-----------------------------------------------------------------------------
(* Remaining *)

Kept(editors, n, left) ==
    left = [m \in 0 .. n |->
               IF m = 0 THEN <<>>
               ELSE IF editors[m].closed THEN left[m - 1] ELSE Append(left[m - 1], editors[m])]

\* The recursive function exists: were there a first n without one, the one of
\* n - 1 could be continued.
LEMMA KeptExists ==
    ASSUME NEW editors, NEW n \in Nat
    PROVE  \E left : Kept(editors, n, left)
<1> DEFINE without == {m \in Nat : ~ \E left : Kept(editors, m, left)}
<1> SUFFICES ASSUME without # {} PROVE FALSE
  OBVIOUS
<1>1. PICK m \in without : \A k \in without : m <= k
  BY LeastNumber
<1>2. m # 0
  <2>1. Kept(editors, 0, [k \in 0 .. 0 |-> <<>>])
    BY DEF Kept
  <2>2. QED
    BY <1>1, <2>1
<1>3. m - 1 \in Nat /\ m - 1 \notin without
  BY <1>1, <1>2
<1>4. PICK left : Kept(editors, m - 1, left)
  BY <1>3
<1> DEFINE value(k, of) ==
             IF k = 0 THEN <<>>
             ELSE IF editors[k].closed THEN of[k - 1] ELSE Append(of[k - 1], editors[k])
           longer == [k \in 0 .. m |-> IF k = m THEN value(m, left) ELSE left[k]]
<1>5. \A k \in 0 .. m : longer[k] = value(k, longer)
  <2> TAKE k \in 0 .. m
  <2>1. CASE k = m
    <3>1. longer[m] = value(m, left) /\ longer[m - 1] = left[m - 1]
      BY <1>1, <1>2
    <3>2. QED
      BY <1>2, <2>1, <3>1
  <2>2. CASE k # m
    <3>1. k \in 0 .. (m - 1) /\ longer[k] = left[k]
      BY <1>1, <2>2
    <3>2. left[k] = value(k, left)
      BY <1>4, <3>1 DEF Kept
    <3>3. k # 0 => longer[k - 1] = left[k - 1]
      BY <1>1, <2>2
    <3>4. QED
      BY <3>1, <3>2, <3>3
  <2>3. QED
    BY <2>1, <2>2
<1>6. longer = [k \in 0 .. m |-> value(k, longer)]
  BY <1>5
<1>7. Kept(editors, m, longer)
  BY <1>6 DEF Kept
<1>8. QED
  BY <1>1, <1>7

LEMMA RemainingKept ==
    ASSUME NEW editors, Len(editors) \in Nat
    PROVE  \E left : Kept(editors, Len(editors), left) /\ Remaining(editors) = left[Len(editors)]
<1> DEFINE left == CHOOSE f : Kept(editors, Len(editors), f)
<1>1. Kept(editors, Len(editors), left)
  BY KeptExists
<1>2. Remaining(editors) = left[Len(editors)]
  BY DEF Remaining, Kept
<1>3. QED
  BY <1>1, <1>2

\* rest is what some of the first n editors are, in their order, and none closed.
Picked(editors, n, rest) ==
    \E pick \in [1 .. Len(rest) -> 1 .. n] :
        /\ \A i, j \in 1 .. Len(rest) : i < j => pick[i] < pick[j]
        /\ \A i \in 1 .. Len(rest) : rest[i] = editors[pick[i]] /\ ~editors[pick[i]].closed

LEMMA PickedSame ==
    ASSUME NEW editors, NEW n \in Nat, NEW rest, Len(rest) \in Nat, Picked(editors, n, rest)
    PROVE  Picked(editors, n + 1, rest)
<1>1. PICK pick \in [1 .. Len(rest) -> 1 .. n] :
        /\ \A i, j \in 1 .. Len(rest) : i < j => pick[i] < pick[j]
        /\ \A i \in 1 .. Len(rest) : rest[i] = editors[pick[i]] /\ ~editors[pick[i]].closed
  BY DEF Picked
<1>2. pick \in [1 .. Len(rest) -> 1 .. (n + 1)]
  OBVIOUS
<1>3. QED
  BY <1>1, <1>2 DEF Picked

LEMMA PickedMore ==
    ASSUME NEW T, NEW editors \in Seq(T), NEW n \in Nat, n + 1 <= Len(editors),
           NEW rest \in Seq(T), Picked(editors, n, rest), ~editors[n + 1].closed
    PROVE  Picked(editors, n + 1, Append(rest, editors[n + 1]))
<1>1. PICK pick \in [1 .. Len(rest) -> 1 .. n] :
        /\ \A i, j \in 1 .. Len(rest) : i < j => pick[i] < pick[j]
        /\ \A i \in 1 .. Len(rest) : rest[i] = editors[pick[i]] /\ ~editors[pick[i]].closed
  BY DEF Picked
<1> DEFINE more == Append(rest, editors[n + 1])
           also == [i \in 1 .. Len(more) |-> IF i = Len(more) THEN n + 1 ELSE pick[i]]
<1>2. /\ Len(rest) \in Nat /\ Len(more) = Len(rest) + 1 /\ more[Len(rest) + 1] = editors[n + 1]
      /\ \A i \in 1 .. Len(rest) : more[i] = rest[i]
  <2>1. editors[n + 1] \in T
    BY ElementOfSeq, LenProperties
  <2>2. QED
    BY <2>1, AppendProperties, LenProperties
<1> HIDE DEF more
<1>3. \A i \in 1 .. Len(more) : i = Len(more) \/ i \in 1 .. Len(rest)
  BY <1>2
<1>4. /\ also \in [1 .. Len(more) -> 1 .. (n + 1)] /\ also[Len(more)] = n + 1
      /\ \A i \in 1 .. Len(rest) : also[i] = pick[i] /\ also[i] \in 1 .. n
  <2>1. Len(more) \in 1 .. Len(more)
    BY <1>2
  <2>2. \A i \in 1 .. Len(rest) : i \in 1 .. Len(more) /\ i # Len(more)
    BY <1>2
  <2>3. \A i \in 1 .. Len(rest) : pick[i] \in 1 .. n /\ pick[i] \in 1 .. (n + 1)
    BY <1>1
  <2>4. \A i \in 1 .. Len(more) : also[i] = IF i = Len(more) THEN n + 1 ELSE pick[i]
    OBVIOUS
  <2>5. \A i \in 1 .. Len(more) : also[i] \in 1 .. (n + 1)
    BY <1>3, <2>3, <2>4
  <2>6. QED
    BY <2>1, <2>2, <2>3, <2>4, <2>5
<1> HIDE DEF also
<1>5. \A i, j \in 1 .. Len(more) : i < j => also[i] < also[j]
  <2> SUFFICES ASSUME NEW i \in 1 .. Len(more), NEW j \in 1 .. Len(more), i < j
               PROVE  also[i] < also[j]
    OBVIOUS
  <2>1. i \in 1 .. Len(rest) /\ also[i] = pick[i] /\ pick[i] \in 1 .. n
    BY <1>2, <1>4
  <2>2. CASE j = Len(more)
    BY <1>4, <2>1, <2>2
  <2>3. CASE j \in 1 .. Len(rest)
    BY <1>1, <1>4, <2>1, <2>3
  <2>4. QED
    BY <1>3, <2>2, <2>3
<1>6. \A i \in 1 .. Len(more) : more[i] = editors[also[i]] /\ ~editors[also[i]].closed
  BY <1>1, <1>2, <1>3, <1>4
<1>7. Picked(editors, n + 1, more)
  BY <1>4, <1>5, <1>6 DEF Picked
<1>8. QED
  BY <1>7 DEF more

\* What is left of the editors are editors that were not closed, each of them
\* once and in their order.
LEMMA RemainingPicked ==
    ASSUME NEW T, NEW editors \in Seq(T)
    PROVE  /\ Remaining(editors) \in Seq(T)
           /\ Picked(editors, Len(editors), Remaining(editors))
<1>1. Len(editors) \in Nat /\ DOMAIN editors = 1 .. Len(editors)
  BY LenProperties
<1>2. PICK left : Kept(editors, Len(editors), left) /\ Remaining(editors) = left[Len(editors)]
  BY <1>1, RemainingKept
<1> DEFINE Good(n) == left[n] \in Seq(T) /\ Picked(editors, n, left[n])
           bad == {n \in 0 .. Len(editors) : ~Good(n)}
<1>3. left[0] = <<>>
  BY <1>1, <1>2 DEF Kept
<1>4. Good(0)
  <2>1. left[0] \in Seq(T) /\ Len(left[0]) = 0
    BY <1>3
  <2>2. [i \in 1 .. 0 |-> i] \in [1 .. Len(left[0]) -> 1 .. 0]
    BY <2>1
  <2>3. Picked(editors, 0, left[0])
    BY <2>1, <2>2 DEF Picked
  <2>4. QED
    BY <2>1, <2>3
<1>5. ASSUME NEW n \in Nat, n + 1 <= Len(editors), Good(n)
      PROVE  Good(n + 1)
  <2>1. left[n + 1] = IF editors[n + 1].closed THEN left[n] ELSE Append(left[n], editors[n + 1])
    <3>1. n + 1 \in 0 .. Len(editors) /\ n + 1 # 0 /\ (n + 1) - 1 = n
      BY <1>1, <1>5
    <3>2. QED
      BY <1>2, <3>1 DEF Kept
  <2>2. CASE editors[n + 1].closed
    <3>1. Len(left[n]) \in Nat
      BY <1>5, LenProperties
    <3>2. Picked(editors, n + 1, left[n])
      BY <1>5, <3>1, PickedSame
    <3>3. QED
      BY <1>5, <2>1, <2>2, <3>2
  <2>3. CASE ~editors[n + 1].closed
    <3>1. editors[n + 1] \in T
      BY <1>1, <1>5, ElementOfSeq
    <3>2. Append(left[n], editors[n + 1]) \in Seq(T)
      BY <1>5, <3>1, AppendProperties
    <3>3. Picked(editors, n + 1, Append(left[n], editors[n + 1]))
      BY <1>5, <2>3, PickedMore
    <3>4. QED
      BY <2>1, <2>3, <3>2, <3>3
  <2>4. QED
    BY <2>2, <2>3
<1> HIDE DEF Good
<1>6. bad = {}
  <2> SUFFICES ASSUME bad # {} PROVE FALSE
    OBVIOUS
  <2>0. bad \subseteq Nat
    BY <1>1
  <2>1. PICK n \in bad : \A m \in bad : n <= m
    <3> HIDE DEF bad
    <3>1. QED
      BY <2>0, LeastNumber
  <2>2. n # 0 /\ n \in 0 .. Len(editors)
    BY <1>4, <2>1
  <2>3. n - 1 \in Nat /\ n - 1 \in 0 .. Len(editors) /\ (n - 1) + 1 = n /\ ~(n <= n - 1)
    BY <1>1, <2>2
  <2>4. Good(n - 1)
    BY <2>1, <2>3
  <2>5. Good(n)
    BY <1>5, <2>2, <2>3, <2>4
  <2>6. QED
    BY <2>1, <2>5
<1>7. Good(Len(editors))
  BY <1>1, <1>6
<1>8. QED
  BY <1>2, <1>7 DEF Good

-----------------------------------------------------------------------------
(* The operations on a workspace *)

EditorTypes == {"assets", "log", "scene", "game"}

Editors(docs) ==
    [id : Nat, type : EditorTypes, doc : docs, wantClose : BOOLEAN, closed : BOOLEAN]

\* Every editor has an id of its own, below the next one, and is closed only when
\* it was asked to be.
WorkspaceOK(ws, docs) ==
    /\ ws \in [editors : Seq(Editors(docs)), next : Nat, focused : Nat]
    /\ \A i \in DOMAIN ws.editors :
         /\ ws.editors[i].id < ws.next
         /\ ws.editors[i].closed => ws.editors[i].wantClose
    /\ \A i, j \in DOMAIN ws.editors : ws.editors[i].id = ws.editors[j].id => i = j

\* new has the editors of ws, but for the focus and what is about to close.
Same(ws, new) ==
    /\ DOMAIN new.editors = DOMAIN ws.editors /\ Len(new.editors) = Len(ws.editors)
    /\ new.next = ws.next
    /\ \A i \in DOMAIN ws.editors :
         /\ new.editors[i].id = ws.editors[i].id
         /\ new.editors[i].type = ws.editors[i].type
         /\ new.editors[i].doc = ws.editors[i].doc
         /\ ws.editors[i].wantClose => new.editors[i].wantClose

LEMMA ReplacedEditors ==
    ASSUME NEW S, NEW q \in Seq(S), NEW f \in [DOMAIN q -> S]
    PROVE  f \in Seq(S) /\ Len(f) = Len(q) /\ DOMAIN f = DOMAIN q
<1>1. DOMAIN q = 1 .. Len(q) /\ Len(q) \in Nat
  BY LenProperties
<1>2. f \in Seq(S) /\ Len(f) = Len(q)
  BY <1>1, IsASeq
<1>3. QED
  BY <1>1, <1>2

LEMMA WorkspaceFacts ==
    ASSUME NEW docs, NEW ws, WorkspaceOK(ws, docs)
    PROVE  /\ ws.editors \in Seq(Editors(docs)) /\ ws.next \in Nat /\ ws.focused \in Nat
           /\ Len(ws.editors) \in Nat /\ DOMAIN ws.editors = 1 .. Len(ws.editors)
           /\ \A i \in DOMAIN ws.editors :
                /\ ws.editors[i] \in Editors(docs)
                /\ ws.editors[i].id \in Nat /\ ws.editors[i].id < ws.next
                /\ ws.editors[i].closed => ws.editors[i].wantClose
           /\ Same(ws, ws)
           /\ ws = [editors |-> ws.editors, next |-> ws.next, focused |-> ws.focused]
<1>1. /\ ws.editors \in Seq(Editors(docs)) /\ ws.next \in Nat /\ ws.focused \in Nat
      /\ ws = [editors |-> ws.editors, next |-> ws.next, focused |-> ws.focused]
  BY DEF WorkspaceOK
<1>2. Len(ws.editors) \in Nat /\ DOMAIN ws.editors = 1 .. Len(ws.editors)
  BY <1>1, LenProperties
<1>3. \A i \in DOMAIN ws.editors :
        /\ ws.editors[i] \in Editors(docs)
        /\ ws.editors[i].id < ws.next
        /\ ws.editors[i].closed => ws.editors[i].wantClose
  <2>1. \A i \in DOMAIN ws.editors : ws.editors[i] \in Editors(docs)
    BY <1>1, <1>2, ElementOfSeq
  <2>2. QED
    BY <2>1 DEF WorkspaceOK
<1>4. \A i \in DOMAIN ws.editors : ws.editors[i].id \in Nat
  BY <1>3 DEF Editors
<1>5. QED
  BY <1>1, <1>2, <1>3, <1>4 DEF Same

\* A workspace whose editors are changed one by one.
LEMMA ChangedWorkspace ==
    ASSUME NEW docs, NEW ws, WorkspaceOK(ws, docs),
           NEW editors \in [DOMAIN ws.editors -> Editors(docs)], NEW focused \in Nat,
           \A i \in DOMAIN ws.editors :
               /\ editors[i].id = ws.editors[i].id
               /\ editors[i].type = ws.editors[i].type
               /\ editors[i].doc = ws.editors[i].doc
               /\ ws.editors[i].wantClose => editors[i].wantClose
               /\ editors[i].closed => editors[i].wantClose
    PROVE  /\ WorkspaceOK([ws EXCEPT !.editors = editors, !.focused = focused], docs)
           /\ Same(ws, [ws EXCEPT !.editors = editors, !.focused = focused])
<1> DEFINE new == [ws EXCEPT !.editors = editors, !.focused = focused]
<1>1. /\ editors \in Seq(Editors(docs)) /\ Len(editors) = Len(ws.editors)
      /\ DOMAIN editors = DOMAIN ws.editors
  BY WorkspaceFacts, ReplacedEditors
<1>2. /\ new.editors = editors /\ new.next = ws.next /\ new.focused = focused
      /\ new \in [editors : Seq(Editors(docs)), next : Nat, focused : Nat]
  BY <1>1 DEF WorkspaceOK
<1> HIDE DEF new
<1>3. WorkspaceOK(new, docs)
  BY <1>1, <1>2 DEF WorkspaceOK
<1>4. Same(ws, new)
  BY <1>1, <1>2 DEF Same
<1>5. QED
  BY <1>3, <1>4 DEF new

LEMMA CreateOK ==
    ASSUME NEW docs, NEW ws, WorkspaceOK(ws, docs), NEW type \in EditorTypes, NEW doc \in docs
    PROVE  LET new == CreateEditor(ws, type, doc)
           IN /\ WorkspaceOK(new, docs)
              /\ new.next = ws.next + 1 /\ Len(new.editors) = Len(ws.editors) + 1
              /\ new.editors[Len(ws.editors) + 1] = Editor(ws.next, type, doc)
              /\ \A i \in DOMAIN ws.editors : new.editors[i] = ws.editors[i]
              /\ DOMAIN new.editors = DOMAIN ws.editors \cup {Len(ws.editors) + 1}
<1> DEFINE new == CreateEditor(ws, type, doc)
           last_ == Editor(ws.next, type, doc)
<1>1. last_ \in Editors(docs) /\ last_.id = ws.next /\ ~last_.closed
  BY WorkspaceFacts DEF Editor, Editors
<1> HIDE DEF last_
<1>2. /\ new.editors = Append(ws.editors, last_) /\ new.next = ws.next + 1
      /\ new.focused = ws.focused
      /\ new = [ws EXCEPT !.editors = new.editors, !.next = new.next]
  <2>1. new = [ws EXCEPT !.editors = Append(ws.editors, last_), !.next = ws.next + 1]
    BY DEF CreateEditor, last_
  <2>2. ws \in [editors : Seq(Editors(docs)), next : Nat, focused : Nat]
    BY DEF WorkspaceOK
  <2> HIDE DEF new
  <2>3. QED
    BY <2>1, <2>2
<1> HIDE DEF new
<1>3. /\ new.editors \in Seq(Editors(docs)) /\ Len(new.editors) = Len(ws.editors) + 1
      /\ new.editors[Len(ws.editors) + 1] = last_
      /\ \A i \in DOMAIN ws.editors : new.editors[i] = ws.editors[i]
  BY <1>1, <1>2, WorkspaceFacts, AppendProperties
<1>4. DOMAIN new.editors = DOMAIN ws.editors \cup {Len(ws.editors) + 1}
  BY <1>3, WorkspaceFacts, LenProperties
<1>5. WorkspaceOK(new, docs)
  <2>1. new \in [editors : Seq(Editors(docs)), next : Nat, focused : Nat]
    <3>1. ws \in [editors : Seq(Editors(docs)), next : Nat, focused : Nat] /\ new.next \in Nat
      BY <1>2, WorkspaceFacts DEF WorkspaceOK
    <3>2. QED
      BY <1>2, <1>3, <3>1
  <2>2. \A i \in DOMAIN new.editors :
          /\ new.editors[i].id < new.next
          /\ new.editors[i].closed => new.editors[i].wantClose
    <3>1. ASSUME NEW i \in DOMAIN ws.editors
          PROVE  /\ new.editors[i].id < new.next
                 /\ new.editors[i].closed => new.editors[i].wantClose
      <4>1. /\ ws.editors[i].id < ws.next /\ ws.editors[i].id \in Nat
            /\ ws.editors[i].closed => ws.editors[i].wantClose
        BY WorkspaceFacts
      <4>2. QED
        BY <1>2, <1>3, <4>1, WorkspaceFacts
    <3>2. QED
      BY <1>1, <1>2, <1>3, <1>4, <3>1, WorkspaceFacts
  <2>3. \A i, j \in DOMAIN new.editors : new.editors[i].id = new.editors[j].id => i = j
    <3>1. \A i \in DOMAIN ws.editors : ws.editors[i].id < ws.next /\ ws.editors[i].id \in Nat
      BY WorkspaceFacts
    <3>2. \A i \in DOMAIN ws.editors : ws.editors[i].id # ws.next
      BY <3>1, WorkspaceFacts
    <3>3. QED
      BY <1>1, <1>3, <1>4, <3>2 DEF WorkspaceOK
  <2>4. QED
    BY <2>1, <2>2, <2>3 DEF WorkspaceOK
<1>6. QED
  BY <1>2, <1>3, <1>4, <1>5 DEF new, last_

LEMMA CloseOK ==
    ASSUME NEW docs, NEW ws, WorkspaceOK(ws, docs), NEW id
    PROVE  WorkspaceOK(Close(ws, id), docs) /\ Same(ws, Close(ws, id))
<1>1. CASE Position(ws, id) = 0
  BY <1>1, WorkspaceFacts DEF Close
<1>2. CASE Position(ws, id) # 0
  <2> DEFINE at == Position(ws, id)
             editors == [ws.editors EXCEPT ![at].wantClose = TRUE]
  <2>1. at \in DOMAIN ws.editors
    BY <1>2 DEF Position
  <2> HIDE DEF at
  <2>2. \A i \in DOMAIN ws.editors :
          editors[i] = IF i = at THEN [ws.editors[i] EXCEPT !.wantClose = TRUE] ELSE ws.editors[i]
    BY <2>1
  <2>3. ASSUME NEW i \in DOMAIN ws.editors
        PROVE  /\ editors[i] \in Editors(docs)
               /\ editors[i].id = ws.editors[i].id
               /\ editors[i].type = ws.editors[i].type
               /\ editors[i].doc = ws.editors[i].doc
               /\ ws.editors[i].wantClose => editors[i].wantClose
               /\ editors[i].closed => editors[i].wantClose
    <3>1. /\ ws.editors[i] \in Editors(docs)
          /\ ws.editors[i].closed => ws.editors[i].wantClose
      BY WorkspaceFacts
    <3>2. QED
      BY <2>2, <3>1 DEF Editors
  <2>4. editors \in [DOMAIN ws.editors -> Editors(docs)]
    BY <2>3
  <2>5. Close(ws, id) = [ws EXCEPT !.editors = editors, !.focused = ws.focused]
    BY <1>2 DEF Close, WorkspaceOK, at
  <2>6. \A i \in DOMAIN ws.editors :
               /\ editors[i].id = ws.editors[i].id
               /\ editors[i].type = ws.editors[i].type
               /\ editors[i].doc = ws.editors[i].doc
               /\ ws.editors[i].wantClose => editors[i].wantClose
               /\ editors[i].closed => editors[i].wantClose
    BY <2>3
  <2> HIDE DEF editors
  <2>7. ws.focused \in Nat
    BY WorkspaceFacts
  <2>8. /\ WorkspaceOK([ws EXCEPT !.editors = editors, !.focused = ws.focused], docs)
        /\ Same(ws, [ws EXCEPT !.editors = editors, !.focused = ws.focused])
    BY <2>4, <2>6, <2>7, ChangedWorkspace
  <2>9. QED
    BY <2>5, <2>8
<1>3. QED
  BY <1>1, <1>2

LEMMA CloseAllOK ==
    ASSUME NEW docs, NEW ws, WorkspaceOK(ws, docs)
    PROVE  /\ WorkspaceOK(CloseAll(ws), docs) /\ Same(ws, CloseAll(ws))
           /\ \A i \in DOMAIN ws.editors :
                ~CloseAll(ws).editors[i].wantClose => ws.editors[i].type = "assets"
<1> DEFINE editors == [i \in DOMAIN ws.editors |->
             [ws.editors[i] EXCEPT !.wantClose = @ \/ Closeable(ws.editors[i])]]
<1>1. ASSUME NEW i \in DOMAIN ws.editors
      PROVE  /\ editors[i] \in Editors(docs)
             /\ editors[i].id = ws.editors[i].id
             /\ editors[i].type = ws.editors[i].type
             /\ editors[i].doc = ws.editors[i].doc
             /\ ws.editors[i].wantClose => editors[i].wantClose
             /\ editors[i].closed => editors[i].wantClose
             /\ ~editors[i].wantClose => ws.editors[i].type = "assets"
  <2>1. ws.editors[i] \in Editors(docs) /\ (ws.editors[i].closed => ws.editors[i].wantClose)
    BY WorkspaceFacts
  <2>2. PICK want \in BOOLEAN :
          /\ want <=> (ws.editors[i].wantClose \/ Closeable(ws.editors[i]))
          /\ editors[i] = [ws.editors[i] EXCEPT !.wantClose = want]
    OBVIOUS
  <2>3. /\ editors[i] \in Editors(docs) /\ editors[i].wantClose = want
        /\ editors[i].id = ws.editors[i].id /\ editors[i].type = ws.editors[i].type
        /\ editors[i].doc = ws.editors[i].doc /\ editors[i].closed = ws.editors[i].closed
    <3>1. editors[i] = [ws.editors[i] EXCEPT !.wantClose = want]
      BY <2>2
    <3> HIDE DEF editors
    <3>2. QED
      BY <2>1, <3>1 DEF Editors
  <2> HIDE DEF editors
  <2>4. QED
    BY <2>1, <2>2, <2>3 DEF Closeable
<1>2. editors \in [DOMAIN ws.editors -> Editors(docs)]
  BY <1>1
<1>3. CloseAll(ws) = [ws EXCEPT !.editors = editors, !.focused = ws.focused]
  <2>1. CloseAll(ws) = [ws EXCEPT !.editors = editors]
    BY DEF CloseAll
  <2> HIDE DEF editors
  <2>2. QED
    BY <2>1 DEF WorkspaceOK
<1>4. /\ ws.focused \in Nat
      /\ \A i \in DOMAIN ws.editors :
               /\ editors[i].id = ws.editors[i].id
               /\ editors[i].type = ws.editors[i].type
               /\ editors[i].doc = ws.editors[i].doc
               /\ ws.editors[i].wantClose => editors[i].wantClose
               /\ editors[i].closed => editors[i].wantClose
  BY <1>1, WorkspaceFacts
<1>5. \A i \in DOMAIN ws.editors : ~editors[i].wantClose => ws.editors[i].type = "assets"
  BY <1>1
<1> HIDE DEF editors
<1>6. /\ WorkspaceOK([ws EXCEPT !.editors = editors, !.focused = ws.focused], docs)
      /\ Same(ws, [ws EXCEPT !.editors = editors, !.focused = ws.focused])
  BY <1>2, <1>4, ChangedWorkspace
<1>7. CloseAll(ws).editors = editors
  BY <1>3 DEF WorkspaceOK
<1>8. QED
  BY <1>3, <1>5, <1>6, <1>7

LEMMA EndUpdateOK ==
    ASSUME NEW docs, NEW ws, WorkspaceOK(ws, docs), NEW at \in DOMAIN ws.editors,
           NEW active \in BOOLEAN
    PROVE  WorkspaceOK(EndUpdate(ws, at, active), docs) /\ Same(ws, EndUpdate(ws, at, active))
<1> DEFINE editors == [ws.editors EXCEPT ![at].closed = @ \/ ws.editors[at].wantClose]
           focused == IF active THEN ws.editors[at].id ELSE ws.focused
<1>1. PICK closed \in BOOLEAN :
        /\ closed <=> (ws.editors[at].closed \/ ws.editors[at].wantClose)
        /\ editors = [ws.editors EXCEPT ![at] = [ws.editors[at] EXCEPT !.closed = closed]]
  OBVIOUS
<1>2. ASSUME NEW i \in DOMAIN ws.editors
      PROVE  /\ editors[i] \in Editors(docs)
             /\ editors[i].id = ws.editors[i].id
             /\ editors[i].type = ws.editors[i].type
             /\ editors[i].doc = ws.editors[i].doc
             /\ ws.editors[i].wantClose => editors[i].wantClose
             /\ editors[i].closed => editors[i].wantClose
  <2>1. ws.editors[i] \in Editors(docs) /\ (ws.editors[i].closed => ws.editors[i].wantClose)
    BY WorkspaceFacts
  <2>2. CASE i # at
    <3>1. editors[i] = ws.editors[i]
      BY <2>2
    <3>2. QED
      BY <2>1, <3>1
  <2>3. CASE i = at
    <3>1. editors[i] = [ws.editors[i] EXCEPT !.closed = closed]
      BY <1>1, <2>3
    <3> HIDE DEF editors
    <3>2. /\ editors[i] \in Editors(docs) /\ editors[i].closed = closed
          /\ editors[i].id = ws.editors[i].id /\ editors[i].type = ws.editors[i].type
          /\ editors[i].doc = ws.editors[i].doc /\ editors[i].wantClose = ws.editors[i].wantClose
      BY <2>1, <3>1 DEF Editors
    <3>3. QED
      BY <1>1, <2>1, <2>3, <3>2
  <2>4. QED
    BY <2>2, <2>3
<1>3. editors \in [DOMAIN ws.editors -> Editors(docs)]
  BY <1>2
<1>4. focused \in Nat
  BY WorkspaceFacts
<1>5. EndUpdate(ws, at, active) = [ws EXCEPT !.editors = editors, !.focused = focused]
  BY DEF EndUpdate
<1>6. \A i \in DOMAIN ws.editors :
               /\ editors[i].id = ws.editors[i].id
               /\ editors[i].type = ws.editors[i].type
               /\ editors[i].doc = ws.editors[i].doc
               /\ ws.editors[i].wantClose => editors[i].wantClose
               /\ editors[i].closed => editors[i].wantClose
  BY <1>2
<1> HIDE DEF editors, focused
<1>7. /\ WorkspaceOK([ws EXCEPT !.editors = editors, !.focused = focused], docs)
      /\ Same(ws, [ws EXCEPT !.editors = editors, !.focused = focused])
  BY <1>3, <1>4, <1>6, ChangedWorkspace
<1>8. QED
  BY <1>5, <1>7

\* The editors left are some of those there were, each once.
LeftOf(left, editors) ==
    \E pick \in [DOMAIN left -> DOMAIN editors] :
        /\ \A i, j \in DOMAIN left : pick[i] = pick[j] => i = j
        /\ \A i \in DOMAIN left : left[i] = editors[pick[i]]

LEMMA EraseOK ==
    ASSUME NEW docs, NEW ws, WorkspaceOK(ws, docs)
    PROVE  /\ WorkspaceOK(EraseClosed(ws), docs)
           /\ EraseClosed(ws).next = ws.next
           /\ LeftOf(EraseClosed(ws).editors, ws.editors)
<1> DEFINE new == EraseClosed(ws)
<1>1. /\ new = [ws EXCEPT !.editors = Remaining(ws.editors)]
      /\ ws \in [editors : Seq(Editors(docs)), next : Nat, focused : Nat]
  BY DEF EraseClosed, WorkspaceOK
<1> HIDE DEF new
<1>2. /\ Remaining(ws.editors) \in Seq(Editors(docs))
      /\ Picked(ws.editors, Len(ws.editors), Remaining(ws.editors))
  BY <1>1, RemainingPicked
<1>3. /\ new.editors = Remaining(ws.editors) /\ new.next = ws.next
      /\ new \in [editors : Seq(Editors(docs)), next : Nat, focused : Nat]
  BY <1>1, <1>2
<1>4. DOMAIN new.editors = 1 .. Len(new.editors) /\ Len(new.editors) \in Nat
  BY <1>2, <1>3, LenProperties
<1>5. PICK pick \in [1 .. Len(new.editors) -> 1 .. Len(ws.editors)] :
        /\ \A i, j \in 1 .. Len(new.editors) : i < j => pick[i] < pick[j]
        /\ \A i \in 1 .. Len(new.editors) : new.editors[i] = ws.editors[pick[i]]
  BY <1>2, <1>3 DEF Picked
<1>6. \A i \in DOMAIN new.editors : pick[i] \in DOMAIN ws.editors /\ pick[i] \in Nat
  BY <1>4, <1>5, WorkspaceFacts
<1>7. ASSUME NEW i \in DOMAIN new.editors, NEW j \in DOMAIN new.editors, pick[i] = pick[j]
      PROVE  i = j
  <2>1. i \in Nat /\ j \in Nat /\ ~(pick[i] < pick[j]) /\ ~(pick[j] < pick[i])
    BY <1>4, <1>6, <1>7
  <2>2. ~(i < j) /\ ~(j < i)
    BY <1>4, <1>5, <2>1
  <2>3. QED
    BY <2>1, <2>2
<1>8. WorkspaceOK(new, docs)
  <2>1. \A i \in DOMAIN new.editors :
          /\ new.editors[i].id < new.next
          /\ new.editors[i].closed => new.editors[i].wantClose
    BY <1>3, <1>4, <1>5, <1>6, WorkspaceFacts
  <2>2. \A i, j \in DOMAIN new.editors : new.editors[i].id = new.editors[j].id => i = j
    BY <1>4, <1>5, <1>6, <1>7 DEF WorkspaceOK
  <2>3. QED
    BY <1>3, <2>1, <2>2 DEF WorkspaceOK
<1>9. pick \in [DOMAIN new.editors -> DOMAIN ws.editors]
  BY <1>4, <1>5, WorkspaceFacts
<1>10. QED
  <2>1. LeftOf(new.editors, ws.editors)
    BY <1>4, <1>5, <1>7, <1>9 DEF LeftOf
  <2> QED BY <1>3, <1>8, <2>1 DEF new

-----------------------------------------------------------------------------
(* The shell's documents *)

Docs == {NoDocument} \cup (ShellProjects \X Assets)

\* No two editors show the same; but every game has an editor of its own.
OncePerDocument(eds) ==
    \A i, j \in DOMAIN eds : i # j /\ eds[i].type # "game" =>
        ~(eds[i].type = eds[j].type /\ eds[i].doc = eds[j].doc)

\* The editor of the assets, which CloseAll leaves, shows no document.
OnlyScenes(eds) == \A i \in DOMAIN eds : eds[i].type # "scene" => eds[i].doc = NoDocument

OfProject(eds, project) ==
    \A i \in DOMAIN eds : ~eds[i].wantClose /\ eds[i].doc # NoDocument => eds[i].doc[1] = project

Documented(ws, project) ==
    /\ WorkspaceOK(ws, Docs)
    /\ OncePerDocument(ws.editors) /\ OnlyScenes(ws.editors) /\ OfProject(ws.editors, project)

\* The update never visits an editor that is not there; and while the user is to
\* be asked for the next project, there is none.
DocumentsInv ==
    /\ Documented(workspace, shellProject)
    /\ flags \in [open : BOOLEAN, close : BOOLEAN, run : BOOLEAN]
    /\ visiting \in Nat /\ last \in Nat
    /\ phase = "editors" => visiting # 0 /\ last <= Len(workspace.editors)
    /\ WantsLoad => shellProject = NoShellProject

LEMMA SameDocumented ==
    ASSUME NEW ws, NEW project, Documented(ws, project),
           NEW new, WorkspaceOK(new, Docs), Same(ws, new)
    PROVE  Documented(new, project)
<1>1. OncePerDocument(new.editors)
  BY DEF Documented, OncePerDocument, Same
<1>2. OnlyScenes(new.editors)
  BY DEF Documented, OnlyScenes, Same
<1>3. OfProject(new.editors, project)
  BY DEF Documented, OfProject, Same
<1>4. QED
  BY <1>1, <1>2, <1>3 DEF Documented

LEMMA CreateDocumented ==
    ASSUME NEW ws, NEW project, Documented(ws, project),
           NEW type \in EditorTypes, NEW doc \in Docs,
           type # "game" =>
               \A i \in DOMAIN ws.editors : ~(ws.editors[i].type = type /\ ws.editors[i].doc = doc),
           type # "scene" => doc = NoDocument,
           doc # NoDocument => doc[1] = project
    PROVE  /\ Documented(CreateEditor(ws, type, doc), project)
           /\ Len(CreateEditor(ws, type, doc).editors) = Len(ws.editors) + 1
<1> DEFINE new == CreateEditor(ws, type, doc)
           end == Len(ws.editors) + 1
<1>1. /\ WorkspaceOK(new, Docs) /\ Len(new.editors) = end
      /\ new.editors[end] = Editor(ws.next, type, doc)
      /\ \A i \in DOMAIN ws.editors : new.editors[i] = ws.editors[i]
      /\ DOMAIN new.editors = DOMAIN ws.editors \cup {end}
  BY CreateOK DEF Documented
<1>2. /\ new.editors[end].type = type /\ new.editors[end].doc = doc
      /\ ~new.editors[end].wantClose
  BY <1>1 DEF Editor
<1> HIDE DEF new, end
<1>3. OncePerDocument(new.editors)
  <2> SUFFICES ASSUME NEW i \in DOMAIN new.editors, NEW j \in DOMAIN new.editors,
                      i # j, new.editors[i].type # "game",
                      new.editors[i].type = new.editors[j].type,
                      new.editors[i].doc = new.editors[j].doc
               PROVE  FALSE
    BY DEF OncePerDocument
  <2>1. CASE i = end
    BY <1>1, <1>2, <2>1
  <2>2. CASE j = end
    BY <1>1, <1>2, <2>2
  <2>3. CASE i \in DOMAIN ws.editors /\ j \in DOMAIN ws.editors
    BY <1>1, <2>3 DEF Documented, OncePerDocument
  <2>4. QED
    BY <1>1, <2>1, <2>2, <2>3
<1>4. OnlyScenes(new.editors) /\ OfProject(new.editors, project)
  BY <1>1, <1>2 DEF Documented, OnlyScenes, OfProject
<1>5. Documented(new, project) /\ Len(new.editors) = Len(ws.editors) + 1
  BY <1>1, <1>3, <1>4 DEF Documented, end
<1>6. QED
  BY <1>5 DEF new

\* Whatever command is given, or editor or document is opened.
Grown(ws, new, project) ==
    Documented(new, project) /\ Len(ws.editors) <= Len(new.editors)

LEMMA OpenGrown ==
    ASSUME NEW ws, NEW project, Documented(ws, project), NEW type \in EditorTypes
    PROVE  Grown(ws, OpenEditor(ws, type), project)
<1>1. Len(ws.editors) \in Nat
  BY WorkspaceFacts DEF Documented
<1>2. CASE \E i \in DOMAIN ws.editors : ws.editors[i].type = type
  BY <1>1, <1>2 DEF OpenEditor, Grown
<1>3. CASE ~ \E i \in DOMAIN ws.editors : ws.editors[i].type = type
  <2>1. OpenEditor(ws, type) = CreateEditor(ws, type, NoDocument) /\ NoDocument \in Docs
    BY <1>3 DEF OpenEditor, Docs
  <2>2. /\ Documented(CreateEditor(ws, type, NoDocument), project)
        /\ Len(CreateEditor(ws, type, NoDocument).editors) = Len(ws.editors) + 1
    BY <1>3, <2>1, CreateDocumented
  <2>3. QED
    BY <1>1, <2>1, <2>2 DEF Grown
<1>4. QED
  BY <1>2, <1>3

LEMMA DocumentGrown ==
    ASSUME NEW ws, NEW project \in ShellProjects, Documented(ws, project), NEW a \in Assets
    PROVE  Grown(ws, OpenDocument(ws, "scene", <<project, a>>), project)
<1> DEFINE doc == <<project, a>>
           already == \E i \in DOMAIN ws.editors :
                          ws.editors[i].type = "scene" /\ ws.editors[i].doc = doc
<1>1. Len(ws.editors) \in Nat
  BY WorkspaceFacts DEF Documented
<1>2. CASE already
  BY <1>1, <1>2 DEF OpenDocument, Grown
<1>3. CASE ~already
  <2>1. OpenDocument(ws, "scene", doc) = CreateEditor(ws, "scene", doc)
    BY <1>3 DEF OpenDocument
  <2>2. doc \in Docs /\ doc[1] = project /\ "scene" \in EditorTypes
    BY DEF Docs, EditorTypes
  <2>3. /\ Documented(CreateEditor(ws, "scene", doc), project)
        /\ Len(CreateEditor(ws, "scene", doc).editors) = Len(ws.editors) + 1
    BY <1>3, <2>2, CreateDocumented
  <2>4. QED
    BY <1>1, <2>1, <2>3 DEF Grown
<1>4. QED
  BY <1>2, <1>3

LEMMA CloseGrown ==
    ASSUME NEW ws, NEW project, Documented(ws, project), NEW id
    PROVE  Grown(ws, Close(ws, id), project)
<1>1. WorkspaceOK(Close(ws, id), Docs) /\ Same(ws, Close(ws, id))
  BY CloseOK DEF Documented
<1>2. Len(ws.editors) \in Nat /\ Len(Close(ws, id).editors) = Len(ws.editors)
  BY <1>1, WorkspaceFacts DEF Documented, Same
<1>3. QED
  BY <1>1, <1>2, SameDocumented DEF Grown

LEMMA CommandGrown ==
    ASSUME NEW ws, NEW project, Documented(ws, project), NEW c
    PROVE  Grown(ws, Commanded(ws, c), project)
<1>1. Len(ws.editors) \in Nat
  BY WorkspaceFacts DEF Documented
<1>2. CASE c = "show-logs"
  BY <1>2, OpenGrown DEF Commanded, EditorTypes
<1>3. CASE c = "play"
  <2>1. /\ Commanded(ws, c) = CreateEditor(ws, "game", NoDocument) /\ NoDocument \in Docs
        /\ "game" \in EditorTypes
    BY <1>3 DEF Commanded, Docs, EditorTypes
  <2>2. /\ Documented(CreateEditor(ws, "game", NoDocument), project)
        /\ Len(CreateEditor(ws, "game", NoDocument).editors) = Len(ws.editors) + 1
    BY <2>1, CreateDocumented
  <2>3. QED
    BY <1>1, <2>1, <2>2 DEF Grown
<1>4. CASE c = "close-document"
  BY <1>4, CloseGrown DEF Commanded
<1>5. CASE c \notin {"show-logs", "play", "close-document"}
  BY <1>1, <1>5 DEF Commanded, Grown
<1>6. QED
  BY <1>2, <1>3, <1>4, <1>5

LEMMA EndUpdateGrown ==
    ASSUME NEW ws, NEW project, Documented(ws, project), NEW at \in 1 .. Len(ws.editors),
           NEW active \in BOOLEAN
    PROVE  Grown(ws, EndUpdate(ws, at, active), project)
<1>1. at \in DOMAIN ws.editors /\ Len(ws.editors) \in Nat
  BY WorkspaceFacts DEF Documented
<1>2. WorkspaceOK(EndUpdate(ws, at, active), Docs) /\ Same(ws, EndUpdate(ws, at, active))
  BY <1>1, EndUpdateOK DEF Documented
<1>3. Len(EndUpdate(ws, at, active).editors) = Len(ws.editors)
  BY <1>2 DEF Same
<1>4. QED
  BY <1>1, <1>2, <1>3, SameDocumented DEF Grown

LEMMA CloseAllDocumented ==
    ASSUME NEW ws, NEW project, Documented(ws, project), NEW other
    PROVE  Documented(CloseAll(ws), other)
<1>1. /\ WorkspaceOK(CloseAll(ws), Docs) /\ Same(ws, CloseAll(ws))
      /\ \A i \in DOMAIN ws.editors :
           ~CloseAll(ws).editors[i].wantClose => ws.editors[i].type = "assets"
  BY CloseAllOK DEF Documented
<1>2. Documented(CloseAll(ws), project)
  BY <1>1, SameDocumented
<1>3. OfProject(CloseAll(ws).editors, other)
  BY <1>1, <1>2 DEF Documented, OfProject, OnlyScenes, Same
<1>4. QED
  BY <1>2, <1>3 DEF Documented

LEMMA EraseDocumented ==
    ASSUME NEW ws, NEW project, Documented(ws, project)
    PROVE  Documented(EraseClosed(ws), project)
<1>1. WorkspaceOK(ws, Docs)
  BY DEF Documented
<1>2. WorkspaceOK(EraseClosed(ws), Docs) /\ LeftOf(EraseClosed(ws).editors, ws.editors)
  BY <1>1, EraseOK
<1>3. PICK pick \in [DOMAIN EraseClosed(ws).editors -> DOMAIN ws.editors] :
        /\ \A i, j \in DOMAIN EraseClosed(ws).editors : pick[i] = pick[j] => i = j
        /\ \A i \in DOMAIN EraseClosed(ws).editors :
             EraseClosed(ws).editors[i] = ws.editors[pick[i]]
  BY <1>2 DEF LeftOf
<1>4. OncePerDocument(EraseClosed(ws).editors)
  BY <1>3 DEF Documented, OncePerDocument
<1>5. OnlyScenes(EraseClosed(ws).editors) /\ OfProject(EraseClosed(ws).editors, project)
  BY <1>3 DEF Documented, OnlyScenes, OfProject
<1>6. QED
  BY <1>2, <1>4, <1>5 DEF Documented

-----------------------------------------------------------------------------
(* The shell's steps *)

LEMMA DocumentsInit == ShellInit => DocumentsInv
<1> SUFFICES ASSUME ShellInit PROVE DocumentsInv
  OBVIOUS
<1> DEFINE new == NewWorkspace
<1>1. /\ new \in [editors : Seq(Editors(Docs)), next : Nat, focused : Nat]
      /\ DOMAIN new.editors = {} /\ new.next = 1
  <2>1. <<>> \in Seq(Editors(Docs)) /\ DOMAIN <<>> = {}
    OBVIOUS
  <2>2. QED
    BY <2>1 DEF NewWorkspace, NoEditor
<1> HIDE DEF new
<1>2. Documented(new, shellProject)
  BY <1>1 DEF Documented, WorkspaceOK, OncePerDocument, OnlyScenes, OfProject
<1>3. Documented(OpenEditor(new, "assets"), shellProject)
  BY <1>2, OpenGrown DEF Grown, EditorTypes
<1>4. Documented(workspace, shellProject)
  BY <1>2, <1>3 DEF ShellInit, new
<1>5. QED
  BY <1>4 DEF ShellInit, DocumentsInv, WantsLoad

\* What a command asks of the shell keeps the project from being replaced while
\* it is open.
LEMMA InvokeOK ==
    ASSUME DocumentsInv, NEW c, Invoke(c)
    PROVE  /\ flags' \in [open : BOOLEAN, close : BOOLEAN, run : BOOLEAN]
           /\ flags'.open /\ ~flags'.close => shellProject = NoShellProject
<1>1. flags \in [open : BOOLEAN, close : BOOLEAN, run : BOOLEAN]
  BY DEF DocumentsInv
<1>2. CASE c = "quit"
  BY <1>1, <1>2 DEF Invoke, DocumentsInv, WantsLoad
<1>3. CASE c = "open-project"
  BY <1>1, <1>3 DEF Invoke
<1>4. CASE c = "close-project"
  BY <1>1, <1>4 DEF Invoke
<1>5. CASE c \notin {"quit", "open-project", "close-project"}
  BY <1>1, <1>5 DEF Invoke, DocumentsInv, WantsLoad
<1>6. QED
  BY <1>2, <1>3, <1>4, <1>5

LEMMA KeyDownDocuments ==
    ASSUME DocumentsInv, NEW key \in Keys, KeyDown(key)
    PROVE  DocumentsInv'
<1>1. PICK c : Invoke(c) /\ workspace' = Commanded(workspace, c)
  BY DEF KeyDown
<1>2. Documented(workspace', shellProject)
  BY <1>1, CommandGrown DEF DocumentsInv, Grown
<1>3. /\ flags' \in [open : BOOLEAN, close : BOOLEAN, run : BOOLEAN]
      /\ flags'.open /\ ~flags'.close => shellProject = NoShellProject
  BY <1>1, InvokeOK
<1>4. QED
  BY <1>2, <1>3 DEF KeyDown, DocumentsInv, WantsLoad

LEMMA LoadDocuments ==
    ASSUME DocumentsInv, NEW p \in ShellProjects, LoadProject(p)
    PROVE  DocumentsInv'
<1>1. Documented(CloseAll(workspace), p)
  BY CloseAllDocumented DEF DocumentsInv
<1>2. Documented(workspace', p)
  BY <1>1, OpenGrown DEF LoadProject, Grown, EditorTypes
<1>3. flags' \in [open : BOOLEAN, close : BOOLEAN, run : BOOLEAN] /\ ~flags'.open
  BY DEF LoadProject, DocumentsInv
<1>4. QED
  BY <1>2, <1>3 DEF LoadProject, DocumentsInv, WantsLoad

LEMMA NoLoadDocuments ==
    ASSUME DocumentsInv, LoadFails \/ NoLoad \/ EndEvents
    PROVE  DocumentsInv'
<1>1. CASE LoadFails
  <2>1. shellProject' = shellProject /\ workspace' = workspace
    BY <1>1 DEF LoadFails, DocumentsInv
  <2>2. flags' \in [open : BOOLEAN, close : BOOLEAN, run : BOOLEAN] /\ ~flags'.open
    BY <1>1 DEF LoadFails, DocumentsInv
  <2>3. phase' # "editors"
    BY <1>1 DEF LoadFails
  <2>4. QED
    BY <1>1, <2>1, <2>2, <2>3 DEF LoadFails, DocumentsInv, WantsLoad
<1>2. CASE NoLoad
  BY <1>2 DEF NoLoad, DocumentsInv, WantsLoad
<1>3. CASE EndEvents
  BY <1>3 DEF EndEvents, DocumentsInv, WantsLoad
<1>4. QED
  BY <1>1, <1>2, <1>3

LEMMA BeginUpdateDocuments ==
    ASSUME DocumentsInv, BeginUpdate
    PROVE  DocumentsInv'
<1>1. Documented(workspace', shellProject)
  BY EraseDocumented DEF BeginUpdate, DocumentsInv
<1>2. Len(workspace'.editors) \in Nat
  BY <1>1, WorkspaceFacts DEF Documented
<1>3. QED
  BY <1>1, <1>2 DEF BeginUpdate, DocumentsInv, WantsLoad

\* The update of one editor, whatever is done in its window: ws is what that has
\* left of the workspace.
LEMMA LeaveDocuments ==
    ASSUME DocumentsInv, AtEditor,
           NEW ws, Grown(workspace, ws, shellProject), Leave(ws),
           flags' \in [open : BOOLEAN, close : BOOLEAN, run : BOOLEAN],
           flags'.open /\ ~flags'.close => shellProject = NoShellProject
    PROVE  DocumentsInv'
<1>1. PICK active \in BOOLEAN : workspace' = EndUpdate(ws, visiting, active)
  BY DEF Leave
<1>2. Len(workspace.editors) \in Nat /\ Len(ws.editors) \in Nat
  BY WorkspaceFacts DEF Grown, DocumentsInv, Documented
<1>3. visiting \in 1 .. Len(ws.editors) /\ last <= Len(ws.editors)
  BY <1>2 DEF DocumentsInv, AtEditor, Grown
<1>4. Grown(ws, workspace', shellProject)
  BY <1>1, <1>3, EndUpdateGrown DEF Grown
<1>5. Len(workspace'.editors) \in Nat
  BY <1>4, WorkspaceFacts DEF Grown, Documented
<1>6. last <= Len(workspace'.editors)
  BY <1>2, <1>3, <1>4, <1>5 DEF Grown, DocumentsInv
<1>7. QED
  BY <1>4, <1>6 DEF Leave, DocumentsInv, WantsLoad, Grown

LEMMA UpdateDocuments ==
    ASSUME DocumentsInv, UpdateEditor \/ CloseButton
    PROVE  DocumentsInv'
<1>1. Grown(workspace, workspace, shellProject)
  BY WorkspaceFacts DEF DocumentsInv, Documented, Grown
<1>2. flags \in [open : BOOLEAN, close : BOOLEAN, run : BOOLEAN]
      /\ (flags.open /\ ~flags.close => shellProject = NoShellProject)
  BY DEF DocumentsInv, WantsLoad
<1>3. CASE UpdateEditor
  BY <1>1, <1>2, <1>3, LeaveDocuments DEF UpdateEditor
<1>4. CASE CloseButton
  <2>1. Grown(workspace, Close(workspace, Visited.id), shellProject)
    BY CloseGrown DEF DocumentsInv
  <2>2. QED
    BY <1>2, <1>4, <2>1, LeaveDocuments DEF CloseButton
<1>5. QED
  BY <1>3, <1>4

LEMMA MenuDocuments ==
    ASSUME DocumentsInv, NEW c, MenuCommand(c)
    PROVE  DocumentsInv'
<1>1. Grown(workspace, Commanded(workspace, c), shellProject)
  BY CommandGrown DEF DocumentsInv
<1>2. /\ flags' \in [open : BOOLEAN, close : BOOLEAN, run : BOOLEAN]
      /\ flags'.open /\ ~flags'.close => shellProject = NoShellProject
  BY InvokeOK DEF MenuCommand
<1>3. QED
  BY <1>1, <1>2, LeaveDocuments DEF MenuCommand

LEMMA PaletteDocuments ==
    ASSUME DocumentsInv, NEW c, PaletteCommand(c)
    PROVE  DocumentsInv'
<1> DEFINE ws == EndUpdate(workspace, visiting, TRUE)
<1>1. workspace' = Commanded(ws, c)
  BY DEF PaletteCommand
<1>2. Len(workspace.editors) \in Nat
  BY WorkspaceFacts DEF DocumentsInv, Documented
<1>3. visiting \in 1 .. Len(workspace.editors)
  BY <1>2 DEF DocumentsInv, PaletteCommand, AtEditor
<1>4. Grown(workspace, ws, shellProject)
  BY <1>3, EndUpdateGrown DEF DocumentsInv
<1> HIDE DEF ws
<1>5. Grown(ws, workspace', shellProject)
  BY <1>1, <1>4, CommandGrown DEF Grown
<1>6. Len(ws.editors) \in Nat /\ Len(workspace'.editors) \in Nat
  BY <1>4, <1>5, WorkspaceFacts DEF Grown, Documented
<1>7. last <= Len(workspace'.editors)
  <2>1. last \in Nat /\ last <= Len(workspace.editors)
    BY DEF DocumentsInv, PaletteCommand, AtEditor
  <2>2. Len(workspace.editors) <= Len(ws.editors) /\ Len(ws.editors) <= Len(workspace'.editors)
    BY <1>4, <1>5 DEF Grown
  <2>3. QED
    BY <1>2, <1>6, <2>1, <2>2
<1>8. /\ flags' \in [open : BOOLEAN, close : BOOLEAN, run : BOOLEAN]
      /\ flags'.open /\ ~flags'.close => shellProject = NoShellProject
  BY InvokeOK DEF PaletteCommand
<1>9. /\ visiting' = visiting + 1 /\ last' = last /\ shellProject' = shellProject
      /\ visiting \in Nat /\ last \in Nat
  BY DEF PaletteCommand, DocumentsInv
<1>10. Documented(workspace', shellProject)
  BY <1>5 DEF Grown
<1>11. QED
  BY <1>7, <1>8, <1>9, <1>10 DEF DocumentsInv, WantsLoad

LEMMA EditDocuments ==
    ASSUME DocumentsInv, NEW a \in Assets, EditAsset(a), shellProject \in ShellProjects
    PROVE  DocumentsInv'
<1>1. Grown(workspace, OpenDocument(workspace, "scene", <<shellProject, a>>), shellProject)
  BY DocumentGrown DEF DocumentsInv
<1>2. flags \in [open : BOOLEAN, close : BOOLEAN, run : BOOLEAN]
      /\ (flags.open /\ ~flags.close => shellProject = NoShellProject)
  BY DEF DocumentsInv, WantsLoad
<1>3. QED
  BY <1>1, <1>2, LeaveDocuments DEF EditAsset

LEMMA EndDocuments ==
    ASSUME DocumentsInv, SkipClosed \/ EndUpdates \/ EndFrame
    PROVE  DocumentsInv'
<1>1. CASE SkipClosed
  BY <1>1 DEF SkipClosed, DocumentsInv, WantsLoad
<1>2. CASE EndUpdates
  BY <1>2 DEF EndUpdates, DocumentsInv, WantsLoad
<1>3. CASE EndFrame
  <2>1. phase' # "editors" /\ visiting' = 0 /\ last' = 0
    BY <1>3 DEF EndFrame
  <2>2. CASE flags.close
    <3>1. Documented(workspace', shellProject') /\ shellProject' = NoShellProject
      BY <1>3, <2>2, CloseAllDocumented DEF EndFrame, DocumentsInv
    <3>2. flags' \in [open : BOOLEAN, close : BOOLEAN, run : BOOLEAN]
      BY <1>3, <2>2 DEF EndFrame, DocumentsInv
    <3>3. QED
      BY <2>1, <3>1, <3>2 DEF DocumentsInv, WantsLoad
  <2>3. CASE ~flags.close
    BY <1>3, <2>1, <2>3 DEF EndFrame, DocumentsInv, WantsLoad
  <2>4. QED
    BY <2>2, <2>3
<1>4. QED
  BY <1>1, <1>2, <1>3

\* No document is ever open twice, and an editor that stays shows a document of
\* the project that is open, however many projects, assets and editors there are.
THEOREM DocumentsStayRight == ShellSpec => []DocumentsRight
<1> DEFINE Inv == DocumentsInv /\ shellProject \in ShellProjects \cup {NoShellProject}
<1>1. ShellInit => Inv
  BY DocumentsInit DEF ShellInit
<1>2. Inv /\ [ShellNext]_shellVars => Inv'
  <2> SUFFICES ASSUME Inv, [ShellNext]_shellVars PROVE Inv'
    OBVIOUS
  <2>1. CASE UNCHANGED shellVars
    BY <2>1 DEF shellVars, DocumentsInv, WantsLoad
  <2>2. CASE ShellNext
    <3>1. shellProject' \in ShellProjects \cup {NoShellProject}
      BY <2>2 DEF ShellNext, KeyDown, EndEvents, LoadProject, LoadFails, NoLoad, BeginUpdate,
                  SkipClosed, UpdateEditor, CloseButton, MenuCommand, PaletteCommand, EditAsset,
                  Leave, EndUpdates, EndFrame
    <3>2. DocumentsInv'
      <4>1. ASSUME NEW a \in Assets, EditAsset(a) PROVE DocumentsInv'
        <5>1. shellProject \in ShellProjects
          BY <4>1 DEF EditAsset
        <5>2. QED
          BY <4>1, <5>1, EditDocuments
      <4>2. QED
        BY <2>2, <4>1, KeyDownDocuments, LoadDocuments, NoLoadDocuments, BeginUpdateDocuments,
           UpdateDocuments, MenuDocuments, PaletteDocuments, EndDocuments
           DEF ShellNext
    <3>3. QED
      BY <3>1, <3>2
  <2>3. QED
    BY <2>1, <2>2
<1>3. Inv => DocumentsRight
  <2> SUFFICES ASSUME DocumentsInv PROVE DocumentsRight
    OBVIOUS
  <2>1. ASSUME NEW i \in DOMAIN workspace.editors, NEW j \in DOMAIN workspace.editors, i # j
        PROVE  /\ workspace.editors[i].id # workspace.editors[j].id
               /\ workspace.editors[i].type # "game" =>
                    <<workspace.editors[i].type, workspace.editors[i].doc>>
                      # <<workspace.editors[j].type, workspace.editors[j].doc>>
    BY <2>1 DEF DocumentsInv, Documented, WorkspaceOK, OncePerDocument
  <2>2. ASSUME NEW i \in DOMAIN workspace.editors, ~workspace.editors[i].wantClose,
               workspace.editors[i].doc # NoDocument
        PROVE  workspace.editors[i].doc[1] = shellProject
    BY <2>2 DEF DocumentsInv, Documented, OfProject
  <2>3. QED
    BY <2>1, <2>2 DEF DocumentsRight, Live
<1>4. QED
  BY <1>1, <1>2, <1>3, PTL DEF ShellSpec

-----------------------------------------------------------------------------
(* The window's images *)

ViewOK(v) ==
    /\ v = [dimensions |-> v.dimensions, buffer |-> v.buffer,
            hasGrid |-> v.hasGrid, picture |-> v.picture]
    /\ v.buffer # NoTexture2D => v.picture.buffer = v.buffer

Viewed(ws, of) ==
    /\ WorkspaceOK(ws, {NoDocument})
    /\ of = [id \in DOMAIN of |-> of[id]]
    /\ \A id \in DOMAIN of : id \in Nat /\ id < ws.next /\ ViewOK(of[id])
    /\ \A i \in DOMAIN ws.editors : HasView(ws.editors[i]) => ws.editors[i].id \in DOMAIN of

\* The images are of views up to some position, which have been rendered.
ScreensShown(ws, of, shown, upto) ==
    \A image \in shown :
      /\ image.gone = FALSE
      /\ image.editor \in DOMAIN of /\ of[image.editor].buffer # NoTexture2D
      /\ \E i \in DOMAIN ws.editors : i <= upto /\ ws.editors[i].id = image.editor

Turned(t, ws) ==
    /\ t = [phase |-> t.phase, at |-> t.at, end |-> t.end] /\ t.at \in Nat /\ t.end \in Nat
    /\ t.phase \in {"render", "show", "act"} => t.at # 0 /\ t.end <= Len(ws.editors)
    /\ t.phase \in {"show", "act"} => t.at <= t.end

\* The swap chain has the size of the window from the end of the events on.
Chained ==
    /\ noticed \in BOOLEAN /\ chain = [size |-> chain.size, bound |-> chain.bound]
    /\ turn.phase = "events" => chain.bound = FALSE
    /\ turn.phase = "events" /\ noticed => chain.size = window
    /\ turn.phase # "events" => chain.size = window /\ display = window

\* An editor is rendered before it is shown, and those that are rendered later
\* have no image yet whose texture they could release.
ScreenInv ==
    /\ Viewed(screen, views) /\ Turned(turn, screen) /\ Chained
    /\ turn.phase \in {"render", "show", "present"} => ScreensShown(screen, views, images, turn.at - 1)
    /\ turn.phase = "act" => ScreensShown(screen, views, images, turn.at)

LEMMA ScreenInit == RenderInit => ScreenInv
<1> SUFFICES ASSUME RenderInit PROVE ScreenInv
  OBVIOUS
<1>1. WorkspaceOK(NewWorkspace, {NoDocument}) /\ DOMAIN NewWorkspace.editors = {}
      /\ Len(NewWorkspace.editors) = 0
  <2>1. <<>> \in Seq(Editors({NoDocument})) /\ DOMAIN <<>> = {} /\ Len(<<>>) = 0
    OBVIOUS
  <2>2. QED
    BY <2>1 DEF NewWorkspace, NoEditor, WorkspaceOK
<1>2. /\ WorkspaceOK(screen, {NoDocument})
      /\ DOMAIN screen.editors = {1} /\ screen.editors[1] = Editor(NewWorkspace.next, "assets", NoDocument)
  <2> DEFINE new == CreateEditor(NewWorkspace, "assets", NoDocument)
             end == Len(NewWorkspace.editors) + 1
  <2>1. "assets" \in EditorTypes /\ NoDocument \in {NoDocument}
    BY DEF EditorTypes
  <2>2. /\ WorkspaceOK(new, {NoDocument})
        /\ new.editors[end] = Editor(NewWorkspace.next, "assets", NoDocument)
        /\ DOMAIN new.editors = DOMAIN NewWorkspace.editors \cup {end}
    BY <1>1, <2>1, CreateOK
  <2> HIDE DEF new
  <2>3. end = 1
    BY <1>1
  <2> HIDE DEF end
  <2>4. screen = new
    BY DEF RenderInit, new
  <2>5. QED
    BY <1>1, <2>2, <2>3, <2>4
<1>3. ~HasView(screen.editors[1])
  BY <1>2 DEF Editor, HasView
<1>4. views = [id \in DOMAIN views |-> views[id]] /\ DOMAIN views = {}
  BY DEF RenderInit
<1>5. Viewed(screen, views)
  BY <1>2, <1>3, <1>4 DEF Viewed
<1>6. Turned(turn, screen) /\ Chained
  BY DEF RenderInit, Turned, Chained
<1>7. QED
  BY <1>5, <1>6 DEF RenderInit, ScreenInv

LEMMA EventsScreen ==
    ASSUME ScreenInv, ResizeWindow \/ SizeChanged \/ DrawInterface \/ Present
    PROVE  ScreenInv'
<1>1. screen' = screen /\ views' = views /\ images' = images
  BY DEF ResizeWindow, SizeChanged, DrawInterface, Present
<1>2. CASE ResizeWindow
  <2>1. Chained'
    BY <1>2 DEF ResizeWindow, ScreenInv, Chained
  <2>2. QED
    BY <1>1, <1>2, <2>1 DEF ResizeWindow, ScreenInv
<1>3. CASE SizeChanged
  <2>1. Chained'
    BY <1>3 DEF SizeChanged, ScreenInv, Chained
  <2>2. QED
    BY <1>1, <1>3, <2>1 DEF SizeChanged, ScreenInv
<1>4. CASE DrawInterface
  <2>1. /\ turn.phase = "render" /\ turn'.phase = "present" /\ turn'.at = turn.at
        /\ turn' = [phase |-> "present", at |-> turn.at, end |-> turn.end]
    BY <1>4 DEF DrawInterface, ScreenInv, Turned
  <2>2. Turned(turn', screen)
    BY <2>1 DEF ScreenInv, Turned
  <2>3. Chained'
    BY <1>4, <2>1 DEF DrawInterface, ScreenInv, Chained
  <2>4. QED
    BY <1>1, <2>1, <2>2, <2>3 DEF ScreenInv
<1>5. CASE Present
  <2>1. turn.phase = "present" /\ turn' = [phase |-> "events", at |-> 0, end |-> 0]
    BY <1>5 DEF Present
  <2>2. Turned(turn', screen)
    BY <2>1 DEF Turned
  <2>3. Chained'
    BY <1>5, <2>1 DEF Present, ScreenInv, Chained
  <2>4. QED
    BY <1>1, <2>1, <2>2, <2>3 DEF ScreenInv
<1>6. QED
  BY <1>2, <1>3, <1>4, <1>5

LEMMA StartScreen ==
    ASSUME ScreenInv, StartFrame
    PROVE  ScreenInv'
<1>1. WorkspaceOK(screen, {NoDocument})
  BY DEF ScreenInv, Viewed
<1>2. /\ WorkspaceOK(screen', {NoDocument}) /\ screen'.next = screen.next
      /\ LeftOf(screen'.editors, screen.editors)
  BY <1>1, EraseOK DEF StartFrame
<1>3. PICK pick \in [DOMAIN screen'.editors -> DOMAIN screen.editors] :
        \A i \in DOMAIN screen'.editors : screen'.editors[i] = screen.editors[pick[i]]
  BY <1>2 DEF LeftOf
<1> DEFINE ids == {screen'.editors[i].id : i \in DOMAIN screen'.editors}
<1>4. views' = [id \in DOMAIN views \cap ids |-> views[id]]
  BY DEF StartFrame
<1>5. \A i \in DOMAIN screen'.editors : screen'.editors[i].id \in ids
  OBVIOUS
<1> HIDE DEF ids
<1>6. Viewed(screen', views')
  <2>1. \A i \in DOMAIN screen'.editors :
          HasView(screen'.editors[i]) => screen'.editors[i].id \in DOMAIN views'
    BY <1>3, <1>4, <1>5 DEF ScreenInv, Viewed, HasView
  <2>2. \A id \in DOMAIN views' : id \in Nat /\ id < screen'.next /\ ViewOK(views'[id])
    BY <1>2, <1>4 DEF ScreenInv, Viewed
  <2>3. QED
    BY <1>2, <1>4, <2>1, <2>2 DEF Viewed
<1>7. turn' = [phase |-> "render", at |-> 1, end |-> Len(screen'.editors)]
  BY DEF StartFrame
<1>8. Len(screen'.editors) \in Nat
  BY <1>2, WorkspaceFacts
<1>9. Turned(turn', screen')
  BY <1>7, <1>8 DEF Turned
<1>10. Chained'
  BY <1>7 DEF StartFrame, ScreenInv, Chained
<1>11. ScreensShown(screen', views', images', turn'.at - 1)
  BY DEF StartFrame, ScreensShown
<1>12. QED
  BY <1>6, <1>7, <1>9, <1>10, <1>11 DEF ScreenInv

\* At an editor that the frame comes to.
LEMMA AtRendered ==
    ASSUME ScreenInv, turn.phase \in {"render", "show", "act"}, turn.at <= turn.end
    PROVE  /\ turn.at \in DOMAIN screen.editors /\ turn.at \in Nat
           /\ Rendered.id \in Nat /\ Rendered.type \in EditorTypes
           /\ HasView(Rendered) => Rendered.id \in DOMAIN views
<1>1. WorkspaceOK(screen, {NoDocument})
  BY DEF ScreenInv, Viewed
<1>2. Len(screen.editors) \in Nat /\ DOMAIN screen.editors = 1 .. Len(screen.editors)
  BY <1>1, WorkspaceFacts
<1>3. turn.at \in DOMAIN screen.editors
  BY <1>2 DEF ScreenInv, Turned
<1>4. Rendered \in Editors({NoDocument})
  BY <1>1, <1>3, WorkspaceFacts DEF Rendered
<1>5. HasView(Rendered) => Rendered.id \in DOMAIN views
  BY <1>3 DEF ScreenInv, Viewed, Rendered
<1>6. QED
  BY <1>3, <1>4, <1>5 DEF Editors, ScreenInv, Turned

\* Rendering gives the view a texture and a picture in it; what it releases is in
\* no image.
LEMMA RenderedView ==
    ASSUME ScreenInv, turn.phase = "render", turn.at <= turn.end,
           HasView(Rendered), views[Rendered.id].dimensions # 0,
           NEW ready, RenderView(ready)
    PROVE  /\ images' = images
           /\ DOMAIN views' = DOMAIN views /\ views' = [id \in DOMAIN views' |-> views'[id]]
           /\ \A id \in DOMAIN views : ViewOK(views'[id])
           /\ \A id \in DOMAIN views : views[id].buffer # NoTexture2D => views'[id].buffer # NoTexture2D
<1> DEFINE id == Rendered.id
           view == views[id]
           drawn(sized) == [sized EXCEPT !.picture =
               [buffer |-> sized.buffer,
                draws |-> Pass(sized.buffer, ready, IF view.hasGrid THEN DebugGrid(lines, id) ELSE lines).draws,
                ready |-> ready, grid |-> view.hasGrid]]
<1>1. id \in DOMAIN views /\ id \in Nat /\ turn.at \in DOMAIN screen.editors /\ turn.at \in Nat
  BY AtRendered
<1>2. PICK sized : /\ sized = IF view.buffer.size # view.dimensions
                              THEN Resize(view, view.dimensions) ELSE view
                   /\ views' = [views EXCEPT ![id] = drawn(sized)]
  BY DEF RenderView
<1>3. view = [dimensions |-> view.dimensions, buffer |-> view.buffer,
              hasGrid |-> view.hasGrid, picture |-> view.picture]
  BY <1>1 DEF ScreenInv, Viewed, ViewOK
<1>4. /\ sized = [dimensions |-> sized.dimensions, buffer |-> sized.buffer,
                  hasGrid |-> sized.hasGrid, picture |-> sized.picture]
      /\ sized.buffer # NoTexture2D
  <2>1. CASE view.buffer.size # view.dimensions
    <3>1. sized = [view EXCEPT !.buffer = [texture |-> id, size |-> view.dimensions],
                               !.picture = NoPicture]
      BY <1>2, <2>1 DEF Resize, CreateTexture2D
    <3> HIDE DEF view
    <3>2. /\ sized.buffer = [texture |-> id, size |-> view.dimensions]
          /\ sized = [dimensions |-> sized.dimensions, buffer |-> sized.buffer,
                      hasGrid |-> sized.hasGrid, picture |-> sized.picture]
      BY <1>3, <3>1
    <3>3. QED
      BY <1>1, <3>2, RenderingAssumption DEF NoTexture2D
  <2>2. CASE view.buffer.size = view.dimensions
    BY <1>2, <1>3, <2>2 DEF NoTexture2D
  <2>3. QED
    BY <2>1, <2>2
<1>5. drawn(sized).buffer = sized.buffer /\ ViewOK(drawn(sized))
  BY <1>4 DEF ViewOK
<1>6. images' = images
  <2>1. \A image \in images : image.editor # id
    BY <1>1 DEF ScreenInv, ScreensShown, Viewed, WorkspaceOK, Rendered
  <2>2. images' = images \/ images' = {IF i.editor = id THEN [i EXCEPT !.gone = TRUE] ELSE i : i \in images}
    BY DEF RenderView, Release
  <2>3. QED
    BY <2>1, <2>2
<1> HIDE DEF drawn
<1>7. /\ DOMAIN views' = DOMAIN views /\ views' = [k \in DOMAIN views' |-> views'[k]]
      /\ views'[id] = drawn(sized)
      /\ \A other \in DOMAIN views : other # id => views'[other] = views[other]
  BY <1>1, <1>2
<1>8. QED
  BY <1>4, <1>5, <1>6, <1>7 DEF ScreenInv, Viewed

LEMMA RenderScreen ==
    ASSUME ScreenInv, RenderEditor
    PROVE  ScreenInv'
<1>1. /\ turn.phase = "render" /\ turn.at <= turn.end
      /\ screen' = screen /\ window' = window /\ noticed' = noticed /\ chain' = chain
      /\ display' = display
  BY DEF RenderEditor, AtView
<1>2. /\ images' = images
      /\ Viewed(screen, views') /\ DOMAIN views' = DOMAIN views
      /\ \A id \in DOMAIN views : views[id].buffer # NoTexture2D => views'[id].buffer # NoTexture2D
  <2>1. CASE views' = views /\ images' = images
    BY <2>1 DEF ScreenInv
  <2>2. CASE /\ HasView(Rendered) /\ views[Rendered.id].dimensions # 0
             /\ \E ready \in SUBSET Meshes : RenderView(ready)
    BY <1>1, <2>2, RenderedView DEF ScreenInv, Viewed
  <2>3. QED
    BY <2>1, <2>2 DEF RenderEditor
<1>3. turn.at \in Nat /\ turn.at # 0 /\ turn.end \in Nat /\ turn.end <= Len(screen.editors)
  BY <1>1 DEF ScreenInv, Turned
<1>4. \/ turn' = [phase |-> "render", at |-> turn.at + 1, end |-> turn.end]
      \/ turn' = [phase |-> "show", at |-> turn.at, end |-> turn.end]
  <2>1. turn = [phase |-> turn.phase, at |-> turn.at, end |-> turn.end]
    BY DEF ScreenInv, Turned
  <2>2. turn' = [turn EXCEPT !.at = @ + 1] \/ turn' = [turn EXCEPT !.phase = "show"]
    BY DEF RenderEditor
  <2>3. QED
    BY <1>1, <2>1, <2>2
<1>5. Turned(turn', screen) /\ turn'.phase \in {"render", "show"} /\ turn'.at >= turn.at
  BY <1>1, <1>3, <1>4 DEF Turned
<1>6. ScreensShown(screen, views', images', turn'.at - 1)
  <2>1. \A i \in DOMAIN screen.editors : i \in Nat
    BY WorkspaceFacts DEF ScreenInv, Viewed
  <2>2. turn'.at \in Nat
    BY <1>3, <1>4
  <2>3. \A i \in DOMAIN screen.editors : i <= turn.at - 1 => i <= turn'.at - 1
    BY <1>3, <1>5, <2>1, <2>2
  <2>4. ScreensShown(screen, views, images, turn.at - 1)
    BY <1>1 DEF ScreenInv
  <2>5. QED
    BY <1>2, <2>3, <2>4 DEF ScreensShown
<1>7. Chained'
  BY <1>1, <1>5 DEF ScreenInv, Chained
<1>8. QED
  BY <1>1, <1>2, <1>5, <1>6, <1>7 DEF ScreenInv

LEMMA ShowScreen ==
    ASSUME ScreenInv, ShowEditor
    PROVE  ScreenInv'
<1> DEFINE id == Rendered.id
<1>1. /\ turn.phase = "show" /\ turn.at <= turn.end
      /\ screen' = screen /\ window' = window /\ noticed' = noticed /\ chain' = chain
      /\ display' = display
  BY DEF ShowEditor, ScreenInv, Turned
<1>2. /\ turn.at \in DOMAIN screen.editors /\ turn.at \in Nat
      /\ HasView(Rendered) => id \in DOMAIN views
  BY <1>1, AtRendered
<1>3. turn' = [phase |-> "act", at |-> turn.at, end |-> turn.end]
  BY DEF ShowEditor, ScreenInv, Turned
<1>4. Turned(turn', screen)
  BY <1>1, <1>3 DEF ScreenInv, Turned
<1>5. Chained'
  BY <1>1, <1>3 DEF ScreenInv, Chained
<1>6. ScreensShown(screen, views, images, turn.at)
  <2>1. \A i \in DOMAIN screen.editors : i \in Nat /\ (i <= turn.at - 1 => i <= turn.at)
    BY <1>2, WorkspaceFacts DEF ScreenInv, Viewed
  <2>2. QED
    BY <1>1, <2>1 DEF ScreenInv, ScreensShown
<1>7. Viewed(screen, views') /\ ScreensShown(screen, views', images', turn.at)
  <2>1. CASE HideContent
    BY <1>6, <2>1 DEF HideContent, ScreenInv
  <2>2. CASE ShowContent
    <3>1. PICK size \in ContentSizes :
            /\ views' = [views EXCEPT ![id].dimensions = size]
            /\ images' = images \cup
                 (IF views[id].buffer = NoTexture2D THEN {} ELSE {[editor |-> id, gone |-> FALSE]})
      BY <2>2 DEF ShowContent
    <3>2. id \in DOMAIN views
      BY <1>2, <2>2 DEF ShowContent
    <3>3. views[id] = [dimensions |-> views[id].dimensions, buffer |-> views[id].buffer,
                       hasGrid |-> views[id].hasGrid, picture |-> views[id].picture]
      BY <3>2 DEF ScreenInv, Viewed, ViewOK
    <3>4. /\ DOMAIN views' = DOMAIN views /\ views' = [k \in DOMAIN views' |-> views'[k]]
          /\ views'[id] = [views[id] EXCEPT !.dimensions = size]
          /\ \A k \in DOMAIN views : k # id => views'[k] = views[k]
      BY <3>1, <3>2
    <3>5. ViewOK(views'[id]) /\ views'[id].buffer = views[id].buffer
      BY <3>2, <3>3, <3>4 DEF ScreenInv, Viewed, ViewOK
    <3>6. Viewed(screen, views')
      BY <3>4, <3>5 DEF ScreenInv, Viewed
    <3>7. \A image \in images' : image \in images \/
            (image = [editor |-> id, gone |-> FALSE] /\ views[id].buffer # NoTexture2D)
      BY <3>1
    <3>8. screen.editors[turn.at].id = id /\ turn.at <= turn.at
      BY <1>2 DEF Rendered
    <3>9. ScreensShown(screen, views', images', turn.at)
      <4> SUFFICES ASSUME NEW image \in images'
                   PROVE  /\ image.gone = FALSE
                          /\ image.editor \in DOMAIN views'
                          /\ views'[image.editor].buffer # NoTexture2D
                          /\ \E i \in DOMAIN screen.editors :
                               i <= turn.at /\ screen.editors[i].id = image.editor
        BY DEF ScreensShown
      <4> HIDE DEF id
      <4>1. CASE image \in images
        BY <1>6, <3>4, <3>5, <4>1 DEF ScreensShown
      <4>2. CASE image = [editor |-> id, gone |-> FALSE] /\ views[id].buffer # NoTexture2D
        BY <1>2, <3>2, <3>4, <3>5, <3>8, <4>2
      <4>3. QED
        BY <3>7, <4>1, <4>2
    <3>10. QED
      BY <3>6, <3>9
  <2>3. QED
    BY <2>1, <2>2 DEF ShowEditor
<1>8. QED
  BY <1>1, <1>3, <1>4, <1>5, <1>7 DEF ScreenInv

\* The user's step leaves the editors that were there where they were, and the
\* views with the textures they had.
LEMMA ActedScreen ==
    ASSUME ScreenInv, EndEditor,
           Viewed(screen', views'),
           Len(screen.editors) <= Len(screen'.editors),
           \A i \in DOMAIN screen.editors : screen'.editors[i].id = screen.editors[i].id,
           DOMAIN views \subseteq DOMAIN views',
           \A id \in DOMAIN views : views'[id].buffer = views[id].buffer
    PROVE  ScreenInv'
<1>1. /\ turn.phase = "act" /\ images' = images
      /\ window' = window /\ noticed' = noticed /\ chain' = chain /\ display' = display
  BY DEF EndEditor
<1>2. turn' = [phase |-> "render", at |-> turn.at + 1, end |-> turn.end]
  <2>1. turn' = [turn EXCEPT !.phase = "render", !.at = turn.at + 1]
    BY DEF EndEditor
  <2>2. QED
    BY <2>1 DEF ScreenInv, Turned
<1>3. /\ Len(screen.editors) \in Nat /\ DOMAIN screen.editors = 1 .. Len(screen.editors)
      /\ Len(screen'.editors) \in Nat /\ DOMAIN screen'.editors = 1 .. Len(screen'.editors)
  BY WorkspaceFacts DEF ScreenInv, Viewed
<1>4. turn.at \in Nat /\ turn.end \in Nat /\ turn.end <= Len(screen.editors)
  BY <1>1 DEF ScreenInv, Turned
<1>5. turn.end <= Len(screen'.editors)
  BY <1>3, <1>4
<1>6. Turned(turn', screen')
  BY <1>2, <1>4, <1>5 DEF Turned
<1>7. Chained'
  BY <1>1, <1>2 DEF ScreenInv, Chained
<1>8. DOMAIN screen.editors \subseteq DOMAIN screen'.editors /\ turn'.at - 1 = turn.at
  BY <1>2, <1>3, <1>4
<1>9. ScreensShown(screen, views, images, turn.at)
  BY <1>1 DEF ScreenInv
<1>10. ScreensShown(screen', views', images', turn'.at - 1)
  BY <1>1, <1>8, <1>9 DEF ScreensShown
<1>11. QED
  BY <1>2, <1>6, <1>7, <1>10 DEF ScreenInv

LEMMA SameViewed ==
    ASSUME NEW ws, NEW of, Viewed(ws, of),
           NEW new, WorkspaceOK(new, {NoDocument}), Same(ws, new)
    PROVE  Viewed(new, of)
BY DEF Viewed, Same, HasView

LEMMA EndScreen ==
    ASSUME ScreenInv, EndEditor
    PROVE  ScreenInv'
<1>1. turn.phase = "act" /\ turn.at <= turn.end
  BY DEF EndEditor, ScreenInv, Turned
<1>2. /\ turn.at \in DOMAIN screen.editors /\ turn.at \in Nat
      /\ HasView(Rendered) => Rendered.id \in DOMAIN views
  BY <1>1, AtRendered
<1>3. WorkspaceOK(screen, {NoDocument}) /\ Viewed(screen, views)
  BY DEF ScreenInv, Viewed
<1>4. Len(screen.editors) \in Nat
  BY <1>3, WorkspaceFacts
<1>5. CASE ToggleGrid
  <2>1. WorkspaceOK(screen', {NoDocument}) /\ Same(screen, screen')
    BY <1>2, <1>3, <1>5, EndUpdateOK DEF ToggleGrid
  <2>2. Viewed(screen', views)
    BY <1>3, <2>1, SameViewed
  <2>3. Rendered.id \in DOMAIN views
    BY <1>2, <1>5 DEF ToggleGrid, HasView
  <2>4. PICK grid : views' = [views EXCEPT ![Rendered.id] =
                                [views[Rendered.id] EXCEPT !.hasGrid = grid]]
    BY <1>5 DEF ToggleGrid
  <2>5. /\ DOMAIN views' = DOMAIN views /\ views' = [k \in DOMAIN views' |-> views'[k]]
        /\ views'[Rendered.id] = [views[Rendered.id] EXCEPT !.hasGrid = grid]
        /\ \A k \in DOMAIN views : k # Rendered.id => views'[k] = views[k]
    BY <2>3, <2>4
  <2>6. views[Rendered.id] =
          [dimensions |-> views[Rendered.id].dimensions, buffer |-> views[Rendered.id].buffer,
           hasGrid |-> views[Rendered.id].hasGrid, picture |-> views[Rendered.id].picture]
    BY <1>3, <2>3 DEF Viewed, ViewOK
  <2>7. ViewOK(views'[Rendered.id]) /\ views'[Rendered.id].buffer = views[Rendered.id].buffer
    BY <1>3, <2>3, <2>5, <2>6 DEF Viewed, ViewOK
  <2>8. Viewed(screen', views')
    BY <2>2, <2>5, <2>7 DEF Viewed
  <2>9. \A id \in DOMAIN views : views'[id].buffer = views[id].buffer
    BY <2>5, <2>7
  <2>10. /\ Len(screen.editors) <= Len(screen'.editors)
         /\ \A i \in DOMAIN screen.editors : screen'.editors[i].id = screen.editors[i].id
    BY <1>4, <2>1 DEF Same
  <2>11. QED
    BY <2>5, <2>8, <2>9, <2>10, ActedScreen
<1>6. ASSUME NEW type \in {"scene", "game"}, OpenView(type) PROVE ScreenInv'
  <2> DEFINE new == CreateEditor(screen, type, NoDocument)
             end == Len(screen.editors) + 1
  <2>0. type \in EditorTypes /\ NoDocument \in {NoDocument}
    BY DEF EditorTypes
  <2>1. /\ WorkspaceOK(new, {NoDocument}) /\ Len(new.editors) = end
        /\ new.next = screen.next + 1
        /\ new.editors[end] = Editor(screen.next, type, NoDocument)
        /\ \A i \in DOMAIN screen.editors : new.editors[i] = screen.editors[i]
        /\ DOMAIN new.editors = DOMAIN screen.editors \cup {end}
    BY <1>3, <2>0, CreateOK
  <2>2. screen' = EndUpdate(new, turn.at, FALSE) /\ turn.at \in DOMAIN new.editors
    BY <1>2, <1>6, <2>1 DEF OpenView
  <2>3. views' = [id \in DOMAIN views \cup {screen.next} |->
                    IF id = screen.next THEN NewView(type) ELSE views[id]]
    BY <1>6 DEF OpenView
  <2>4. new.editors[end].id = screen.next
    BY <2>1 DEF Editor
  <2> HIDE DEF new, end
  <2>5. WorkspaceOK(screen', {NoDocument}) /\ Same(new, screen')
    BY <2>1, <2>2, EndUpdateOK
  <2>6. /\ screen.next \in Nat /\ screen.next \notin DOMAIN views
        /\ \A id \in DOMAIN views : views'[id] = views[id]
    <3>1. screen.next \in Nat
      BY <1>3, WorkspaceFacts
    <3>2. screen.next \notin DOMAIN views
      BY <1>3, <3>1 DEF Viewed
    <3>3. QED
      BY <2>3, <3>1, <3>2
  <2>7. ViewOK(NewView(type))
    BY DEF ViewOK, NewView, NoPicture
  <2>8. Viewed(new, views')
    <3>1. \A id \in DOMAIN views' : id \in Nat /\ id < new.next /\ ViewOK(views'[id])
      BY <1>3, <2>1, <2>3, <2>6, <2>7 DEF Viewed
    <3>2. \A i \in DOMAIN new.editors : HasView(new.editors[i]) => new.editors[i].id \in DOMAIN views'
      BY <1>3, <2>1, <2>3, <2>4 DEF Viewed
    <3>3. QED
      BY <2>1, <2>3, <3>1, <3>2 DEF Viewed
  <2>9. Viewed(screen', views')
    BY <2>5, <2>8, SameViewed
  <2>10. Len(screen.editors) <= Len(screen'.editors)
    BY <1>4, <2>1, <2>5 DEF Same, end
  <2>11. \A i \in DOMAIN screen.editors : screen'.editors[i].id = screen.editors[i].id
    BY <2>1, <2>5 DEF Same
  <2>12. QED
    BY <2>3, <2>6, <2>9, <2>10, <2>11, ActedScreen
<1>7. CASE CloseView \/ LeaveView
  <2>1. PICK left : /\ WorkspaceOK(left, {NoDocument}) /\ Same(screen, left)
                    /\ screen' = EndUpdate(left, turn.at, FALSE) /\ views' = views
    BY <1>3, <1>7, CloseOK, WorkspaceFacts DEF CloseView, LeaveView
  <2>2. turn.at \in DOMAIN left.editors
    BY <1>2, <2>1 DEF Same
  <2>3. WorkspaceOK(screen', {NoDocument}) /\ Same(left, screen')
    BY <2>1, <2>2, EndUpdateOK
  <2>4. Viewed(screen', views')
    BY <1>3, <2>1, <2>3, SameViewed
  <2>5. /\ Len(screen.editors) <= Len(screen'.editors)
        /\ \A i \in DOMAIN screen.editors : screen'.editors[i].id = screen.editors[i].id
    <3>1. Len(screen'.editors) = Len(screen.editors)
      BY <2>1, <2>3 DEF Same
    <3>2. DOMAIN left.editors = DOMAIN screen.editors
      BY <2>1 DEF Same
    <3>3. \A i \in DOMAIN screen.editors : left.editors[i].id = screen.editors[i].id
      BY <2>1 DEF Same
    <3>4. \A i \in DOMAIN left.editors : screen'.editors[i].id = left.editors[i].id
      BY <2>3 DEF Same
    <3>5. QED
      BY <1>4, <3>1, <3>2, <3>3, <3>4
  <2>6. DOMAIN views \subseteq DOMAIN views' /\ \A id \in DOMAIN views : views'[id].buffer = views[id].buffer
    BY <2>1
  <2>7. QED
    BY <2>4, <2>5, <2>6, ActedScreen
<1>8. QED
  BY <1>5, <1>6, <1>7 DEF EndEditor

LEMMA ScreenSteps == ScreenInv /\ [RenderNext]_renderVars => ScreenInv'
<1> SUFFICES ASSUME ScreenInv, [RenderNext]_renderVars PROVE ScreenInv'
  OBVIOUS
<1>1. CASE UNCHANGED renderVars
  BY <1>1 DEF renderVars, ScreenInv, Chained
<1>2. CASE RenderNext
  BY <1>2, EventsScreen, StartScreen, RenderScreen, ShowScreen, EndScreen DEF RenderNext
<1>3. QED
  BY <1>1, <1>2

\* What is presented fits the window, and every image is of the texture its view
\* has, with its picture in it: for any sizes, meshes and number of views.
THEOREM ScreenStaysRight == RenderSpec => []ScreenRight
<1>1. RenderInit => ScreenInv
  BY ScreenInit
<1>2. ScreenInv => ScreenRight
  BY DEF ScreenInv, Chained, ScreensShown, Viewed, ViewOK, ScreenRight
<1>3. QED
  BY <1>1, <1>2, ScreenSteps, PTL DEF RenderSpec

-----------------------------------------------------------------------------
(***************************************************************************)
(* The views' pictures.  A pass is followed call by call: what the list of *)
(* its commands holds after each, then after each mesh and each chunk of   *)
(* the debug vertices.  The inductive invariant adds to that of the images *)
(* what makes the vertices those of one grid: no vertex is left over from  *)
(* the view before, for time has passed since the one before, and only a   *)
(* scene, which draws its vertices, has a grid.                            *)
(***************************************************************************)

\* A command list.  The provers take truth values in a record by their names only.
List(pipeline, buffers, constants, wanted, dirty, targets, draws) ==
    [pipeline |-> pipeline, buffers |-> buffers, constants |-> constants,
     wanted |-> wanted, dirty |-> dirty, targets |-> targets, draws |-> draws]

Yes == TRUE
No == FALSE

DrawOf(target, vertices, pipe, constants) ==
    [target |-> target, vertices |-> vertices, pipeline |-> pipe, buffers |-> pipe,
     constants |-> constants]

LEMMA ListFields ==
    ASSUME NEW pipeline, NEW buffers, NEW constants, NEW wanted, NEW dirty, NEW targets, NEW draws
    PROVE  /\ List(pipeline, buffers, constants, wanted, dirty, targets, draws).wanted = wanted
           /\ List(pipeline, buffers, constants, wanted, dirty, targets, draws).dirty = dirty
           /\ List(pipeline, buffers, constants, wanted, dirty, targets, draws).targets = targets
<1>1. List(pipeline, buffers, constants, wanted, dirty, targets, draws).wanted = wanted
  BY DEF List
<1>2. List(pipeline, buffers, constants, wanted, dirty, targets, draws).dirty = dirty
  BY DEF List
<1>3. List(pipeline, buffers, constants, wanted, dirty, targets, draws).targets = targets
  BY DEF List
<1>4. QED
  BY <1>1, <1>2, <1>3

\* Changes of one field, and of several.
BoundNext(cl, target) == [cl EXCEPT !.wanted = target]
Dirtied(cl, dirty) == [cl EXCEPT !.dirty = dirty]
Targeting(cl, target) == [cl EXCEPT !.targets = target]

LEMMA ListChanged ==
    ASSUME NEW pipeline, NEW buffers, NEW constants, NEW wanted, NEW dirty, NEW targets, NEW draws, NEW new
    PROVE  /\ BoundNext(List(pipeline, buffers, constants, wanted, dirty, targets, draws), new)
                = List(pipeline, buffers, constants, new, dirty, targets, draws)
           /\ Dirtied(List(pipeline, buffers, constants, wanted, dirty, targets, draws), new)
                = List(pipeline, buffers, constants, wanted, new, targets, draws)
           /\ Targeting(List(pipeline, buffers, constants, wanted, dirty, targets, draws), new)
                = List(pipeline, buffers, constants, wanted, dirty, new, draws)
<1> DEFINE cl == List(pipeline, buffers, constants, wanted, dirty, targets, draws)
<1>1. BoundNext(cl, new) = List(pipeline, buffers, constants, new, dirty, targets, draws)
  BY DEF List, BoundNext
<1>2. Dirtied(cl, new) = List(pipeline, buffers, constants, wanted, new, targets, draws)
  BY DEF List, Dirtied
<1>3. Targeting(cl, new) = List(pipeline, buffers, constants, wanted, dirty, new, draws)
  BY DEF List, Targeting
<1>4. QED
  BY <1>1, <1>2, <1>3

LEMMA ChangesInTurn ==
    ASSUME NEW cl, NEW target, NEW wanted, NEW dirty
    PROVE  /\ [cl EXCEPT !.wanted = wanted, !.dirty = dirty] = Dirtied(BoundNext(cl, wanted), dirty)
           /\ [cl EXCEPT !.targets = target, !.wanted = wanted, !.dirty = dirty]
                = Dirtied(BoundNext(Targeting(cl, target), wanted), dirty)
BY DEF Dirtied, BoundNext, Targeting

LEMMA SetPipelineList ==
    ASSUME NEW pipeline, NEW buffers, NEW constants, NEW wanted, NEW dirty, NEW targets, NEW draws,
           NEW state
    PROVE  SetPipelineState(List(pipeline, buffers, constants, wanted, dirty, targets, draws), state)
             = List(state, buffers, constants, wanted, dirty, targets, draws)
BY DEF SetPipelineState, List

LEMMA BindBuffersList ==
    ASSUME NEW pipeline, NEW buffers, NEW constants, NEW wanted, NEW dirty, NEW targets, NEW draws,
           NEW new
    PROVE  BindBuffers(List(pipeline, buffers, constants, wanted, dirty, targets, draws), new)
             = List(pipeline, new, constants, wanted, dirty, targets, draws)
BY DEF BindBuffers, List

LEMMA BindConstantsList ==
    ASSUME NEW pipeline, NEW buffers, NEW constants, NEW wanted, NEW dirty, NEW targets, NEW draws,
           NEW new
    PROVE  BindConstants(List(pipeline, buffers, constants, wanted, dirty, targets, draws), new)
             = List(pipeline, buffers, constants \cup {new}, wanted, dirty, targets, draws)
BY DEF BindConstants, List

LEMMA BindTargetsList ==
    ASSUME NEW pipeline, NEW buffers, NEW constants, NEW wanted, NEW dirty, NEW targets, NEW draws,
           NEW target
    PROVE  BindRenderTargets(List(pipeline, buffers, constants, wanted, dirty, targets, draws), target)
             = List(pipeline, buffers, constants, target, Yes, targets, draws)
<1> DEFINE cl == List(pipeline, buffers, constants, wanted, dirty, targets, draws)
<1>1. BindRenderTargets(cl, target) = Dirtied(BoundNext(cl, target), Yes)
  <2> HIDE DEF cl
  <2>1. QED
    BY DEF BindRenderTargets, Yes, Dirtied, BoundNext
<1>2. QED
  BY <1>1, ListChanged

LEMMA FlushList ==
    ASSUME NEW pipeline, NEW buffers, NEW constants, NEW wanted, NEW dirty, NEW targets, NEW draws
    PROVE  /\ FlushBindings(List(pipeline, buffers, constants, wanted, Yes, targets, draws))
                = List(pipeline, buffers, constants, NoTarget, No, wanted, draws)
           /\ FlushBindings(List(pipeline, buffers, constants, wanted, No, targets, draws))
                = List(pipeline, buffers, constants, wanted, No, targets, draws)
<1> DEFINE cl(waits) == List(pipeline, buffers, constants, wanted, waits, targets, draws)
<1>1. FlushBindings(cl(Yes)) = Dirtied(BoundNext(Targeting(cl(Yes), cl(Yes).wanted), NoTarget), No)
  <2>1. cl(Yes).dirty = Yes
    BY ListFields
  <2> HIDE DEF cl
  <2>2. cl(Yes).dirty
    BY <2>1 DEF Yes
  <2>3. QED
    BY <2>2 DEF FlushBindings, No, Dirtied, BoundNext, Targeting
<1>2. FlushBindings(cl(Yes)) = List(pipeline, buffers, constants, NoTarget, No, wanted, draws)
  BY <1>1, ListFields, ListChanged
<1>3. FlushBindings(cl(No)) = cl(No)
  <2>1. cl(No).dirty = No
    BY ListFields
  <2> HIDE DEF cl
  <2>2. ~cl(No).dirty
    BY <2>1 DEF No
  <2>3. QED
    BY <2>2 DEF FlushBindings
<1>4. QED
  BY <1>2, <1>3

LEMMA RecordedList ==
    ASSUME NEW pipe, NEW constants, NEW wanted, NEW dirty, NEW targets, NEW draws,
           NEW target, NEW vertices
    PROVE  Recorded(List(pipe, pipe, constants, wanted, dirty, targets, draws), target, vertices)
             = List(pipe, pipe, constants, wanted, dirty, targets,
                    Append(draws, DrawOf(target, vertices, pipe, constants)))
<1> DEFINE cl == List(pipe, pipe, constants, wanted, dirty, targets, draws)
           new == [target |-> target, vertices |-> vertices, pipeline |-> cl.pipeline,
                   buffers |-> cl.buffers, constants |-> cl.constants]
<1>1. new = DrawOf(target, vertices, pipe, constants)
  BY DEF List, DrawOf
<1>2. Recorded(cl, target, vertices) = [cl EXCEPT !.draws = Append(@, new)]
  BY DEF Recorded
<1> HIDE DEF new
<1>3. [cl EXCEPT !.draws = Append(@, new)]
        = List(pipe, pipe, constants, wanted, dirty, targets, Append(draws, new))
  BY DEF List
<1>4. QED
  BY <1>1, <1>2, <1>3

\* The lists of a pass: what has been drawn went to its target, which waits to be
\* bound until then.
Listed(pipe, constants, waits, target, draws) ==
    IF waits = "waits" THEN List(pipe, pipe, constants, target, Yes, NoTarget, draws)
    ELSE List(pipe, pipe, constants, NoTarget, No, target, draws)

LEMMA DrawListed ==
    ASSUME NEW pipe, NEW constants, NEW waits, NEW target, NEW draws, NEW vertices
    PROVE  Draw(Listed(pipe, constants, waits, target, draws), vertices)
             = Listed(pipe, constants, "bound", target,
                      Append(draws, DrawOf(target, vertices, pipe, constants)))
<1> DEFINE cl == Listed(pipe, constants, waits, target, draws)
           bound == List(pipe, pipe, constants, NoTarget, No, target, draws)
<1>1. FlushBindings(cl) = bound
  BY FlushList DEF Listed
<1>2. Draw(cl, vertices) = Recorded(FlushBindings(cl), FlushBindings(cl).targets, vertices)
  BY DEF Draw
<1>3. bound.targets = target
  BY ListFields
<1>4. Recorded(bound, target, vertices)
        = Listed(pipe, constants, "bound", target, Append(draws, DrawOf(target, vertices, pipe, constants)))
  BY RecordedList DEF Listed
<1>5. QED
  BY <1>1, <1>2, <1>3, <1>4

LEMMA PipelineListed ==
    ASSUME NEW pipe, NEW constants, NEW waits, NEW target, NEW draws, NEW new
    PROVE  BindBuffers(SetPipelineState(Listed(pipe, constants, waits, target, draws), new), new)
             = Listed(new, constants, waits, target, draws)
BY SetPipelineList, BindBuffersList DEF Listed

LEMMA DrawMeshListed ==
    ASSUME NEW pipe, NEW constants, NEW waits, NEW target, NEW draws, NEW mesh
    PROVE  DrawMesh(Listed(pipe, constants, waits, target, draws), mesh)
             = Listed(mesh, constants \cup {"transform"}, "bound", target,
                      Append(draws, DrawOf(target, <<mesh>>, mesh, constants \cup {"transform"})))
<1>1. BindConstants(Listed(mesh, constants, waits, target, draws), "transform")
        = Listed(mesh, constants \cup {"transform"}, waits, target, draws)
  BY BindConstantsList DEF Listed
<1>2. QED
  BY <1>1, PipelineListed, DrawListed DEF DrawMesh

LEMMA CameraListed ==
    ASSUME NEW target
    PROVE  ApplyCamera(ContextList, target)
             = Listed("none", {"frame", "camera"}, "waits", target,
                      <<DrawOf(target, <<>>, "none", {"frame"})>>)
<1> DEFINE cleared == DrawOf(target, <<>>, "none", {"frame"})
<1>1. ContextList = List("none", "none", {"frame"}, NoTarget, No, NoTarget, <<>>)
  <2> DEFINE new == List("none", "none", {}, NoTarget, No, NoTarget, <<>>)
  <2>1. NewCommandList = new
    BY DEF NewCommandList, List, No
  <2>2. new.wanted = NoTarget /\ new.dirty = No
    BY ListFields
  <2>3. Dirtied(BoundNext(new, NoTarget), No) = new
    BY ListChanged
  <2> HIDE DEF new
  <2>4. BeginList(NewCommandList) = new
    <3>1. BeginList(NewCommandList)
            = Dirtied(BoundNext(NewCommandList, NewCommandList.wanted), NewCommandList.dirty)
      BY DEF BeginList, Dirtied, BoundNext
    <3>2. QED
      BY <2>1, <2>2, <2>3, <3>1
  <2>5. {} \cup {"frame"} = {"frame"}
    OBVIOUS
  <2>6. QED
    BY <2>4, <2>5, BindConstantsList DEF ContextList, new
<1>2. Append(<<>>, cleared) = <<cleared>>
  OBVIOUS
<1>3. ClearTargets(ContextList, target)
        = List("none", "none", {"frame"}, NoTarget, No, NoTarget, Append(<<>>, cleared))
  <2>1. ClearTargets(ContextList, target) = Recorded(ContextList, target, <<>>)
    BY DEF ClearTargets
  <2> DEFINE nothing == <<>>
  <2> HIDE DEF nothing
  <2>2. Recorded(List("none", "none", {"frame"}, NoTarget, No, NoTarget, nothing), target, nothing)
          = List("none", "none", {"frame"}, NoTarget, No, NoTarget,
                 Append(nothing, DrawOf(target, nothing, "none", {"frame"})))
    BY RecordedList
  <2>3. QED
    BY <1>1, <2>1, <2>2 DEF nothing
<1>4. {"frame"} \cup {"camera"} = {"frame", "camera"}
  OBVIOUS
<1> HIDE DEF cleared
<1>5. BindRenderTargets(ClearTargets(ContextList, target), target)
        = List("none", "none", {"frame"}, target, Yes, NoTarget, <<cleared>>)
  BY <1>2, <1>3, BindTargetsList
<1>6. ApplyCamera(ContextList, target)
        = List("none", "none", {"frame", "camera"}, target, Yes, NoTarget, <<cleared>>)
  BY <1>4, <1>5, BindConstantsList DEF ApplyCamera
<1>7. QED
  BY <1>6 DEF Listed, cleared

\* A row that gets one longer.
LEMMA RowGrown ==
    ASSUME NEW n \in Nat, NEW value
    PROVE  Append([k \in 1 .. n |-> value[k]], value[n + 1]) = [k \in 1 .. (n + 1) |-> value[k]]
OBVIOUS

\* A recursive function that goes from value to value as another one does.
LEMMA SameValues ==
    ASSUME NEW N \in Nat, NEW f, NEW g, f[0] = g[0],
           \A n \in 1 .. N : f[n - 1] = g[n - 1] => f[n] = g[n]
    PROVE  f[N] = g[N]
<1> DEFINE bad == {n \in 0 .. N : f[n] # g[n]}
<1> SUFFICES ASSUME bad # {} PROVE FALSE
  OBVIOUS
<1>1. PICK n \in bad : \A m \in bad : n <= m
  <2>1. bad \subseteq Nat
    OBVIOUS
  <2> HIDE DEF bad
  <2>2. QED
    BY <2>1, LeastNumber
<1>2. n \in 1 .. N /\ n - 1 \in 0 .. N /\ ~(n <= n - 1)
  BY <1>1
<1>3. f[n - 1] = g[n - 1]
  BY <1>1, <1>2
<1>4. QED
  BY <1>1, <1>2, <1>3

AllBound == {"frame", "camera", "transform"}

\* The clearing of the target, then each of the meshes.
SpaceDraw(target, meshes, k) ==
    IF k = 1 THEN DrawOf(target, <<>>, "none", {"frame"})
    ELSE DrawOf(target, <<meshes[k - 1]>>, meshes[k - 1], AllBound)

SpaceListed(target, meshes, n) ==
    IF n = 0 THEN Listed("none", {"frame", "camera"}, "waits", target, [k \in 1 .. 1 |-> SpaceDraw(target, meshes, k)])
    ELSE Listed(meshes[n], AllBound, "bound", target, [k \in 1 .. (n + 1) |-> SpaceDraw(target, meshes, k)])

LEMMA MeshListed ==
    ASSUME NEW target, NEW meshes, NEW n \in Nat \ {0}
    PROVE  DrawMesh(SpaceListed(target, meshes, n - 1), meshes[n]) = SpaceListed(target, meshes, n)
<1> DEFINE draws == [k \in 1 .. (n + 1) |-> SpaceDraw(target, meshes, k)]
           before == [k \in 1 .. n |-> SpaceDraw(target, meshes, k)]
           mesh == DrawOf(target, <<meshes[n]>>, meshes[n], AllBound)
<1>1. Append(before, mesh) = draws
  <2>1. before = [k \in 1 .. n |-> draws[k]]
    OBVIOUS
  <2>2. draws = [k \in 1 .. (n + 1) |-> draws[k]]
    OBVIOUS
  <2>3. draws[n + 1] = mesh
    BY DEF SpaceDraw
  <2> HIDE DEF before, draws, mesh
  <2>4. QED
    BY <2>1, <2>2, <2>3, RowGrown
<1>2. PICK pipe, constants, waits :
        /\ SpaceListed(target, meshes, n - 1) = Listed(pipe, constants, waits, target, before)
        /\ constants \cup {"transform"} = AllBound
  <2>1. CASE n = 1
    <3>1. {"frame", "camera"} \cup {"transform"} = AllBound
      BY DEF AllBound
    <3>2. SpaceListed(target, meshes, n - 1) = Listed("none", {"frame", "camera"}, "waits", target, before)
      BY <2>1 DEF SpaceListed
    <3>3. QED
      BY <3>1, <3>2
  <2>2. CASE n # 1
    <3>1. AllBound \cup {"transform"} = AllBound
      BY DEF AllBound
    <3>2. n - 1 # 0 /\ (n - 1) + 1 = n
      BY <2>2
    <3>3. SpaceListed(target, meshes, n - 1) = Listed(meshes[n - 1], AllBound, "bound", target, before)
      BY <3>2 DEF SpaceListed
    <3>4. QED
      BY <3>1, <3>3
  <2>3. QED
    BY <2>1, <2>2
<1>3. SpaceListed(target, meshes, n) = Listed(meshes[n], AllBound, "bound", target, draws)
  BY DEF SpaceListed
<1> HIDE DEF before, draws, mesh
<1>4. DrawMesh(Listed(pipe, constants, waits, target, before), meshes[n])
        = Listed(meshes[n], AllBound, "bound", target, Append(before, mesh))
  BY <1>2, DrawMeshListed DEF mesh
<1>5. QED
  BY <1>1, <1>2, <1>3, <1>4

LEMMA SpaceDrawn ==
    ASSUME NEW target, NEW ready \in SUBSET Meshes
    PROVE  \E meshes \in Surjection(1 .. Cardinality(ready), ready) :
             RenderSpace(ContextList, target, ready) = SpaceListed(target, meshes, Cardinality(ready))
<1> DEFINE meshes == SetToSeq(ready)
           N == Cardinality(ready)
           value(n, of) == IF n = 0 THEN ApplyCamera(ContextList, target) ELSE DrawMesh(of[n - 1], meshes[n])
           drawn == CHOOSE f : f = [n \in 0 .. N |-> value(n, f)]
           listed == [n \in 0 .. N |-> SpaceListed(target, meshes, n)]
<1>0. IsFiniteSet(ready) /\ N \in Nat
  BY RenderingAssumption, FS_Subset, FS_CardinalityType
<1>1. meshes \in [1 .. N -> ready] /\ IsInjective(meshes)
  <2>1. ExistsBijection(1 .. N, ready)
    BY <1>0, FS_CardinalityType
  <2>2. PICK f : f \in Bijection(1 .. N, ready)
    BY <2>1 DEF ExistsBijection
  <2>3. f \in [1 .. N -> ready] /\ IsInjective(f)
    BY <2>2 DEF Bijection, Injection
  <2>4. \E g \in [1 .. N -> ready] : IsInjective(g)
    BY <2>3
  <2>5. meshes = CHOOSE g \in [1 .. N -> ready] : IsInjective(g)
    BY DEF SetToSeq
  <2> HIDE DEF meshes, N
  <2>6. QED
    BY <2>4, <2>5
<1>2. meshes \in Surjection(1 .. N, ready)
  <2>1. meshes \in Injection(1 .. N, ready)
    BY <1>1 DEF Injection
  <2>2. Cardinality(1 .. N) = Cardinality(ready)
    <3>1. N \in Nat /\ 1 \in Int /\ N = Cardinality(ready)
      BY <1>0
    <3> HIDE DEF N
    <3>2. QED
      BY <3>1, FS_Interval
  <2> HIDE DEF meshes, N
  <2>3. QED
    BY <1>0, <2>1, <2>2, FS_Injection
<1>3. listed[0] = value(0, listed)
  <2> DEFINE cleared == DrawOf(target, <<>>, "none", {"frame"})
  <2>1. <<cleared>> = [k \in 1 .. 1 |-> SpaceDraw(target, meshes, k)]
    <3>1. SpaceDraw(target, meshes, 1) = cleared
      BY DEF SpaceDraw
    <3> HIDE DEF cleared
    <3>2. QED
      BY <3>1
  <2>2. 0 \in 0 .. N
    BY <1>0
  <2> HIDE DEF cleared
  <2>3. ApplyCamera(ContextList, target) = SpaceListed(target, meshes, 0)
    BY <2>1, CameraListed DEF SpaceListed, cleared
  <2> HIDE DEF meshes, N
  <2>4. QED
    BY <2>2, <2>3
<1> HIDE DEF meshes, N
<1>4. \A n \in 1 .. N : listed[n] = DrawMesh(listed[n - 1], meshes[n])
  <2> SUFFICES ASSUME NEW n \in 1 .. N PROVE listed[n] = DrawMesh(listed[n - 1], meshes[n])
    OBVIOUS
  <2>1. n \in Nat \ {0} /\ n - 1 \in 0 .. N /\ n \in 0 .. N
    BY <1>0
  <2>2. QED
    BY <2>1, MeshListed
<1>5. \A n \in 0 .. N : listed[n] = value(n, listed)
  <2> SUFFICES ASSUME NEW n \in 0 .. N PROVE listed[n] = value(n, listed)
    OBVIOUS
  <2> HIDE DEF listed
  <2>1. n = 0 \/ (n # 0 /\ n \in 1 .. N)
    BY <1>0
  <2>2. QED
    BY <1>3, <1>4, <2>1
<1>6. listed = [n \in 0 .. N |-> value(n, listed)]
  BY <1>5
<1>7. drawn = [n \in 0 .. N |-> value(n, drawn)]
  BY <1>6
<1>8. RenderSpace(ContextList, target, ready) = drawn[N]
  BY DEF RenderSpace, N, meshes
<1> HIDE DEF listed, drawn
<1>9. drawn[0] = listed[0]
  BY <1>0, <1>3, <1>7
<1>10. \A n \in 1 .. N : drawn[n - 1] = listed[n - 1] => drawn[n] = listed[n]
  BY <1>0, <1>4, <1>7
<1>11. drawn[N] = listed[N]
  BY <1>0, <1>9, <1>10, SameValues
<1>12. listed[N] = SpaceListed(target, meshes, N)
  BY <1>0 DEF listed
<1>13. QED
  BY <1>2, <1>8, <1>11, <1>12 DEF N

LEMMA Divided ==
    ASSUME NEW a \in Nat, NEW m \in Nat \ {0}
    PROVE  /\ a \div m \in Nat
           /\ (a \div m) * m <= a /\ a < (a \div m) * m + m
OBVIOUS

LEMMA Multiples ==
    ASSUME NEW m \in Nat, NEW j \in Nat, NEW k \in Nat, j <= k
    PROVE  j * m \in Nat /\ k * m \in Nat /\ j * m <= k * m
OBVIOUS

LEMMA NextMultiple ==
    ASSUME NEW m \in Nat, NEW k \in Nat \ {0}
    PROVE  (k - 1) * m \in Nat /\ k * m \in Nat /\ k * m = (k - 1) * m + m
OBVIOUS

RowOf(id, n) == [k \in 1 .. n |-> id]

\* The places in the row that the vertices of the chunks are from.
Covered(chunks) ==
    UNION {{(k - 1) * MaxVertsPerChunk + n : n \in DOMAIN chunks[k]} : k \in DOMAIN chunks}

\* The chunks of a row of vertices: each of them in one, and no chunk too large.
LEMMA ChunksOf ==
    ASSUME NEW id, NEW L \in Nat, NEW vertices, vertices = RowOf(id, L),
           NEW chunks, chunks = Chunks(vertices)
    PROVE  /\ Len(chunks) \in Nat /\ DOMAIN chunks = 1 .. Len(chunks)
           /\ \A k \in DOMAIN chunks :
                /\ Len(chunks[k]) \in 1 .. MaxVertsPerChunk
                /\ chunks[k] = RowOf(id, Len(chunks[k]))
           /\ Covered(chunks) = 1 .. L
<1> DEFINE M == MaxVertsPerChunk
           q == (L + M - 1) \div M
           size(k) == (IF k * M < L THEN k * M ELSE L) - (k - 1) * M
<1>1. M \in Nat \ {0} /\ L + M - 1 \in Nat
  BY RenderingAssumption
<1>2. Len(vertices) = L /\ vertices = [n \in 1 .. L |-> id]
  BY DEF RowOf
<1>3. q \in Nat /\ q * M <= L + M - 1 /\ L + M - 1 < q * M + M
  BY <1>1, Divided
<1>4. chunks = [k \in 1 .. q |-> SubSeq(vertices, (k - 1) * M + 1, IF k * M < L THEN k * M ELSE L)]
  BY <1>2 DEF Chunks
<1> HIDE DEF q
<1>5. Len(chunks) = q /\ DOMAIN chunks = 1 .. q
  BY <1>3, <1>4
<1>6. ASSUME NEW k \in 1 .. q
      PROVE  /\ k \in Nat \ {0} /\ (k - 1) * M \in Nat /\ k * M = (k - 1) * M + M /\ (k - 1) * M < L
             /\ size(k) \in 1 .. M
             /\ chunks[k] = [n \in 1 .. size(k) |-> id]
  <2>1. k \in Nat \ {0} /\ k <= q
    BY <1>3
  <2>2. (k - 1) * M \in Nat /\ k * M \in Nat /\ k * M = (k - 1) * M + M
    BY <1>1, <2>1, NextMultiple
  <2>3. k * M <= q * M /\ q * M \in Nat
    BY <1>1, <1>3, <2>1, Multiples
  <2>4. (k - 1) * M < L
    BY <1>1, <1>3, <2>2, <2>3
  <2> DEFINE from == (k - 1) * M
             upto == IF k * M < L THEN k * M ELSE L
  <2>5. upto \in Nat /\ from \in Nat /\ upto <= L /\ upto - from \in 1 .. M
    BY <1>1, <2>2, <2>4
  <2>6. chunks[k] = SubSeq(vertices, from + 1, upto)
    BY <1>4
  <2>7. size(k) = upto - from
    OBVIOUS
  <2> HIDE DEF from, upto
  <2>8. SubSeq(vertices, from + 1, upto) = [n \in 1 .. (upto - from) |-> id]
    BY <1>1, <1>2, <2>5
  <2> HIDE DEF size
  <2>9. QED
    BY <2>1, <2>2, <2>4, <2>5, <2>6, <2>7, <2>8 DEF from
<1>7. \A k \in 1 .. q : /\ Len(chunks[k]) = size(k) /\ size(k) \in 1 .. M
                        /\ DOMAIN chunks[k] = 1 .. size(k)
                        /\ chunks[k] = [n \in 1 .. Len(chunks[k]) |-> id]
  <2> SUFFICES ASSUME NEW k \in 1 .. q
               PROVE  /\ Len(chunks[k]) = size(k) /\ size(k) \in 1 .. M
                      /\ DOMAIN chunks[k] = 1 .. size(k)
                      /\ chunks[k] = [n \in 1 .. Len(chunks[k]) |-> id]
    OBVIOUS
  <2>1. size(k) \in 1 .. M /\ size(k) \in Nat /\ chunks[k] = [n \in 1 .. size(k) |-> id]
    BY <1>1, <1>6
  <2> HIDE DEF size
  <2>2. Len(chunks[k]) = size(k)
    BY <2>1
  <2>3. QED
    BY <2>1, <2>2
<1> DEFINE places(k) == {(k - 1) * M + n : n \in DOMAIN chunks[k]}
<1>8. ASSUME NEW k \in 1 .. q, NEW n \in 1 .. size(k)
      PROVE  (k - 1) * M + n \in 1 .. L
  BY <1>1, <1>6
<1>9. ASSUME NEW x \in 1 .. L
      PROVE  \E k \in 1 .. q : \E n \in 1 .. size(k) : x = (k - 1) * M + n
  <2> DEFINE k == (x - 1) \div M + 1
  <2>1. x - 1 \in Nat
    OBVIOUS
  <2>2. k \in Nat \ {0} /\ (k - 1) * M <= x - 1 /\ x - 1 < (k - 1) * M + M
    <3> DEFINE d == (x - 1) \div M
    <3>1. d \in Nat /\ d * M <= x - 1 /\ x - 1 < d * M + M
      BY <1>1, <2>1, Divided
    <3> HIDE DEF d
    <3>2. k = d + 1 /\ k - 1 = d
      BY <3>1 DEF d
    <3> HIDE DEF k
    <3>3. QED
      BY <3>1, <3>2
  <2> HIDE DEF k
  <2>3. k * M = (k - 1) * M + M /\ (k - 1) * M \in Nat
    BY <1>1, <2>2, NextMultiple
  <2>4. k <= q
    <3> SUFFICES ASSUME ~(k <= q) PROVE FALSE
      OBVIOUS
    <3>1. q <= k - 1 /\ k - 1 \in Nat
      BY <1>3, <2>2
    <3>2. q * M <= (k - 1) * M /\ q * M \in Nat
      BY <1>1, <1>3, <3>1, Multiples
    <3>3. QED
      BY <1>1, <1>3, <2>2, <2>3, <3>2
  <2> DEFINE n == x - (k - 1) * M
  <2>5. n \in 1 .. size(k) /\ x = (k - 1) * M + n
    BY <1>1, <2>2, <2>3
  <2>6. QED
    BY <2>2, <2>4, <2>5
<1>10. Covered(chunks) = 1 .. L
  <2>1. \A k \in 1 .. q : DOMAIN chunks[k] = 1 .. size(k)
    BY <1>7
  <2> HIDE DEF size, M
  <2>2. ASSUME NEW k \in DOMAIN chunks, NEW x \in places(k) PROVE x \in 1 .. L
    <3>1. k \in 1 .. q
      BY <1>5
    <3>2. PICK n \in DOMAIN chunks[k] : x = (k - 1) * M + n
      OBVIOUS
    <3>3. QED
      BY <1>8, <2>1, <3>1, <3>2
  <2>3. ASSUME NEW x \in 1 .. L PROVE \E k \in DOMAIN chunks : x \in places(k)
    <3>1. PICK k \in 1 .. q : \E n \in 1 .. size(k) : x = (k - 1) * M + n
      BY <1>9
    <3>2. x \in places(k)
      BY <2>1, <3>1
    <3>3. QED
      BY <1>5, <3>2
  <2>4. Covered(chunks) = UNION {places(k) : k \in DOMAIN chunks}
    BY DEF Covered, M
  <2> HIDE DEF places
  <2>5. \A x \in UNION {places(k) : k \in DOMAIN chunks} : x \in 1 .. L
    BY <2>2
  <2>6. \A x \in 1 .. L : x \in UNION {places(k) : k \in DOMAIN chunks}
    BY <2>3
  <2>7. QED
    BY <2>4, <2>5, <2>6
<1>11. \A k \in DOMAIN chunks : /\ Len(chunks[k]) \in 1 .. M
                                  /\ chunks[k] = RowOf(id, Len(chunks[k]))
  <2> SUFFICES ASSUME NEW k \in DOMAIN chunks
               PROVE  Len(chunks[k]) \in 1 .. M /\ chunks[k] = RowOf(id, Len(chunks[k]))
    OBVIOUS
  <2> HIDE DEF size
  <2>1. k \in 1 .. q
    BY <1>5
  <2> HIDE DEF q
  <2>2. QED
    BY <1>7, <2>1 DEF RowOf
<1>12. Len(chunks) \in Nat /\ DOMAIN chunks = 1 .. Len(chunks)
  BY <1>3, <1>5
<1> HIDE DEF size
<1>13. QED
  BY <1>10, <1>11, <1>12

\* What was drawn, then the chunks.
AllDraws(target, draws, c, chunks, constants) ==
    [k \in 1 .. (c + Len(chunks)) |->
        IF k <= c THEN draws[k] ELSE DrawOf(target, chunks[k - c], "debug", constants)]

LEMMA LinesDrawn ==
    ASSUME NEW pipe, NEW constants, NEW waits, NEW target, NEW c \in Nat, NEW d,
           d = [k \in 1 .. c |-> d[k]],
           NEW vertices, NEW chunks, chunks = Chunks(vertices), Len(chunks) \in Nat
    PROVE  DrawLines(Listed(pipe, constants, waits, target, d), vertices).draws
             = AllDraws(target, d, c, chunks, constants)
<1> DEFINE cl == Listed(pipe, constants, waits, target, d)
           N == Len(chunks)
           start == BindBuffers(SetPipelineState(cl, "debug"), "debug")
           value(n, of) == IF n = 0 THEN start ELSE Draw(of[n - 1], chunks[n])
           drawn == CHOOSE f : f = [n \in 0 .. N |-> value(n, f)]
           all == [k \in 1 .. (c + N) |->
                      IF k <= c THEN d[k] ELSE DrawOf(target, chunks[k - c], "debug", constants)]
           state(n) == Listed("debug", constants, IF n = 0 THEN waits ELSE "bound", target,
                              [k \in 1 .. (c + n) |-> all[k]])
           listed == [n \in 0 .. N |-> state(n)]
<1>1. start = Listed("debug", constants, waits, target, d)
  BY PipelineListed
<1>2. listed[0] = value(0, listed)
  <2>1. d = [k \in 1 .. (c + 0) |-> all[k]]
    OBVIOUS
  <2> HIDE DEF all
  <2>2. state(0) = start
    BY <1>1, <2>1
  <2> HIDE DEF state, start
  <2>3. QED
    BY <2>2
<1>3. ASSUME NEW n \in 1 .. N PROVE Draw(state(n - 1), chunks[n]) = state(n)
  <2> DEFINE draw == DrawOf(target, chunks[n], "debug", constants)
             before == [k \in 1 .. (c + (n - 1)) |-> all[k]]
             after == [k \in 1 .. (c + n) |-> all[k]]
  <2>1. all[c + n] = draw
    <3>1. c + n \in 1 .. (c + N) /\ ~(c + n <= c) /\ (c + n) - c = n
      OBVIOUS
    <3>2. QED
      BY <3>1
  <2> HIDE DEF all, draw
  <2>2. Append(before, draw) = after
    <3>1. c + (n - 1) \in Nat /\ (c + (n - 1)) + 1 = c + n
      OBVIOUS
    <3>2. QED
      BY <2>1, <3>1, RowGrown
  <2>3. PICK bound : state(n - 1) = Listed("debug", constants, bound, target, before)
    OBVIOUS
  <2>4. state(n) = Listed("debug", constants, "bound", target, after)
    OBVIOUS
  <2> HIDE DEF state, before, after
  <2>5. Draw(Listed("debug", constants, bound, target, before), chunks[n])
          = Listed("debug", constants, "bound", target, Append(before, draw))
    BY DrawListed DEF draw
  <2>6. QED
    BY <2>2, <2>3, <2>4, <2>5
<1> HIDE DEF state
<1>4. \A n \in 1 .. N : listed[n] = Draw(listed[n - 1], chunks[n])
  <2> SUFFICES ASSUME NEW n \in 1 .. N PROVE listed[n] = Draw(listed[n - 1], chunks[n])
    OBVIOUS
  <2>1. n - 1 \in 0 .. N /\ n \in 0 .. N
    OBVIOUS
  <2>2. QED
    BY <1>3, <2>1
<1>5. \A n \in 0 .. N : listed[n] = value(n, listed)
  <2> SUFFICES ASSUME NEW n \in 0 .. N PROVE listed[n] = value(n, listed)
    OBVIOUS
  <2> HIDE DEF listed
  <2>1. n = 0 \/ (n # 0 /\ n \in 1 .. N)
    OBVIOUS
  <2>2. QED
    BY <1>2, <1>4, <2>1
<1>6. listed = [n \in 0 .. N |-> value(n, listed)]
  BY <1>5
<1>7. drawn = [n \in 0 .. N |-> value(n, drawn)]
  BY <1>6
<1>8. DrawLines(cl, vertices) = drawn[N]
  BY DEF DrawLines
<1> HIDE DEF listed, drawn, start
<1>9. drawn[0] = listed[0]
  BY <1>2, <1>7
<1>10. ASSUME NEW n \in 1 .. N, drawn[n - 1] = listed[n - 1] PROVE drawn[n] = listed[n]
  <2>1. n \in 0 .. N /\ n # 0
    OBVIOUS
  <2>2. drawn[n] = Draw(drawn[n - 1], chunks[n])
    BY <1>7, <2>1
  <2>3. QED
    BY <1>4, <1>10, <2>2
<1>11. drawn[N] = listed[N]
  BY <1>9, <1>10, SameValues
<1>12. listed[N] = state(N)
  BY DEF listed
<1>13. [k \in 1 .. (c + N) |-> all[k]] = all
  OBVIOUS
<1> HIDE DEF all
<1>14. PICK bound : state(N) = Listed("debug", constants, bound, target, all)
  BY <1>13 DEF state
<1>15. Listed("debug", constants, bound, target, all).draws = all
  BY DEF Listed, List
<1>16. all = AllDraws(target, d, c, chunks, constants)
  BY DEF all, AllDraws
<1>17. QED
  BY <1>8, <1>11, <1>12, <1>14, <1>15, <1>16

\* What a pass draws: the space, and n chunks.
PassDraws(target, meshes, c, chunks, n, constants) ==
    [k \in 1 .. (c + n) |->
        IF k <= c THEN SpaceDraw(target, meshes, k)
        ELSE DrawOf(target, chunks[k - c], "debug", constants)]

PassOf(target, ready, chunks, n, draws) ==
    \E meshes \in Surjection(1 .. Cardinality(ready), ready) : \E constants :
        /\ {"frame", "camera"} \subseteq constants
        /\ draws = PassDraws(target, meshes, Cardinality(ready) + 1, chunks, n, constants)

LEMMA PassDrawn ==
    ASSUME NEW buffer, NEW ready \in SUBSET Meshes, NEW vertices,
           NEW chunks, chunks = Chunks(vertices), Len(chunks) \in Nat,
           NEW n, n = IF Rendered.type = "scene" THEN Len(chunks) ELSE 0
    PROVE  PassOf(BindBackBuffer(buffer), ready, chunks, n, Pass(buffer, ready, vertices).draws)
<1> DEFINE target == BindBackBuffer(buffer)
           c == Cardinality(ready) + 1
<1>1. IsFiniteSet(ready) /\ Cardinality(ready) \in Nat /\ c \in Nat
  BY RenderingAssumption, FS_Subset, FS_CardinalityType
<1>2. PICK meshes \in Surjection(1 .. Cardinality(ready), ready) :
        RenderSpace(ContextList, target, ready) = SpaceListed(target, meshes, Cardinality(ready))
  BY SpaceDrawn
<1> DEFINE d == [k \in 1 .. c |-> SpaceDraw(target, meshes, k)]
<1>3. PICK pipe, constants, waits :
        /\ SpaceListed(target, meshes, Cardinality(ready)) = Listed(pipe, constants, waits, target, d)
        /\ {"frame", "camera"} \subseteq constants
  <2>1. CASE Cardinality(ready) = 0
    <3>1. SpaceListed(target, meshes, Cardinality(ready)) = Listed("none", {"frame", "camera"}, "waits", target, d)
      BY <2>1 DEF SpaceListed
    <3>2. QED
      BY <3>1
  <2>2. CASE Cardinality(ready) # 0
    <3>1. SpaceListed(target, meshes, Cardinality(ready))
            = Listed(meshes[Cardinality(ready)], AllBound, "bound", target, d)
      BY <2>2 DEF SpaceListed
    <3>2. {"frame", "camera"} \subseteq AllBound
      BY DEF AllBound
    <3> HIDE DEF d
    <3>3. QED
      BY <3>1, <3>2
  <2>3. QED
    BY <2>1, <2>2
<1> DEFINE list == Listed(pipe, constants, waits, target, d)
<1>4. Pass(buffer, ready, vertices) = IF Rendered.type = "scene" THEN DrawLines(list, vertices) ELSE list
  BY <1>2, <1>3 DEF Pass
<1>5. \A a, b, e, t, f : Listed(a, b, e, t, f).draws = f
  BY DEF Listed, List
<1>6. CASE Rendered.type = "scene"
  <2>1. d = [k \in 1 .. c |-> d[k]]
    OBVIOUS
  <2> DEFINE all == AllDraws(target, d, c, chunks, constants)
  <2>2. DrawLines(list, vertices).draws = all
    <3> HIDE DEF d, c, target
    <3>1. QED
      BY <1>1, <2>1, LinesDrawn
  <2>3. Pass(buffer, ready, vertices).draws = all
    BY <1>4, <1>6, <2>2
  <2>4. all = PassDraws(target, meshes, c, chunks, Len(chunks), constants)
    BY <1>1 DEF AllDraws, PassDraws
  <2> HIDE DEF all
  <2>5. QED
    BY <1>3, <1>6, <2>3, <2>4 DEF PassOf
<1>7. CASE Rendered.type # "scene"
  <2>1. Pass(buffer, ready, vertices).draws = d
    BY <1>4, <1>5, <1>7
  <2>2. d = PassDraws(target, meshes, c, chunks, 0, constants)
    BY <1>1 DEF PassDraws
  <2> HIDE DEF d
  <2>3. QED
    BY <1>3, <1>7, <2>1, <2>2 DEF PassOf
<1>8. QED
  BY <1>6, <1>7

\* What PicturesRight says of a view's picture.
Pictured(id, buffer, p) ==
    LET meshes == {p.draws[k].pipeline : k \in 2 .. Cardinality(p.ready) + 1}
        debug == SubSeq(p.draws, Cardinality(p.ready) + 2, Len(p.draws))
        drawn(k) == {(k - 1) * MaxVertsPerChunk + n : n \in DOMAIN debug[k].vertices}
    IN /\ \A k \in DOMAIN p.draws : Complete(BindBackBuffer(buffer), p.draws[k])
       /\ p.draws[1].pipeline = "none" /\ Len(p.draws) > Cardinality(p.ready)
       /\ meshes = p.ready
       /\ \A k \in DOMAIN debug :
            /\ debug[k].pipeline = "debug" /\ Len(debug[k].vertices) <= MaxVertsPerChunk
            /\ Range(debug[k].vertices) = {id}
       /\ UNION {drawn(k) : k \in DOMAIN debug} = IF p.grid THEN 1 .. GridVertices ELSE {}

LEMMA DrawOfFields ==
    ASSUME NEW target, NEW vertices, NEW pipe, NEW constants
    PROVE  /\ DrawOf(target, vertices, pipe, constants).target = target
           /\ DrawOf(target, vertices, pipe, constants).vertices = vertices
           /\ DrawOf(target, vertices, pipe, constants).pipeline = pipe
           /\ DrawOf(target, vertices, pipe, constants).buffers = pipe
           /\ DrawOf(target, vertices, pipe, constants).constants = constants
BY DEF DrawOf

LEMMA AfterFirst ==
    ASSUME NEW s, NEW c \in Nat, NEW n \in Nat
    PROVE  /\ DOMAIN SubSeq(s, c + 2, c + 1 + n) = 1 .. n
           /\ \A k \in 1 .. n : SubSeq(s, c + 2, c + 1 + n)[k] = s[c + 1 + k]
<1>1. SubSeq(s, c + 2, c + 1 + n) = [k \in 1 .. n |-> s[c + 1 + k]]
  OBVIOUS
<1>2. QED
  BY <1>1

LEMMA PassPictured ==
    ASSUME NEW id, NEW buffer, NEW ready \in SUBSET Meshes, NEW grid \in BOOLEAN,
           grid => Rendered.type = "scene",
           NEW vertices, vertices = RowOf(id, IF grid THEN GridVertices ELSE 0),
           NEW p, p.draws = Pass(buffer, ready, vertices).draws, p.ready = ready, p.grid = grid
    PROVE  Pictured(id, buffer, p)
<1> DEFINE C == Cardinality(p.ready)
           L == IF grid THEN GridVertices ELSE 0
           chunks == Chunks(vertices)
           N == IF Rendered.type = "scene" THEN Len(chunks) ELSE 0
           target == BindBackBuffer(buffer)
           M == MaxVertsPerChunk
<1>0. C \in Nat /\ L \in Nat /\ M \in Nat
  BY RenderingAssumption, FS_Subset, FS_CardinalityType
<1>a. vertices = RowOf(id, L) /\ chunks = Chunks(vertices)
  OBVIOUS
<1>1. /\ Len(chunks) \in Nat /\ DOMAIN chunks = 1 .. Len(chunks)
      /\ \A k \in DOMAIN chunks :
           /\ Len(chunks[k]) \in 1 .. M
           /\ chunks[k] = RowOf(id, Len(chunks[k]))
      /\ Covered(chunks) = 1 .. L
  <2> HIDE DEF chunks, L
  <2>1. QED
    BY <1>0, <1>a, ChunksOf
<1>2. PICK meshes, constants :
        /\ meshes \in Surjection(1 .. C, ready) /\ {"frame", "camera"} \subseteq constants
        /\ Pass(buffer, ready, vertices).draws =
             PassDraws(target, meshes, C + 1, chunks, N, constants)
  <2> HIDE DEF chunks
  <2>1. N = IF Rendered.type = "scene" THEN Len(chunks) ELSE 0
    OBVIOUS
  <2> HIDE DEF N
  <2>2. PassOf(target, ready, chunks, N, Pass(buffer, ready, vertices).draws)
    BY <1>1, <1>a, <2>1, PassDrawn
  <2>3. Cardinality(ready) = C
    OBVIOUS
  <2> HIDE DEF C, target
  <2>4. QED
    BY <2>2, <2>3 DEF PassOf
<1> HIDE DEF chunks, target
<1>3. N \in Nat /\ (N # 0 => N = Len(chunks))
  BY <1>1
<1>4. ~(Rendered.type = "scene") => L = 0 /\ N = 0
  OBVIOUS
<1> DEFINE draws == p.draws
<1>5. /\ Len(draws) = C + 1 + N /\ DOMAIN draws = 1 .. (C + 1 + N)
      /\ \A k \in 1 .. (C + 1 + N) :
           draws[k] = IF k <= C + 1 THEN SpaceDraw(target, meshes, k)
                      ELSE DrawOf(target, chunks[k - (C + 1)], "debug", constants)
  <2>1. draws = PassDraws(target, meshes, C + 1, chunks, N, constants)
    BY <1>2
  <2> HIDE DEF C, N, draws
  <2>2. C + 1 + N \in Nat
    BY <1>0, <1>3
  <2>3. draws = [k \in 1 .. (C + 1 + N) |->
                   IF k <= C + 1 THEN SpaceDraw(target, meshes, k)
                   ELSE DrawOf(target, chunks[k - (C + 1)], "debug", constants)]
    BY <2>1 DEF PassDraws
  <2>4. QED
    BY <2>2, <2>3
<1>6. draws[1] = DrawOf(target, <<>>, "none", {"frame"})
  <2>1. 1 \in 1 .. (C + 1 + N) /\ 1 <= C + 1
    BY <1>0, <1>3
  <2>2. QED
    BY <1>5, <2>1 DEF SpaceDraw
<1>7. ASSUME NEW k \in 2 .. C + 1
      PROVE  /\ k - 1 \in 1 .. C /\ meshes[k - 1] \in ready
             /\ draws[k] = DrawOf(target, <<meshes[k - 1]>>, meshes[k - 1], AllBound)
  <2>1. k \in 1 .. (C + 1 + N) /\ k <= C + 1 /\ k # 1 /\ k - 1 \in 1 .. C
    BY <1>0, <1>3
  <2>2. meshes \in [1 .. C -> ready]
    BY <1>2 DEF Surjection
  <2>3. QED
    BY <1>5, <2>1, <2>2 DEF SpaceDraw
<1>8. ASSUME NEW k \in 1 .. N
      PROVE  draws[C + 1 + k] = DrawOf(target, chunks[k], "debug", constants) /\ k \in DOMAIN chunks
  <2>1. C + 1 + k \in 1 .. (C + 1 + N) /\ ~(C + 1 + k <= C + 1) /\ (C + 1 + k) - (C + 1) = k
    BY <1>0, <1>3
  <2>2. k \in DOMAIN chunks
    BY <1>1, <1>3
  <2>3. QED
    BY <1>5, <2>1, <2>2
<1> DEFINE debug == SubSeq(draws, C + 2, Len(draws))
<1>9. DOMAIN debug = 1 .. N /\ \A k \in 1 .. N : debug[k] = DrawOf(target, chunks[k], "debug", constants)
  <2>1. Len(draws) = C + 1 + N
    BY <1>5
  <2> HIDE DEF draws, C, N
  <2>2. debug = SubSeq(draws, C + 2, C + 1 + N)
    BY <2>1
  <2> HIDE DEF debug
  <2>3. DOMAIN debug = 1 .. N /\ \A k \in 1 .. N : debug[k] = draws[C + 1 + k]
    BY <1>0, <1>3, <2>2, AfterFirst
  <2>4. QED
    BY <1>8, <2>3 DEF draws
<1> HIDE DEF C, N, M, debug, L
<1>10. \A k \in DOMAIN draws : Complete(target, draws[k])
  <2> SUFFICES ASSUME NEW k \in DOMAIN draws PROVE Complete(target, draws[k])
    OBVIOUS
  <2>1. k = 1 \/ k \in 2 .. C + 1 \/ (k - (C + 1) \in 1 .. N /\ C + 1 + (k - (C + 1)) = k)
    <3>1. k \in 1 .. (C + 1 + N)
      BY <1>5
    <3> HIDE DEF draws
    <3>2. QED
      BY <1>0, <1>3, <3>1
  <2>2. CASE k = 1
    BY <1>6, <2>2, DrawOfFields, RenderingAssumption DEF Complete
  <2>3. CASE k \in 2 .. C + 1
    <3>1. meshes[k - 1] \in Meshes /\ meshes[k - 1] # "debug"
      BY <1>7, <2>3, RenderingAssumption
    <3> DEFINE mesh == meshes[k - 1]
               draw == DrawOf(target, <<mesh>>, mesh, AllBound)
    <3>2. draws[k] = draw
      BY <1>7, <2>3
    <3>3. draw.target = target /\ draw.pipeline = mesh /\ draw.buffers = mesh
      BY DrawOfFields
    <3>4. draw.vertices = <<mesh>> /\ draw.constants = AllBound
      BY DrawOfFields
    <3> HIDE DEF draw, mesh, draws
    <3>5. QED
      BY <3>1, <3>2, <3>3, <3>4 DEF Complete, AllBound, mesh
  <2>4. CASE k - (C + 1) \in 1 .. N /\ C + 1 + (k - (C + 1)) = k
    <3>1. draws[k] = DrawOf(target, chunks[k - (C + 1)], "debug", constants)
      BY <1>8, <2>4
    <3>2. "debug" \notin Meshes
      BY RenderingAssumption
    <3> DEFINE chunk == chunks[k - (C + 1)]
    <3> HIDE DEF draws, chunk
    <3>3. /\ draws[k].target = target /\ draws[k].pipeline = "debug"
          /\ draws[k].buffers = "debug" /\ draws[k].constants = constants
      BY <3>1, DrawOfFields DEF chunk
    <3>4. QED
      BY <1>2, <3>2, <3>3 DEF Complete
  <2>5. QED
    BY <2>1, <2>2, <2>3, <2>4
<1>11. draws[1].pipeline = "none" /\ Len(draws) > C
  <2> HIDE DEF draws
  <2>1. draws[1].pipeline = "none"
    BY <1>6, DrawOfFields
  <2>2. Len(draws) > C
    BY <1>0, <1>3, <1>5
  <2>3. QED
    BY <2>1, <2>2
<1>12. {draws[k].pipeline : k \in 2 .. C + 1} = ready
  <2>1. \A k \in 2 .. C + 1 : draws[k].pipeline = meshes[k - 1] /\ meshes[k - 1] \in ready
    <3> SUFFICES ASSUME NEW k \in 2 .. C + 1
                 PROVE  draws[k].pipeline = meshes[k - 1] /\ meshes[k - 1] \in ready
      OBVIOUS
    <3> HIDE DEF draws
    <3>1. draws[k] = DrawOf(target, <<meshes[k - 1]>>, meshes[k - 1], AllBound) /\ meshes[k - 1] \in ready
      BY <1>7 DEF draws
    <3> DEFINE row == <<meshes[k - 1]>>
    <3> HIDE DEF row
    <3>2. DrawOf(target, row, meshes[k - 1], AllBound).pipeline = meshes[k - 1]
      BY DrawOfFields
    <3>3. QED
      BY <3>1, <3>2 DEF row
  <2>2. ASSUME NEW mesh \in ready PROVE \E k \in 2 .. C + 1 : draws[k].pipeline = mesh
    <3>1. PICK n \in 1 .. C : meshes[n] = mesh
      BY <1>2 DEF Surjection
    <3>2. n + 1 \in 2 .. C + 1 /\ (n + 1) - 1 = n
      BY <1>0
    <3>3. QED
      BY <2>1, <3>1, <3>2
  <2> HIDE DEF draws
  <2>3. QED
    BY <2>1, <2>2
<1>13. ASSUME NEW k \in DOMAIN debug
       PROVE  /\ debug[k].pipeline = "debug" /\ Len(debug[k].vertices) <= M
              /\ Range(debug[k].vertices) = {id}
              /\ debug[k].vertices = chunks[k]
  <2>1. debug[k] = DrawOf(target, chunks[k], "debug", constants) /\ k \in DOMAIN chunks
    BY <1>8, <1>9
  <2>2. debug[k].vertices = chunks[k] /\ debug[k].pipeline = "debug"
    BY <2>1, DrawOfFields
  <2>3. Len(chunks[k]) \in 1 .. M /\ chunks[k] = RowOf(id, Len(chunks[k]))
    BY <1>1, <2>1
  <2>4. Range(chunks[k]) = {id}
    BY <1>0, <2>3 DEF Range, RowOf
  <2>5. QED
    BY <1>0, <2>2, <2>3, <2>4
<1>14. UNION {{(k - 1) * M + n : n \in DOMAIN debug[k].vertices} : k \in DOMAIN debug} = 1 .. L
  <2>1. CASE N # 0
    <3>1. DOMAIN debug = DOMAIN chunks
      BY <1>1, <1>3, <1>9, <2>1
    <3>2. \A k \in DOMAIN debug : debug[k].vertices = chunks[k]
      BY <1>13
    <3>3. QED
      <4>1. {{(k - 1) * M + n : n \in DOMAIN debug[k].vertices} : k \in DOMAIN debug}
              = {{(k - 1) * M + n : n \in DOMAIN chunks[k]} : k \in DOMAIN chunks}
        BY <3>1, <3>2
      <4>2. QED
        BY <1>1, <4>1 DEF Covered, M
  <2>2. CASE N = 0
    <3>1. DOMAIN debug = {}
      BY <1>9, <2>2
    <3>2. L = 0
      <4>1. CASE Rendered.type = "scene"
        <5>1. DOMAIN chunks = {}
          BY <1>1, <2>2, <4>1 DEF N
        <5>2. 1 .. L = {}
          BY <1>1, <5>1 DEF Covered
        <5>3. QED
          BY <1>0, <5>2
      <4>2. QED
        BY <1>4, <4>1
    <3>3. QED
      BY <3>1, <3>2
  <2>3. QED
    BY <2>1, <2>2
<1>15. 1 .. L = IF p.grid THEN 1 .. GridVertices ELSE {}
  BY DEF L
<1>16. \A k \in DOMAIN debug :
         /\ debug[k].pipeline = "debug" /\ Len(debug[k].vertices) <= M
         /\ Range(debug[k].vertices) = {id}
  BY <1>13
<1>17. p.ready = ready
  OBVIOUS
<1>18. QED
  BY <1>10, <1>11, <1>12, <1>14, <1>15, <1>16, <1>17 DEF Pictured, C, M, debug, target

PictureOK(id, v) ==
    /\ v.hasGrid \in BOOLEAN
    /\ v.picture # NoPicture => Pictured(id, v.buffer, v.picture)

\* Only scenes have a grid.
Gridless(ws, of) ==
    \A i \in DOMAIN ws.editors :
      ws.editors[i].type # "scene" /\ ws.editors[i].id \in DOMAIN of => of[ws.editors[i].id].hasGrid = FALSE

\* The clock runs before the first view is rendered.
ClockRuns(ws, t) ==
    \/ clock.started = TRUE
    \/ /\ t.phase # "present"
       /\ \A i \in DOMAIN ws.editors : HasView(ws.editors[i]) => t.phase # "events" /\ ~(i <= t.end)

PictureInv ==
    /\ \A id \in DOMAIN views : PictureOK(id, views[id])
    /\ Gridless(screen, views)
    /\ lines = <<>>
    /\ ClockRuns(screen, turn)

LEMMA PicturesNext ==
    ASSUME \A id \in DOMAIN views' : PictureOK(id, views'[id]),
           Gridless(screen', views'), lines' = <<>>, ClockRuns(screen, turn)'
    PROVE  PictureInv'
BY DEF PictureInv, PictureOK, Pictured, Gridless

LEMMA PictureInit == RenderInit => PictureInv
<1> SUFFICES ASSUME RenderInit PROVE PictureInv
  OBVIOUS
<1>1. DOMAIN views = {} /\ lines = <<>> /\ turn.phase = "events"
  BY DEF RenderInit
<1>2. DOMAIN screen.editors = {1} /\ screen.editors[1] = Editor(1, "assets", NoDocument)
  BY DEF RenderInit, CreateEditor, NewWorkspace
<1>3. ~HasView(screen.editors[1])
  BY <1>2 DEF Editor, HasView
<1>4. QED
  BY <1>1, <1>2, <1>3 DEF PictureInv, Gridless, ClockRuns

LEMMA EventsPictures ==
    ASSUME ScreenInv, PictureInv, ResizeWindow \/ SizeChanged \/ DrawInterface \/ Present
    PROVE  PictureInv'
<1>1. screen' = screen /\ views' = views /\ lines' = lines
  BY DEF ResizeWindow, SizeChanged, DrawInterface, Present
<1>2. ClockRuns(screen, turn)'
  <2>1. CASE ResizeWindow \/ SizeChanged
    BY <1>1, <2>1 DEF ResizeWindow, SizeChanged, PictureInv, ClockRuns
  <2>2. CASE DrawInterface
    BY <2>2 DEF DrawInterface, BeginFrame, ClockRuns
  <2>3. CASE Present
    BY <1>1, <2>3 DEF Present, PictureInv, ClockRuns
  <2>4. QED
    BY <2>1, <2>2, <2>3
<1>3. /\ \A id \in DOMAIN views' : PictureOK(id, views'[id])
      /\ Gridless(screen', views') /\ lines' = <<>>
  BY <1>1 DEF PictureInv
<1>4. QED
  BY <1>2, <1>3, PicturesNext

LEMMA StartPictures ==
    ASSUME ScreenInv, PictureInv, StartFrame
    PROVE  PictureInv'
<1>1. WorkspaceOK(screen, {NoDocument})
  BY DEF ScreenInv, Viewed
<1>2. LeftOf(screen'.editors, screen.editors)
  BY <1>1, EraseOK DEF StartFrame
<1>3. PICK pick \in [DOMAIN screen'.editors -> DOMAIN screen.editors] :
        \A i \in DOMAIN screen'.editors : screen'.editors[i] = screen.editors[pick[i]]
  BY <1>2 DEF LeftOf
<1>4. \A id \in DOMAIN views' : id \in DOMAIN views /\ views'[id] = views[id]
  BY DEF StartFrame
<1>5. turn.phase = "events" /\ lines' = lines /\ clock' = clock /\ turn'.phase = "render"
  BY DEF StartFrame
<1>6. Gridless(screen', views')
  BY <1>3, <1>4 DEF PictureInv, Gridless
<1>7. ClockRuns(screen, turn)'
  BY <1>3, <1>5 DEF PictureInv, ClockRuns
<1>8. \A id \in DOMAIN views' : PictureOK(id, views'[id])
  BY <1>4 DEF PictureInv
<1>9. lines' = <<>>
  BY <1>5 DEF PictureInv
<1>10. QED
  BY <1>6, <1>7, <1>8, <1>9, PicturesNext

\* What is rendered: a view of its own, with a picture of what it has to show.
LEMMA RenderedPicture ==
    ASSUME ScreenInv, PictureInv, turn.phase = "render", turn.at <= turn.end,
           HasView(Rendered), views[Rendered.id].dimensions # 0,
           NEW ready \in SUBSET Meshes, RenderView(ready), screen' = screen
    PROVE  PictureInv'
<1> DEFINE id == Rendered.id
           view == views[id]
           vertices == IF view.hasGrid THEN DebugGrid(lines, id) ELSE lines
           picture(sized) ==
               [buffer |-> sized.buffer, draws |-> Pass(sized.buffer, ready, vertices).draws,
                ready |-> ready, grid |-> view.hasGrid]
           drawn(sized) == [sized EXCEPT !.picture = picture(sized)]
<1>1. /\ id \in DOMAIN views /\ turn.at \in DOMAIN screen.editors /\ turn.at \in Nat
      /\ Rendered = screen.editors[turn.at]
  BY AtRendered DEF Rendered
<1>2. PICK sized : /\ sized = IF view.buffer.size # view.dimensions
                              THEN Resize(view, view.dimensions) ELSE view
                   /\ views' = [views EXCEPT ![id] = drawn(sized)]
                   /\ lines' = IF Rendered.type = "scene" THEN FlushDebugDraw(vertices) ELSE vertices
  BY DEF RenderView
<1>3. view = [dimensions |-> view.dimensions, buffer |-> view.buffer,
              hasGrid |-> view.hasGrid, picture |-> view.picture]
  BY <1>1 DEF ScreenInv, Viewed, ViewOK
<1>4. view.hasGrid \in BOOLEAN /\ (view.hasGrid => Rendered.type = "scene") /\ lines = <<>>
  BY <1>1 DEF PictureInv, PictureOK, Gridless
<1>5. clock.started = TRUE /\ clock'.started = TRUE /\ clock'.step # 0
  <2>1. clock.started = TRUE
    BY <1>1 DEF PictureInv, ClockRuns
  <2>2. clock' = [started |-> TRUE, step |-> 1]
    BY <2>1 DEF RenderView, BeginFrame
  <2>3. QED
    BY <2>1, <2>2
<1>6. vertices = RowOf(id, IF view.hasGrid THEN GridVertices ELSE 0)
  <2>1. CASE view.hasGrid
    <3> DEFINE row == [n \in 1 .. GridVertices |-> id]
    <3>1. vertices = <<>> \o row
      BY <1>4, <2>1 DEF DebugGrid
    <3>2. row \in Seq({id})
      BY RenderingAssumption, IsASeq
    <3> HIDE DEF row
    <3>3. <<>> \o row = row
      BY <3>2, ConcatEmptySeq
    <3>4. QED
      BY <2>1, <3>1, <3>3 DEF RowOf, row
  <2>2. CASE ~view.hasGrid
    BY <1>4, <2>2 DEF RowOf
  <2>3. QED
    BY <2>1, <2>2
<1>7. lines' = <<>>
  <2>1. CASE Rendered.type = "scene"
    BY <1>2, <1>5, <2>1 DEF FlushDebugDraw
  <2>2. CASE Rendered.type # "scene"
    BY <1>2, <1>4, <2>2
  <2>3. QED
    BY <2>1, <2>2
<1> HIDE DEF vertices
<1>8. /\ sized = [dimensions |-> sized.dimensions, buffer |-> sized.buffer,
                  hasGrid |-> sized.hasGrid, picture |-> sized.picture]
      /\ sized.hasGrid = view.hasGrid
  <2>1. CASE view.buffer.size # view.dimensions
    <3>1. sized = [view EXCEPT !.buffer = [texture |-> id, size |-> view.dimensions],
                               !.picture = NoPicture]
      BY <1>2, <2>1 DEF Resize, CreateTexture2D
    <3> HIDE DEF view
    <3>2. QED
      BY <1>3, <3>1
  <2>2. CASE view.buffer.size = view.dimensions
    BY <1>2, <1>3, <2>2
  <2>3. QED
    BY <2>1, <2>2
<1> DEFINE p == picture(sized)
<1>9. /\ p.draws = Pass(sized.buffer, ready, vertices).draws
      /\ p.ready = ready /\ p.grid = view.hasGrid
  OBVIOUS
<1> HIDE DEF p, view, id
<1>10. Pictured(id, sized.buffer, p)
  BY <1>4, <1>6, <1>9, PassPictured
<1>11. /\ drawn(sized).buffer = sized.buffer /\ drawn(sized).hasGrid = sized.hasGrid
       /\ drawn(sized).picture = p
  <2>1. drawn(sized) = [sized EXCEPT !.picture = p]
    BY DEF p
  <2> HIDE DEF drawn
  <2>2. QED
    BY <1>8, <2>1
<1> HIDE DEF drawn
<1>12. PictureOK(id, drawn(sized))
  BY <1>4, <1>8, <1>10, <1>11 DEF PictureOK
<1>13. /\ DOMAIN views' = DOMAIN views /\ views'[id] = drawn(sized)
       /\ \A other \in DOMAIN views : other # id => views'[other] = views[other]
  BY <1>1, <1>2
<1>14. \A k \in DOMAIN views' : PictureOK(k, views'[k])
  BY <1>12, <1>13 DEF PictureInv
<1>15. \A k \in DOMAIN views : views'[k].hasGrid = views[k].hasGrid
  BY <1>8, <1>11, <1>13 DEF view
<1>16. Gridless(screen', views')
  BY <1>13, <1>15 DEF PictureInv, Gridless
<1>17. ClockRuns(screen, turn)'
  BY <1>5 DEF ClockRuns
<1>18. QED
  BY <1>7, <1>14, <1>16, <1>17, PicturesNext

LEMMA RenderPictures ==
    ASSUME ScreenInv, PictureInv, RenderEditor
    PROVE  PictureInv'
<1>1. turn.phase = "render" /\ turn.at <= turn.end /\ screen' = screen
  BY DEF RenderEditor, AtView
<1>2. CASE views' = views /\ lines' = lines /\ clock' = clock
  <2>1. turn = [phase |-> turn.phase, at |-> turn.at, end |-> turn.end]
    BY DEF ScreenInv, Turned
  <2>2. turn' = [turn EXCEPT !.at = @ + 1] \/ turn' = [turn EXCEPT !.phase = "show"]
    BY DEF RenderEditor
  <2>3. turn'.end = turn.end /\ turn'.phase \in {"render", "show"}
    BY <1>1, <2>1, <2>2
  <2>4. ClockRuns(screen, turn)'
    BY <1>1, <1>2, <2>3 DEF PictureInv, ClockRuns
  <2>5. /\ \A id \in DOMAIN views' : PictureOK(id, views'[id])
        /\ Gridless(screen', views') /\ lines' = <<>>
    BY <1>1, <1>2 DEF PictureInv
  <2>6. QED
    BY <2>4, <2>5, PicturesNext
<1>3. CASE /\ HasView(Rendered) /\ views[Rendered.id].dimensions # 0
           /\ \E ready \in SUBSET Meshes : RenderView(ready)
  BY <1>1, <1>3, RenderedPicture
<1>4. QED
  BY <1>2, <1>3 DEF RenderEditor

LEMMA ShowPictures ==
    ASSUME ScreenInv, PictureInv, ShowEditor
    PROVE  PictureInv'
<1> DEFINE id == Rendered.id
<1>1. /\ turn.phase = "show" /\ turn.at <= turn.end /\ screen' = screen
      /\ lines' = lines /\ clock' = clock
  BY DEF ShowEditor, ScreenInv, Turned
<1>2. turn' = [phase |-> "act", at |-> turn.at, end |-> turn.end]
  BY DEF ShowEditor, ScreenInv, Turned
<1>3. ClockRuns(screen, turn)'
  BY <1>1, <1>2 DEF PictureInv, ClockRuns
<1>4. /\ DOMAIN views' = DOMAIN views
      /\ \A k \in DOMAIN views : /\ views'[k].buffer = views[k].buffer
                                 /\ views'[k].hasGrid = views[k].hasGrid
                                 /\ views'[k].picture = views[k].picture
  <2>1. CASE HideContent
    BY <2>1 DEF HideContent
  <2>2. CASE ShowContent
    <3>1. PICK size \in ContentSizes : views' = [views EXCEPT ![id].dimensions = size]
      BY <2>2 DEF ShowContent
    <3>2. id \in DOMAIN views
      BY <1>1, <2>2, AtRendered DEF ShowContent
    <3>3. views[id] = [dimensions |-> views[id].dimensions, buffer |-> views[id].buffer,
                       hasGrid |-> views[id].hasGrid, picture |-> views[id].picture]
      BY <3>2 DEF ScreenInv, Viewed, ViewOK
    <3>4. /\ DOMAIN views' = DOMAIN views
          /\ views'[id] = [views[id] EXCEPT !.dimensions = size]
          /\ \A k \in DOMAIN views : k # id => views'[k] = views[k]
      BY <3>1, <3>2
    <3>5. QED
      BY <3>3, <3>4
  <2>3. QED
    BY <2>1, <2>2 DEF ShowEditor
<1>5. \A k \in DOMAIN views' : PictureOK(k, views'[k])
  BY <1>4 DEF PictureInv, PictureOK
<1>6. Gridless(screen', views') /\ lines' = <<>>
  BY <1>1, <1>4 DEF PictureInv, Gridless
<1>7. QED
  BY <1>3, <1>5, <1>6, PicturesNext

\* The user's step: editors that are opened come after those of the frame.
LEMMA ActedPictures ==
    ASSUME ScreenInv, PictureInv, EndEditor,
           \A i \in DOMAIN screen.editors :
               /\ screen'.editors[i].id = screen.editors[i].id
               /\ screen'.editors[i].type = screen.editors[i].type,
           \A i \in DOMAIN screen'.editors : i \in DOMAIN screen.editors \/ i = Len(screen.editors) + 1,
           \A id \in DOMAIN views' : PictureOK(id, views'[id]),
           Gridless(screen', views')
    PROVE  PictureInv'
<1>1. turn.phase = "act" /\ lines' = lines /\ clock' = clock
  BY DEF EndEditor
<1>2. turn'.phase = "render" /\ turn'.end = turn.end
  <2>1. turn' = [turn EXCEPT !.phase = "render", !.at = turn.at + 1]
    BY DEF EndEditor
  <2>2. QED
    BY <2>1 DEF ScreenInv, Turned
<1>3. turn.end \in Nat /\ turn.end <= Len(screen.editors) /\ Len(screen.editors) \in Nat
  BY <1>1, WorkspaceFacts DEF ScreenInv, Turned, Viewed
<1>4. ClockRuns(screen, turn)'
  <2>1. CASE clock.started = TRUE
    BY <1>1, <2>1 DEF ClockRuns
  <2>2. CASE clock.started # TRUE
    <3>1. \A i \in DOMAIN screen.editors : HasView(screen.editors[i]) => ~(i <= turn.end)
      BY <2>2 DEF PictureInv, ClockRuns
    <3>2. ~(Len(screen.editors) + 1 <= turn.end)
      BY <1>3
    <3>3. \A i \in DOMAIN screen'.editors : HasView(screen'.editors[i]) => ~(i <= turn.end)
      BY <3>1, <3>2 DEF HasView
    <3>4. QED
      BY <1>2, <3>3 DEF ClockRuns
  <2>3. QED
    BY <2>1, <2>2
<1>5. lines' = <<>>
  BY <1>1 DEF PictureInv
<1>6. QED
  BY <1>4, <1>5, PicturesNext

LEMMA EndPictures ==
    ASSUME ScreenInv, PictureInv, EndEditor
    PROVE  PictureInv'
<1>1. turn.phase = "act" /\ turn.at <= turn.end
  BY DEF EndEditor, ScreenInv, Turned
<1>2. /\ turn.at \in DOMAIN screen.editors /\ turn.at \in Nat
      /\ Rendered = screen.editors[turn.at]
      /\ HasView(Rendered) => Rendered.id \in DOMAIN views
  BY <1>1, AtRendered DEF Rendered
<1>3. WorkspaceOK(screen, {NoDocument}) /\ Viewed(screen, views)
  BY DEF ScreenInv, Viewed
<1>4. CASE ToggleGrid
  <2>1. Same(screen, screen')
    BY <1>2, <1>3, <1>4, EndUpdateOK DEF ToggleGrid
  <2>2. Rendered.id \in DOMAIN views /\ Rendered.type = "scene"
    BY <1>2, <1>4 DEF ToggleGrid, HasView
  <2>3. PICK grid \in BOOLEAN : views' = [views EXCEPT ![Rendered.id] =
                                [views[Rendered.id] EXCEPT !.hasGrid = grid]]
    BY <1>4 DEF ToggleGrid
  <2>4. /\ DOMAIN views' = DOMAIN views
        /\ views'[Rendered.id] = [views[Rendered.id] EXCEPT !.hasGrid = grid]
        /\ \A k \in DOMAIN views : k # Rendered.id => views'[k] = views[k]
    BY <2>2, <2>3
  <2>5. views[Rendered.id] =
          [dimensions |-> views[Rendered.id].dimensions, buffer |-> views[Rendered.id].buffer,
           hasGrid |-> views[Rendered.id].hasGrid, picture |-> views[Rendered.id].picture]
    BY <1>3, <2>2 DEF Viewed, ViewOK
  <2>6. /\ views'[Rendered.id].buffer = views[Rendered.id].buffer
        /\ views'[Rendered.id].picture = views[Rendered.id].picture
        /\ views'[Rendered.id].hasGrid = grid
    BY <2>4, <2>5
  <2>7. \A k \in DOMAIN views' : PictureOK(k, views'[k])
    BY <2>2, <2>4, <2>6 DEF PictureInv, PictureOK
  <2>8. Gridless(screen', views')
    <3>1. \A i \in DOMAIN screen.editors : screen.editors[i].id = Rendered.id => i = turn.at
      BY <1>2, <1>3 DEF WorkspaceOK
    <3>2. QED
      BY <1>2, <2>1, <2>2, <2>4, <3>1 DEF PictureInv, Gridless, Same
  <2>9. QED
    BY <2>1, <2>7, <2>8, ActedPictures DEF Same
<1>5. ASSUME NEW type \in {"scene", "game"}, OpenView(type) PROVE PictureInv'
  <2> DEFINE new == CreateEditor(screen, type, NoDocument)
             end == Len(screen.editors) + 1
  <2>0. type \in EditorTypes /\ NoDocument \in {NoDocument}
    BY DEF EditorTypes
  <2>1. /\ WorkspaceOK(new, {NoDocument})
        /\ new.editors[end] = Editor(screen.next, type, NoDocument)
        /\ \A i \in DOMAIN screen.editors : new.editors[i] = screen.editors[i]
        /\ DOMAIN new.editors = DOMAIN screen.editors \cup {end}
    BY <1>3, <2>0, CreateOK
  <2>2. screen' = EndUpdate(new, turn.at, FALSE) /\ turn.at \in DOMAIN new.editors
    BY <1>2, <1>5, <2>1 DEF OpenView
  <2>3. views' = [id \in DOMAIN views \cup {screen.next} |->
                    IF id = screen.next THEN NewView(type) ELSE views[id]]
    BY <1>5 DEF OpenView
  <2>4. new.editors[end].id = screen.next /\ new.editors[end].type = type
    BY <2>1 DEF Editor
  <2> HIDE DEF new
  <2>5. Same(new, screen')
    BY <2>1, <2>2, EndUpdateOK
  <2>6. /\ screen.next \notin DOMAIN views
        /\ DOMAIN views' = DOMAIN views \cup {screen.next}
        /\ views'[screen.next] = NewView(type)
        /\ \A id \in DOMAIN views : views'[id] = views[id]
    <3>1. screen.next \in Nat
      BY <1>3, WorkspaceFacts
    <3>2. screen.next \notin DOMAIN views
      BY <1>3, <3>1 DEF Viewed
    <3>3. QED
      BY <2>3, <3>1, <3>2
  <2>7. PICK grid \in BOOLEAN : (grid <=> type = "scene") /\ NewView(type).hasGrid = grid
    BY DEF NewView
  <2>8. NewView(type).picture = NoPicture
    BY DEF NewView
  <2>9. PictureOK(screen.next, NewView(type))
    BY <2>7, <2>8 DEF PictureOK
  <2>10. \A k \in DOMAIN views' : PictureOK(k, views'[k])
    BY <2>6, <2>9 DEF PictureInv
  <2>11. \A i \in DOMAIN screen.editors : screen.editors[i].id # screen.next
    <3>1. \A i \in DOMAIN screen.editors : screen.editors[i].id < screen.next /\ screen.editors[i].id \in Nat
      BY <1>3, WorkspaceFacts
    <3>2. QED
      BY <1>3, <3>1, WorkspaceFacts
  <2>12. \A i \in DOMAIN new.editors :
           new.editors[i].type # "scene" /\ new.editors[i].id \in DOMAIN views'
             => views'[new.editors[i].id].hasGrid = FALSE
    <3>1. ASSUME NEW i \in DOMAIN screen.editors,
                 screen.editors[i].type # "scene", screen.editors[i].id \in DOMAIN views'
          PROVE  views'[screen.editors[i].id].hasGrid = FALSE
      BY <2>6, <2>11, <3>1 DEF PictureInv, Gridless
    <3>2. type # "scene" => views'[screen.next].hasGrid = FALSE
      BY <2>6, <2>7
    <3> HIDE DEF end
    <3>3. QED
      BY <2>1, <2>4, <3>1, <3>2
  <2>13. Gridless(screen', views')
    BY <2>5, <2>12 DEF Gridless, Same
  <2>14. \A i \in DOMAIN screen.editors :
           /\ screen'.editors[i].id = screen.editors[i].id
           /\ screen'.editors[i].type = screen.editors[i].type
    BY <2>1, <2>5 DEF Same
  <2>15. \A i \in DOMAIN screen'.editors : i \in DOMAIN screen.editors \/ i = end
    BY <2>1, <2>5 DEF Same
  <2>16. QED
    BY <2>10, <2>13, <2>14, <2>15, ActedPictures
<1>6. CASE CloseView \/ LeaveView
  <2>1. PICK left : /\ WorkspaceOK(left, {NoDocument}) /\ Same(screen, left)
                    /\ screen' = EndUpdate(left, turn.at, FALSE) /\ views' = views
    BY <1>3, <1>6, CloseOK, WorkspaceFacts DEF CloseView, LeaveView
  <2>2. turn.at \in DOMAIN left.editors
    BY <1>2, <2>1 DEF Same
  <2>3. Same(left, screen')
    BY <2>1, <2>2, EndUpdateOK
  <2>4. /\ DOMAIN screen'.editors = DOMAIN screen.editors
        /\ \A i \in DOMAIN screen.editors :
             /\ screen'.editors[i].id = screen.editors[i].id
             /\ screen'.editors[i].type = screen.editors[i].type
    BY <2>1, <2>3 DEF Same
  <2>5. \A k \in DOMAIN views' : PictureOK(k, views'[k])
    BY <2>1 DEF PictureInv
  <2>6. Gridless(screen', views')
    BY <2>1, <2>4 DEF PictureInv, Gridless
  <2>7. QED
    BY <2>4, <2>5, <2>6, ActedPictures
<1>7. QED
  BY <1>4, <1>5, <1>6 DEF EndEditor

\* Each picture shows what its view has to show, once and with all it needs bound:
\* whatever views share the device and the debug lines, for any meshes, grid and
\* size of the debug buffer.
THEOREM PicturesStayRight == RenderSpec => []PicturesRight
<1>1. RenderInit => ScreenInv /\ PictureInv
  BY ScreenInit, PictureInit
<1>2. ScreenInv /\ PictureInv /\ [RenderNext]_renderVars => (ScreenInv /\ PictureInv)'
  <2> SUFFICES ASSUME ScreenInv, PictureInv, [RenderNext]_renderVars
               PROVE  ScreenInv' /\ PictureInv'
    OBVIOUS
  <2>0. ScreenInv'
    BY ScreenSteps
  <2>1. CASE UNCHANGED renderVars
    <3>1. /\ \A id \in DOMAIN views' : PictureOK(id, views'[id])
          /\ Gridless(screen', views') /\ lines' = <<>>
      BY <2>1 DEF renderVars, PictureInv
    <3>2. ClockRuns(screen, turn)'
      BY <2>1 DEF renderVars, PictureInv, ClockRuns
    <3>3. QED
      BY <2>0, <3>1, <3>2, PicturesNext
  <2>2. CASE RenderNext
    BY <2>0, <2>2, EventsPictures, StartPictures, RenderPictures, ShowPictures, EndPictures DEF RenderNext
  <2>3. QED
    BY <2>1, <2>2
<1>3. PictureInv => PicturesRight
  BY DEF PictureInv, PictureOK, Pictured, PicturesRight
<1>4. QED
  BY <1>1, <1>2, <1>3, PTL DEF RenderSpec

-----------------------------------------------------------------------------
(***************************************************************************)
(* Assets.  The inductive invariant keeps the books of every asset, also   *)
(* while loads run inside each other: all of them but the innermost wait   *)
(* for what the next one loads, and ranks fall from one to the next, so    *)
(* that no two load the same asset.                                        *)
(***************************************************************************)
Rank == CHOOSE rank \in [AssetIds -> 0 .. Cardinality(AssetIds)] : Falls(rank)

Objects == [id : AssetIds, refs : Int, held : Seq(Nat)]
RunningLoads == [id : AssetIds, part : Nat, keeps : Seq(Nat), uses : Seq(Nat), made : Nat, leaving : BOOLEAN]

LoaderTypeOK ==
    /\ records \subseteq AssetIds
    /\ objects \in Seq(Objects)
    /\ assets \in Seq(DOMAIN objects)
    /\ holding \in [Clients -> Nat]
    /\ caller \in Clients \cup {Nothing}
    /\ loads \in Seq(RunningLoads)
    /\ scanned \in Nat

Account(n) ==
    /\ IsFiniteSet(ByClients(n)) /\ IsFiniteSet(ByAssets(n)) /\ IsFiniteSet(ByKeeps(n))
    /\ IsFiniteSet(ByUses(n)) /\ IsFiniteSet(ByMaking(n))
    /\ objects[n].refs = Holders(n)
AccountInv == \A n \in DOMAIN objects : Account(n)

InList == {assets[i] : i \in DOMAIN assets}
ListInv == \A i, j \in DOMAIN assets : assets[i] = assets[j] => i = j

HoldingInv == \A c \in Clients : holding[c] = 0 \/ holding[c] \in InList

HeldInv ==
    \A n \in DOMAIN objects : \A i \in DOMAIN objects[n].held :
       objects[n].held[i] \in InList /\ objects[objects[n].held[i]].id \in Keeps[objects[n].id]

PartsInv ==
    \A d \in DOMAIN loads :
       /\ \A i \in DOMAIN loads[d].keeps :
             loads[d].keeps[i] \in InList /\ objects[loads[d].keeps[i]].id \in Keeps[loads[d].id]
       /\ \A i \in DOMAIN loads[d].uses : loads[d].uses[i] \in InList

StackInv ==
    /\ caller = Nothing <=> loads = <<>>
    /\ loads # <<>> => scanned = 0 /\ holding[caller] = 0
    /\ \A d \in DOMAIN loads :
          /\ d < Len(loads) => Wanting(loads[d]) /\ loads[d + 1].id = Wanted(loads[d])
          /\ ~loads[d].leaving => loads[d].made = 0
          /\ loads[d].made # 0 =>
                /\ loads[d].made \in DOMAIN objects \ InList
                /\ objects[loads[d].made].id = loads[d].id
    /\ \A d, e \in DOMAIN loads : d < e => Rank[loads[e].id] < Rank[loads[d].id]

UniqueInv ==
    /\ \A i, j \in DOMAIN assets :
          objects[assets[i]].id = objects[assets[j]].id /\ objects[assets[i]].id \notin Named => i = j
    /\ \A d \in DOMAIN loads : Places(loads[d].id) = {}

LoaderInv ==
    /\ LoaderTypeOK /\ AccountInv /\ ListInv /\ HoldingInv /\ HeldInv /\ PartsInv
    /\ StackInv /\ UniqueInv

-----------------------------------------------------------------------------
(* Counting *)

\* T has d elements more than S.
Counts(S, T, d) ==
    /\ d \in Int
    /\ IsFiniteSet(S) => IsFiniteSet(T) /\ Cardinality(T) = Cardinality(S) + d

LEMMA CountsNone ==
    ASSUME NEW S PROVE Counts(S, S, 0)
<1>1. IsFiniteSet(S) => Cardinality(S) \in Nat
  BY FS_CardinalityType
<1>2. QED BY <1>1 DEF Counts

LEMMA CountsOne ==
    ASSUME NEW S, NEW x, x \notin S
    PROVE  Counts(S, S \cup {x}, 1) /\ Counts(S \cup {x}, S, -1)
<1>1. ASSUME IsFiniteSet(S)
      PROVE  /\ IsFiniteSet(S \cup {x}) /\ Cardinality(S) \in Nat
             /\ Cardinality(S \cup {x}) = Cardinality(S) + 1
  BY <1>1, FS_AddElement, FS_CardinalityType
<1>2. ASSUME IsFiniteSet(S \cup {x}) PROVE IsFiniteSet(S)
  <2>1. S \in SUBSET (S \cup {x})
    OBVIOUS
  <2>2. QED BY <1>2, <2>1, FS_Subset
<1>3. QED BY <1>1, <1>2 DEF Counts

LEMMA CountsSum ==
    ASSUME NEW S, NEW T, IsFiniteSet(T), S \cap T = {}
    PROVE  /\ Cardinality(T) \in Nat
           /\ Counts(S, S \cup T, Cardinality(T)) /\ Counts(S \cup T, S, -Cardinality(T))
<1>0. Cardinality(T) \in Nat
  BY FS_CardinalityType
<1>1. ASSUME IsFiniteSet(S)
      PROVE  /\ IsFiniteSet(S \cup T) /\ Cardinality(S) \in Nat
             /\ Cardinality(S \cup T) = Cardinality(S) + Cardinality(T)
  <2>1. Cardinality(S \cap T) = 0
    BY FS_EmptySet
  <2>2. Cardinality(S) \in Nat
    BY <1>1, FS_CardinalityType
  <2>3. /\ IsFiniteSet(S \cup T)
        /\ Cardinality(S \cup T) = Cardinality(S) + Cardinality(T) - Cardinality(S \cap T)
    BY <1>1, FS_Union
  <2>4. QED BY <1>0, <2>1, <2>2, <2>3
<1>2. ASSUME IsFiniteSet(S \cup T) PROVE IsFiniteSet(S)
  <2>1. S \in SUBSET (S \cup T)
    OBVIOUS
  <2>2. QED BY <1>2, <2>1, FS_Subset
<1>3. QED BY <1>0, <1>1, <1>2 DEF Counts

LEMMA OccurrencesAt ==
    ASSUME NEW rows, NEW n
    PROVE  \A p : p \in Occurrences(rows, n) <=>
                  \E m \in DOMAIN rows : \E i \in DOMAIN rows[m] : rows[m][i] = n /\ p = <<m, i>>
BY DEF Occurrences

\* A row that is empty holds nothing.
LEMMA RowAdded ==
    ASSUME NEW rows, NEW new, NEW r, r \notin DOMAIN rows, DOMAIN new = DOMAIN rows \cup {r},
           \A m \in DOMAIN rows : new[m] = rows[m], DOMAIN new[r] = {}
    PROVE  \A n : Occurrences(new, n) = Occurrences(rows, n)
<1> SUFFICES ASSUME NEW n PROVE Occurrences(new, n) = Occurrences(rows, n)
  OBVIOUS
<1>1. ASSUME NEW p PROVE p \in Occurrences(new, n) <=> p \in Occurrences(rows, n)
  BY OccurrencesAt
<1>2. QED BY <1>1

LEMMA RowLonger ==
    ASSUME NEW rows, NEW new, NEW r, r \in DOMAIN rows, DOMAIN new = DOMAIN rows,
           \A m \in DOMAIN rows : m # r => new[m] = rows[m],
           NEW i, i \notin DOMAIN rows[r], DOMAIN new[r] = DOMAIN rows[r] \cup {i},
           \A j \in DOMAIN rows[r] : new[r][j] = rows[r][j]
    PROVE  \A n : /\ n # new[r][i] => Occurrences(new, n) = Occurrences(rows, n)
                  /\ n = new[r][i] => /\ Counts(Occurrences(rows, n), Occurrences(new, n), 1)
                                      /\ Counts(Occurrences(new, n), Occurrences(rows, n), -1)
<1> SUFFICES ASSUME NEW n
             PROVE  /\ n # new[r][i] => Occurrences(new, n) = Occurrences(rows, n)
                    /\ n = new[r][i] => /\ Counts(Occurrences(rows, n), Occurrences(new, n), 1)
                                        /\ Counts(Occurrences(new, n), Occurrences(rows, n), -1)
  OBVIOUS
<1>1. CASE n # new[r][i]
  <2>1. ASSUME NEW p PROVE p \in Occurrences(new, n) <=> p \in Occurrences(rows, n)
    BY <1>1, OccurrencesAt
  <2>2. QED BY <1>1, <2>1
<1>2. CASE n = new[r][i]
  <2>1. ASSUME NEW p PROVE p \in Occurrences(new, n) <=> p \in Occurrences(rows, n) \cup {<<r, i>>}
    <3>1. p \in Occurrences(new, n) => p \in Occurrences(rows, n) \cup {<<r, i>>}
      BY OccurrencesAt
    <3>2. p \in Occurrences(rows, n) => p \in Occurrences(new, n)
      BY OccurrencesAt
    <3>3. p = <<r, i>> => p \in Occurrences(new, n)
      BY <1>2, OccurrencesAt
    <3>4. QED BY <3>1, <3>2, <3>3
  <2>2. Occurrences(new, n) = Occurrences(rows, n) \cup {<<r, i>>}
    BY <2>1
  <2>3. <<r, i>> \notin Occurrences(rows, n)
    BY OccurrencesAt
  <2>4. QED BY <1>2, <2>2, <2>3, CountsOne
<1>3. QED BY <1>1, <1>2

\* A row that moves from one family to another takes its handles along.
LEMMA RowMoved ==
    ASSUME NEW from, NEW left, NEW r, r \in DOMAIN from, DOMAIN left = DOMAIN from,
           \A m \in DOMAIN from : m # r => left[m] = from[m], DOMAIN left[r] = {},
           IsFiniteSet(DOMAIN from[r]),
           NEW to, NEW new, NEW q, q \notin DOMAIN to, DOMAIN new = DOMAIN to \cup {q},
           \A m \in DOMAIN to : new[m] = to[m], new[q] = from[r]
    PROVE  \A n : \E d \in Int :
              /\ Counts(Occurrences(from, n), Occurrences(left, n), -d)
              /\ Counts(Occurrences(to, n), Occurrences(new, n), d)
<1> SUFFICES ASSUME NEW n
             PROVE  \E d \in Int : /\ Counts(Occurrences(from, n), Occurrences(left, n), -d)
                                   /\ Counts(Occurrences(to, n), Occurrences(new, n), d)
  OBVIOUS
<1> DEFINE at == {i \in DOMAIN from[r] : from[r][i] = n}
           row(m) == {m} \X at
<1>1. at \in SUBSET DOMAIN from[r]
  OBVIOUS
<1>2. IsFiniteSet(at)
  BY <1>1, FS_Subset
<1>3. ASSUME NEW m
      PROVE  IsFiniteSet(row(m)) /\ Cardinality(row(m)) = Cardinality(at) /\ Cardinality(at) \in Nat
  <2>1. IsFiniteSet({m}) /\ Cardinality({m}) = 1
    BY FS_Singleton
  <2>2. IsFiniteSet({m} \X at) /\ Cardinality({m} \X at) = Cardinality({m}) * Cardinality(at)
    BY <1>2, <2>1, FS_Product
  <2>3. Cardinality(at) \in Nat
    BY <1>2, FS_CardinalityType
  <2>4. 1 * Cardinality(at) = Cardinality(at)
    BY <2>3
  <2>5. QED BY <2>1, <2>2, <2>3, <2>4
<1>4. Occurrences(from, n) = Occurrences(left, n) \cup row(r) /\ Occurrences(left, n) \cap row(r) = {}
  <2>1. ASSUME NEW p PROVE p \in Occurrences(from, n) <=> p \in Occurrences(left, n) \cup row(r)
    <3>1. p \in row(r) <=> \E i \in DOMAIN from[r] : from[r][i] = n /\ p = <<r, i>>
      OBVIOUS
    <3>2. p \in Occurrences(from, n) => p \in Occurrences(left, n) \/ p \in row(r)
      BY <3>1, OccurrencesAt
    <3>3. p \in Occurrences(left, n) => p \in Occurrences(from, n)
      BY OccurrencesAt
    <3>4. p \in row(r) => p \in Occurrences(from, n)
      BY <3>1, OccurrencesAt
    <3>5. QED BY <3>2, <3>3, <3>4
  <2>2. ASSUME NEW p, p \in Occurrences(left, n) PROVE p \notin row(r)
    BY <2>2, OccurrencesAt
  <2>3. QED BY <2>1, <2>2
<1>5. Occurrences(new, n) = Occurrences(to, n) \cup row(q) /\ Occurrences(to, n) \cap row(q) = {}
  <2>1. ASSUME NEW p PROVE p \in Occurrences(new, n) <=> p \in Occurrences(to, n) \cup row(q)
    <3>1. p \in row(q) <=> \E i \in DOMAIN new[q] : new[q][i] = n /\ p = <<q, i>>
      OBVIOUS
    <3>2. p \in Occurrences(new, n) => p \in Occurrences(to, n) \/ p \in row(q)
      BY <3>1, OccurrencesAt
    <3>3. p \in Occurrences(to, n) => p \in Occurrences(new, n)
      BY OccurrencesAt
    <3>4. p \in row(q) => p \in Occurrences(new, n)
      BY <3>1, OccurrencesAt
    <3>5. QED BY <3>2, <3>3, <3>4
  <2>2. ASSUME NEW p, p \in Occurrences(to, n) PROVE p \notin row(q)
    BY <2>2, OccurrencesAt
  <2>3. QED BY <2>1, <2>2
<1> HIDE DEF row, at
<1>6. Counts(Occurrences(from, n), Occurrences(left, n), -Cardinality(at))
  BY <1>3, <1>4, CountsSum
<1>7. Counts(Occurrences(to, n), Occurrences(new, n), Cardinality(at))
  BY <1>3, <1>5, CountsSum
<1>8. QED BY <1>3, <1>6, <1>7

LEMMA FrontLast ==
    ASSUME NEW s \in Seq(Nat), s # <<>>
    PROVE  /\ Front(s) \in Seq(Nat) /\ Last(s) \in Nat /\ Len(s) \in DOMAIN s /\ s[Len(s)] = Last(s)
           /\ Len(s) \notin DOMAIN Front(s) /\ DOMAIN s = DOMAIN Front(s) \cup {Len(s)}
           /\ \A j \in DOMAIN Front(s) : s[j] = Front(s)[j]
<1>1. Len(s) \in Nat \ {0} /\ DOMAIN s = 1 .. Len(s)
  BY EmptySeq, LenProperties
<1>2. Len(s) \in 1 .. Len(s) /\ Len(s) - 1 \in Nat /\ \A i \in 1 .. Len(s) - 1 : i \in 1 .. Len(s)
  BY <1>1
<1>3. \A i \in 1 .. Len(s) : s[i] \in Nat
  BY ElementOfSeq
<1>4. /\ Front(s) \in Seq(Nat) /\ Len(Front(s)) = Len(s) - 1
      /\ \A i \in 1 .. Len(s) - 1 : Front(s)[i] = s[i]
  <2>1. Front(s) = SubSeq(s, 1, Len(s) - 1)
    BY DEF Front
  <2>2. \A i \in 1 .. Len(s) - 1 : s[i] \in Nat
    BY <1>2, <1>3
  <2>3. /\ SubSeq(s, 1, Len(s) - 1) \in Seq(Nat)
        /\ Len(SubSeq(s, 1, Len(s) - 1)) = IF 1 <= Len(s) - 1 THEN Len(s) - 1 - 1 + 1 ELSE 0
        /\ \A i \in 1 .. (Len(s) - 1) - 1 + 1 : SubSeq(s, 1, Len(s) - 1)[i] = s[1 + i - 1]
    BY <1>1, <2>2, SubSeqProperties, 1 \in Int, Len(s) - 1 \in Int
  <2>4. QED BY <1>1, <2>1, <2>3
<1>5. DOMAIN Front(s) = 1 .. Len(s) - 1
  BY <1>4, LenProperties
<1>6. QED BY <1>1, <1>2, <1>3, <1>4, <1>5 DEF Last

LEMMA RowAppended ==
    ASSUME NEW rows, NEW new, NEW r, r \in DOMAIN rows, DOMAIN new = DOMAIN rows,
           \A m \in DOMAIN rows : m # r => new[m] = rows[m],
           rows[r] \in Seq(Nat), NEW x \in Nat, new[r] = Append(rows[r], x)
    PROVE  \A n : /\ n # x => Occurrences(new, n) = Occurrences(rows, n)
                  /\ n = x => Counts(Occurrences(rows, n), Occurrences(new, n), 1)
<1> DEFINE i == Len(rows[r]) + 1
<1>1. Len(rows[r]) \in Nat /\ DOMAIN rows[r] = 1 .. Len(rows[r])
  BY LenProperties
<1>2. /\ new[r] \in Seq(Nat) /\ Len(new[r]) = i /\ new[r][i] = x
      /\ \A j \in 1 .. Len(rows[r]) : new[r][j] = rows[r][j]
  BY AppendProperties
<1>3. DOMAIN new[r] = 1 .. i
  BY <1>2, LenProperties
<1>4. i \notin DOMAIN rows[r] /\ DOMAIN new[r] = DOMAIN rows[r] \cup {i}
  BY <1>1, <1>3
<1> HIDE DEF i
<1>5. \A n : /\ n # new[r][i] => Occurrences(new, n) = Occurrences(rows, n)
             /\ n = new[r][i] => /\ Counts(Occurrences(rows, n), Occurrences(new, n), 1)
                                 /\ Counts(Occurrences(new, n), Occurrences(rows, n), -1)
  BY <1>1, <1>2, <1>4, RowLonger
<1>6. QED BY <1>2, <1>5

LEMMA RowShorter ==
    ASSUME NEW rows, NEW new, NEW r, r \in DOMAIN rows, DOMAIN new = DOMAIN rows,
           \A m \in DOMAIN rows : m # r => new[m] = rows[m],
           rows[r] \in Seq(Nat), rows[r] # <<>>, new[r] = Front(rows[r])
    PROVE  \A n : /\ n # Last(rows[r]) => Occurrences(new, n) = Occurrences(rows, n)
                  /\ n = Last(rows[r]) => Counts(Occurrences(rows, n), Occurrences(new, n), -1)
<1> DEFINE i == Len(rows[r])
<1> HIDE DEF i
<1>1. /\ rows[r][i] = Last(rows[r]) /\ i \notin DOMAIN new[r]
      /\ DOMAIN rows[r] = DOMAIN new[r] \cup {i}
      /\ \A j \in DOMAIN new[r] : rows[r][j] = new[r][j]
  <2>1. PICK s \in Seq(Nat) : s = rows[r]
    OBVIOUS
  <2>2. /\ s[Len(s)] = Last(s) /\ Len(s) \notin DOMAIN Front(s)
        /\ DOMAIN s = DOMAIN Front(s) \cup {Len(s)}
        /\ \A j \in DOMAIN Front(s) : s[j] = Front(s)[j]
    BY <2>1, FrontLast
  <2>3. new[r] = Front(s) /\ i = Len(s)
    BY <2>1 DEF i
  <2>4. QED BY <2>1, <2>2, <2>3
<1>2. \A n : /\ n # rows[r][i] => Occurrences(rows, n) = Occurrences(new, n)
             /\ n = rows[r][i] => /\ Counts(Occurrences(new, n), Occurrences(rows, n), 1)
                                  /\ Counts(Occurrences(rows, n), Occurrences(new, n), -1)
  BY <1>1, RowLonger
<1>3. QED BY <1>1, <1>2

\* An asset's books after a step.
LEMMA Balance ==
    ASSUME NEW n, Account(n), NEW a, NEW b, NEW c, NEW d, NEW e,
           Counts(ByClients(n), ByClients(n)', a), Counts(ByAssets(n), ByAssets(n)', b),
           Counts(ByKeeps(n), ByKeeps(n)', c), Counts(ByUses(n), ByUses(n)', d),
           Counts(ByMaking(n), ByMaking(n)', e),
           objects'[n].refs = objects[n].refs + a + b + c + d + e
    PROVE  Account(n)'
<1>1. /\ Cardinality(ByClients(n)) \in Nat /\ Cardinality(ByAssets(n)) \in Nat
      /\ Cardinality(ByKeeps(n)) \in Nat /\ Cardinality(ByUses(n)) \in Nat
      /\ Cardinality(ByMaking(n)) \in Nat
  BY FS_CardinalityType DEF Account
<1>2. /\ a \in Int /\ b \in Int /\ c \in Int /\ d \in Int /\ e \in Int
      /\ IsFiniteSet(ByClients(n)') /\ Cardinality(ByClients(n)') = Cardinality(ByClients(n)) + a
      /\ IsFiniteSet(ByAssets(n)') /\ Cardinality(ByAssets(n)') = Cardinality(ByAssets(n)) + b
      /\ IsFiniteSet(ByKeeps(n)') /\ Cardinality(ByKeeps(n)') = Cardinality(ByKeeps(n)) + c
      /\ IsFiniteSet(ByUses(n)') /\ Cardinality(ByUses(n)') = Cardinality(ByUses(n)) + d
      /\ IsFiniteSet(ByMaking(n)') /\ Cardinality(ByMaking(n)') = Cardinality(ByMaking(n)) + e
  BY DEF Account, Counts
<1>3. objects[n].refs = Cardinality(ByClients(n)) + Cardinality(ByAssets(n)) + Cardinality(ByKeeps(n))
        + Cardinality(ByUses(n)) + Cardinality(ByMaking(n))
  BY DEF Account, Holders
<1>4. Holders(n)' = Cardinality(ByClients(n)') + Cardinality(ByAssets(n)') + Cardinality(ByKeeps(n)')
        + Cardinality(ByUses(n)') + Cardinality(ByMaking(n)')
  BY DEF Holders
<1> HIDE DEF ByClients, ByAssets, ByKeeps, ByUses, ByMaking
<1>5. objects'[n].refs = Holders(n)'
  BY <1>1, <1>2, <1>3, <1>4
<1>6. QED BY <1>2, <1>5 DEF Account

-----------------------------------------------------------------------------
(* What a state of the loader consists of *)

LEMMA LoaderFacts ==
    ASSUME LoaderTypeOK
    PROVE  /\ Len(objects) \in Nat /\ DOMAIN objects = 1 .. Len(objects)
           /\ \A n \in DOMAIN objects :
                 /\ objects[n] \in Objects /\ objects[n].id \in AssetIds
                 /\ objects[n].refs \in Int /\ objects[n].held \in Seq(Nat)
           /\ Len(assets) \in Nat /\ DOMAIN assets = 1 .. Len(assets)
           /\ \A i \in DOMAIN assets : assets[i] \in DOMAIN objects
           /\ Len(loads) \in Nat /\ DOMAIN loads = 1 .. Len(loads)
           /\ \A d \in DOMAIN loads :
                 /\ loads[d] \in RunningLoads /\ loads[d].id \in AssetIds /\ loads[d].part \in Nat
                 /\ loads[d].keeps \in Seq(Nat) /\ loads[d].uses \in Seq(Nat)
                 /\ loads[d].made \in Nat /\ loads[d].leaving \in BOOLEAN
<1>1. /\ Len(objects) \in Nat /\ DOMAIN objects = 1 .. Len(objects)
      /\ \A n \in DOMAIN objects : objects[n] \in Objects
  BY LenProperties, ElementOfSeq DEF LoaderTypeOK
<1>2. /\ Len(assets) \in Nat /\ DOMAIN assets = 1 .. Len(assets)
      /\ \A i \in DOMAIN assets : assets[i] \in DOMAIN objects
  BY LenProperties, ElementOfSeq DEF LoaderTypeOK
<1>3. /\ Len(loads) \in Nat /\ DOMAIN loads = 1 .. Len(loads)
      /\ \A d \in DOMAIN loads : loads[d] \in RunningLoads
  BY LenProperties, ElementOfSeq DEF LoaderTypeOK
<1>4. QED BY <1>1, <1>2, <1>3 DEF Objects, RunningLoads

LEMMA TopFacts ==
    ASSUME LoaderTypeOK, Running
    PROVE  Len(loads) \in DOMAIN loads /\ Top = loads[Len(loads)] /\ Len(loads) > 0
<1>1. loads \in Seq(RunningLoads) /\ loads # <<>>
  BY DEF LoaderTypeOK, Running
<1>2. Len(loads) \in Nat \ {0}
  BY <1>1, EmptySeq
<1>3. QED BY <1>2, LoaderFacts DEF Top

LEMMA RankFalls ==
    /\ \A id \in AssetIds : Loads[id] \in Seq(AssetIds) /\ Rank[id] \in Int
    /\ \A id \in AssetIds : \A i \in DOMAIN Loads[id] :
          Loads[id][i] \in AssetIds /\ Rank[Loads[id][i]] < Rank[id]
<1>1. Rank \in [AssetIds -> 0 .. Cardinality(AssetIds)] /\ Falls(Rank)
  BY LoaderAssumption DEF Rank
<1>2. \A id \in AssetIds : Loads[id] \in Seq(AssetIds)
  BY LoaderAssumption
<1>3. \A id \in AssetIds : \A i \in DOMAIN Loads[id] : Loads[id][i] \in AssetIds
  BY <1>2, LenProperties, ElementOfSeq
<1>4. \A id \in AssetIds : Rank[id] \in 0 .. Cardinality(AssetIds)
  BY <1>1
<1>5. \A id \in AssetIds : Rank[id] \in Int
  BY <1>4
<1>6. QED BY <1>1, <1>2, <1>3, <1>5 DEF Falls

LEMMA FindFacts ==
    ASSUME LoaderTypeOK, NEW id \in AssetIds
    PROVE  /\ \A n \in Find(id) : n \in InList /\ n \in DOMAIN objects /\ objects[n].id = id
           /\ Find(id) = {} => Places(id) = {}
<1>1. \A i \in Places(id) : i \in DOMAIN assets /\ objects[assets[i]].id = id
  BY LoaderAssumption DEF Places, FoundBy
<1>2. ASSUME NEW n \in Find(id) PROVE n \in InList /\ n \in DOMAIN objects /\ objects[n].id = id
  BY <1>1, LoaderFacts DEF Find, InList
<1>3. ASSUME Places(id) # {} PROVE Find(id) # {}
  <2>1. Places(id) \subseteq Nat
    BY <1>1, LoaderFacts
  <2>2. PICK i \in Places(id) : \A j \in Places(id) : i <= j
    BY <1>3, <2>1, LeastNumber
  <2>3. assets[i] \in Find(id)
    BY <2>2 DEF Find
  <2>4. QED BY <2>3
<1>4. QED BY <1>2, <1>3

LEMMA NoneBooked ==
    ASSUME LoaderInv, NEW n \in DOMAIN objects, objects[n].refs = 0
    PROVE  /\ ByClients(n) = {} /\ ByAssets(n) = {} /\ ByKeeps(n) = {}
           /\ ByUses(n) = {} /\ ByMaking(n) = {}
<1>1. Account(n)
  BY DEF LoaderInv, AccountInv
<1> DEFINE a == Cardinality(ByClients(n))
           b == Cardinality(ByAssets(n))
           c == Cardinality(ByKeeps(n))
           d == Cardinality(ByUses(n))
           e == Cardinality(ByMaking(n))
<1>2. a \in Nat /\ b \in Nat /\ c \in Nat /\ d \in Nat /\ e \in Nat
  BY <1>1, FS_CardinalityType DEF Account
<1>3. a + b + c + d + e = 0
  BY <1>1 DEF Account, Holders
<1>4. /\ a = 0 <=> ByClients(n) = {}
      /\ b = 0 <=> ByAssets(n) = {}
      /\ c = 0 <=> ByKeeps(n) = {}
      /\ d = 0 <=> ByUses(n) = {}
      /\ e = 0 <=> ByMaking(n) = {}
  BY <1>1, FS_EmptySet DEF Account
<1> HIDE DEF a, b, c, d, e
<1>5. a = 0 /\ b = 0 /\ c = 0 /\ d = 0 /\ e = 0
  BY <1>2, <1>3
<1>6. QED BY <1>4, <1>5

-----------------------------------------------------------------------------
(* What a step does to the counts and to the places that have handles *)

Counted(x, d) ==
    /\ objects' \in Seq(Objects)
    /\ DOMAIN objects' = DOMAIN objects
    /\ \A m \in DOMAIN objects :
          /\ objects'[m].id = objects[m].id
          /\ m # x => objects'[m].refs = objects[m].refs
          /\ m = x => objects'[m].refs = objects[m].refs + d

SameHeld == \A m \in DOMAIN objects : objects'[m].held = objects[m].held

LEMMA RefsStep ==
    ASSUME LoaderTypeOK, NEW x \in DOMAIN objects
    PROVE  /\ objects' = AddRef(objects, x) => Counted(x, 1) /\ SameHeld
           /\ objects' = RemoveRef(objects, x) => Counted(x, -1) /\ SameHeld
<1>1. /\ objects \in Seq(Objects) /\ objects[x] \in Objects /\ objects[x].refs \in Int
      /\ x \in 1 .. Len(objects) /\ DOMAIN objects = 1 .. Len(objects) /\ Len(objects) \in Nat
  BY LoaderFacts DEF LoaderTypeOK
<1>2. ASSUME NEW d \in Int, objects' = [objects EXCEPT ![x].refs = @ + d]
      PROVE  Counted(x, d) /\ SameHeld
  <2> DEFINE new == [objects[x] EXCEPT !.refs = @ + d]
  <2>0. objects[x].refs + d \in Int
    BY <1>1
  <2>1. new \in Objects /\ new.refs = objects[x].refs + d /\ new.id = objects[x].id /\ new.held = objects[x].held
    BY <1>1, <2>0 DEF Objects
  <2>2. objects' = [objects EXCEPT ![x] = new]
    BY <1>2
  <2> HIDE DEF new
  <2>3. objects' \in Seq(Objects) /\ DOMAIN objects' = DOMAIN objects
    BY <1>1, <2>1, <2>2, ExceptSeq
  <2>4. \A m \in DOMAIN objects : objects'[m] = IF m = x THEN new ELSE objects[m]
    BY <2>2
  <2>5. QED BY <2>1, <2>3, <2>4 DEF Counted, SameHeld
<1>3. objects' = AddRef(objects, x) => objects' = [objects EXCEPT ![x].refs = @ + 1]
  BY DEF AddRef
<1>4. objects' = RemoveRef(objects, x) => objects' = [objects EXCEPT ![x].refs = @ + (-1)]
  <2>1. objects[x].refs - 1 = objects[x].refs + (-1)
    BY <1>1
  <2>2. QED BY <2>1 DEF RemoveRef
<1>5. QED BY <1>2, <1>3, <1>4, 1 \in Int, -1 \in Int

LEMMA AssetsSame ==
    ASSUME DOMAIN objects' = DOMAIN objects, SameHeld
    PROVE  \A n : ByAssets(n)' = ByAssets(n)
<1>1. [m \in DOMAIN objects' |-> objects'[m].held] = [m \in DOMAIN objects |-> objects[m].held]
  BY DEF SameHeld
<1>2. QED BY <1>1 DEF ByAssets

\* The loads are the same but for what changes in the innermost one.
LoadsBut == DOMAIN loads' = DOMAIN loads /\ \A d \in DOMAIN loads : d # Len(loads) => loads'[d] = loads[d]

LEMMA KeepsSame ==
    ASSUME DOMAIN loads' = DOMAIN loads, \A d \in DOMAIN loads : loads'[d].keeps = loads[d].keeps
    PROVE  \A n : ByKeeps(n)' = ByKeeps(n)
<1>1. [d \in DOMAIN loads' |-> loads'[d].keeps] = [d \in DOMAIN loads |-> loads[d].keeps]
  OBVIOUS
<1>2. QED BY <1>1 DEF ByKeeps

LEMMA UsesSame ==
    ASSUME DOMAIN loads' = DOMAIN loads, \A d \in DOMAIN loads : loads'[d].uses = loads[d].uses
    PROVE  \A n : ByUses(n)' = ByUses(n)
<1>1. [d \in DOMAIN loads' |-> loads'[d].uses] = [d \in DOMAIN loads |-> loads[d].uses]
  OBVIOUS
<1>2. QED BY <1>1 DEF ByUses

LEMMA MakingSame ==
    ASSUME DOMAIN loads' = DOMAIN loads, \A d \in DOMAIN loads : loads'[d].made = loads[d].made
    PROVE  \A n : ByMaking(n)' = ByMaking(n)
BY DEF ByMaking

LEMMA KeepsLonger ==
    ASSUME LoaderTypeOK, Running, LoadsBut, NEW x \in Nat,
           loads'[Len(loads)].keeps = Append(loads[Len(loads)].keeps, x)
    PROVE  \A n : /\ n # x => ByKeeps(n)' = ByKeeps(n)
                  /\ n = x => Counts(ByKeeps(n), ByKeeps(n)', 1)
<1> DEFINE rows == [d \in DOMAIN loads |-> loads[d].keeps]
           new == [d \in DOMAIN loads' |-> loads'[d].keeps]
<1>1. /\ Len(loads) \in DOMAIN rows /\ DOMAIN new = DOMAIN rows
      /\ \A d \in DOMAIN rows : d # Len(loads) => new[d] = rows[d]
      /\ rows[Len(loads)] \in Seq(Nat) /\ new[Len(loads)] = Append(rows[Len(loads)], x)
  BY TopFacts, LoaderFacts DEF LoadsBut
<1> HIDE DEF rows, new
<1>2. \A n : /\ n # x => Occurrences(new, n) = Occurrences(rows, n)
             /\ n = x => Counts(Occurrences(rows, n), Occurrences(new, n), 1)
  BY <1>1, RowAppended
<1>3. \A n : ByKeeps(n) = Occurrences(rows, n) /\ ByKeeps(n)' = Occurrences(new, n)
  BY DEF ByKeeps, rows, new
<1>4. QED BY <1>2, <1>3

LEMMA UsesLonger ==
    ASSUME LoaderTypeOK, Running, LoadsBut, NEW x \in Nat,
           loads'[Len(loads)].uses = Append(loads[Len(loads)].uses, x)
    PROVE  \A n : /\ n # x => ByUses(n)' = ByUses(n)
                  /\ n = x => Counts(ByUses(n), ByUses(n)', 1)
<1> DEFINE rows == [d \in DOMAIN loads |-> loads[d].uses]
           new == [d \in DOMAIN loads' |-> loads'[d].uses]
<1>1. /\ Len(loads) \in DOMAIN rows /\ DOMAIN new = DOMAIN rows
      /\ \A d \in DOMAIN rows : d # Len(loads) => new[d] = rows[d]
      /\ rows[Len(loads)] \in Seq(Nat) /\ new[Len(loads)] = Append(rows[Len(loads)], x)
  BY TopFacts, LoaderFacts DEF LoadsBut
<1> HIDE DEF rows, new
<1>2. \A n : /\ n # x => Occurrences(new, n) = Occurrences(rows, n)
             /\ n = x => Counts(Occurrences(rows, n), Occurrences(new, n), 1)
  BY <1>1, RowAppended
<1>3. \A n : ByUses(n) = Occurrences(rows, n) /\ ByUses(n)' = Occurrences(new, n)
  BY DEF ByUses, rows, new
<1>4. QED BY <1>2, <1>3

LEMMA KeepsShorter ==
    ASSUME LoaderTypeOK, Running, LoadsBut, loads[Len(loads)].keeps # <<>>,
           loads'[Len(loads)].keeps = Front(loads[Len(loads)].keeps)
    PROVE  \A n : /\ n # Last(loads[Len(loads)].keeps) => ByKeeps(n)' = ByKeeps(n)
                  /\ n = Last(loads[Len(loads)].keeps) => Counts(ByKeeps(n), ByKeeps(n)', -1)
<1> DEFINE rows == [d \in DOMAIN loads |-> loads[d].keeps]
           new == [d \in DOMAIN loads' |-> loads'[d].keeps]
<1>1. /\ Len(loads) \in DOMAIN rows /\ DOMAIN new = DOMAIN rows
      /\ \A d \in DOMAIN rows : d # Len(loads) => new[d] = rows[d]
      /\ rows[Len(loads)] \in Seq(Nat) /\ rows[Len(loads)] # <<>>
      /\ new[Len(loads)] = Front(rows[Len(loads)])
      /\ rows[Len(loads)] = loads[Len(loads)].keeps
  BY TopFacts, LoaderFacts DEF LoadsBut
<1> HIDE DEF rows, new
<1>2. \A n : /\ n # Last(rows[Len(loads)]) => Occurrences(new, n) = Occurrences(rows, n)
             /\ n = Last(rows[Len(loads)]) => Counts(Occurrences(rows, n), Occurrences(new, n), -1)
  BY <1>1, RowShorter
<1>3. \A n : ByKeeps(n) = Occurrences(rows, n) /\ ByKeeps(n)' = Occurrences(new, n)
  BY DEF ByKeeps, rows, new
<1>4. QED BY <1>1, <1>2, <1>3

LEMMA UsesShorter ==
    ASSUME LoaderTypeOK, Running, LoadsBut, loads[Len(loads)].uses # <<>>,
           loads'[Len(loads)].uses = Front(loads[Len(loads)].uses)
    PROVE  \A n : /\ n # Last(loads[Len(loads)].uses) => ByUses(n)' = ByUses(n)
                  /\ n = Last(loads[Len(loads)].uses) => Counts(ByUses(n), ByUses(n)', -1)
<1> DEFINE rows == [d \in DOMAIN loads |-> loads[d].uses]
           new == [d \in DOMAIN loads' |-> loads'[d].uses]
<1>1. /\ Len(loads) \in DOMAIN rows /\ DOMAIN new = DOMAIN rows
      /\ \A d \in DOMAIN rows : d # Len(loads) => new[d] = rows[d]
      /\ rows[Len(loads)] \in Seq(Nat) /\ rows[Len(loads)] # <<>>
      /\ new[Len(loads)] = Front(rows[Len(loads)])
      /\ rows[Len(loads)] = loads[Len(loads)].uses
  BY TopFacts, LoaderFacts DEF LoadsBut
<1> HIDE DEF rows, new
<1>2. \A n : /\ n # Last(rows[Len(loads)]) => Occurrences(new, n) = Occurrences(rows, n)
             /\ n = Last(rows[Len(loads)]) => Counts(Occurrences(rows, n), Occurrences(new, n), -1)
  BY <1>1, RowShorter
<1>3. \A n : ByUses(n) = Occurrences(rows, n) /\ ByUses(n)' = Occurrences(new, n)
  BY DEF ByUses, rows, new
<1>4. QED BY <1>1, <1>2, <1>3

LEMMA OneBooked ==
    ASSUME AccountInv, NEW x \in DOMAIN objects, NEW k, Counted(x, k),
           \A n \in DOMAIN objects : n # x =>
              /\ ByClients(n)' = ByClients(n) /\ ByAssets(n)' = ByAssets(n) /\ ByKeeps(n)' = ByKeeps(n)
              /\ ByUses(n)' = ByUses(n) /\ ByMaking(n)' = ByMaking(n),
           NEW a, NEW b, NEW c, NEW d, NEW e, objects'[x].refs = objects[x].refs + a + b + c + d + e,
           Counts(ByClients(x), ByClients(x)', a), Counts(ByAssets(x), ByAssets(x)', b),
           Counts(ByKeeps(x), ByKeeps(x)', c), Counts(ByUses(x), ByUses(x)', d),
           Counts(ByMaking(x), ByMaking(x)', e)
    PROVE  AccountInv'
<1>1. Account(x)'
  BY Balance DEF AccountInv
<1>2. ASSUME NEW n \in DOMAIN objects, n # x PROVE Account(n)'
  <2>1. objects'[n].refs = objects[n].refs /\ Account(n)
    BY <1>2 DEF Counted, AccountInv
  <2>2. Holders(n)' = Holders(n)
    BY <1>2 DEF Holders
  <2>3. QED BY <1>2, <2>1, <2>2 DEF Account
<1>3. QED BY <1>1, <1>2 DEF AccountInv, Counted

\* Where the list and the ids stay, so does what is found.
LEMMA ListSame ==
    ASSUME LoaderInv, UNCHANGED assets, DOMAIN objects \subseteq DOMAIN objects',
           \A m \in DOMAIN objects : objects'[m].id = objects[m].id
    PROVE  /\ ListInv' /\ InList' = InList
           /\ \A id : Places(id)' = Places(id)
           /\ \A i, j \in DOMAIN assets' :
                 objects'[assets'[i]].id = objects'[assets'[j]].id /\ objects'[assets'[i]].id \notin Named => i = j
<1>1. \A i \in DOMAIN assets : objects'[assets[i]].id = objects[assets[i]].id
  BY LoaderFacts DEF LoaderInv
<1>2. \A id : Places(id)' = Places(id)
  BY <1>1 DEF Places
<1>3. ListInv' /\ InList' = InList
  BY DEF ListInv, InList, LoaderInv
<1>4. QED BY <1>1, <1>2, <1>3 DEF LoaderInv, UniqueInv

LEMMA HeldSame ==
    ASSUME LoaderInv, UNCHANGED assets, DOMAIN objects' = DOMAIN objects, SameHeld,
           \A m \in DOMAIN objects : objects'[m].id = objects[m].id
    PROVE  HeldInv'
<1>1. \A n : n \in InList => n \in DOMAIN objects
  BY LoaderFacts DEF LoaderInv, InList
<1>2. InList' = InList
  BY DEF InList
<1>3. HeldInv
  BY DEF LoaderInv
<1>4. QED BY <1>1, <1>2, <1>3 DEF HeldInv, SameHeld

LEMMA HandleTaken ==
    ASSUME LoaderInv, NoCall, NEW c \in Clients, holding[c] = 0, NEW n, n \in InList,
           objects' = AddRef(objects, n), holding' = [holding EXCEPT ![c] = n],
           UNCHANGED <<records, assets, caller, loads, scanned>>
    PROVE  LoaderInv'
<1>1. n \in DOMAIN objects /\ n \in Nat /\ n # 0
  BY LoaderFacts DEF LoaderInv, InList
<1>2. Counted(n, 1) /\ SameHeld
  BY <1>1, RefsStep DEF LoaderInv
<1>3. holding \in [Clients -> Nat] /\ \A m : m # 0 /\ m # n => (ByClients(m)' = ByClients(m))
  BY DEF LoaderInv, LoaderTypeOK, ByClients
<1>4. LoaderTypeOK'
  BY <1>1, <1>2 DEF LoaderInv, LoaderTypeOK, Counted
<1>5. AccountInv'
  <2>1. Counts(ByClients(n), ByClients(n)', 1)
    <3>1. c \notin ByClients(n) /\ ByClients(n)' = ByClients(n) \cup {c}
      BY <1>1, <1>3 DEF ByClients
    <3>2. QED BY <3>1, CountsOne
  <2>2. \A m : /\ ByAssets(m)' = ByAssets(m) /\ ByKeeps(m)' = ByKeeps(m)
               /\ ByUses(m)' = ByUses(m) /\ ByMaking(m)' = ByMaking(m)
    BY <1>2, AssetsSame, KeepsSame, UsesSame, MakingSame DEF Counted
  <2>3. /\ Counts(ByAssets(n), ByAssets(n)', 0) /\ Counts(ByKeeps(n), ByKeeps(n)', 0)
        /\ Counts(ByUses(n), ByUses(n)', 0) /\ Counts(ByMaking(n), ByMaking(n)', 0)
    BY <2>2, CountsNone
  <2>4. objects[n].refs \in Int /\ objects'[n].refs = objects[n].refs + 1
    BY <1>1, <1>2, LoaderFacts DEF Counted, LoaderInv
  <2>5. objects'[n].refs = objects[n].refs + 1 + 0 + 0 + 0 + 0
    BY <2>4
  <2>6. \A m \in DOMAIN objects : m # 0
    BY LoaderFacts DEF LoaderInv
  <2>7. \A m \in DOMAIN objects : m # n =>
           /\ ByClients(m)' = ByClients(m) /\ ByAssets(m)' = ByAssets(m) /\ ByKeeps(m)' = ByKeeps(m)
           /\ ByUses(m)' = ByUses(m) /\ ByMaking(m)' = ByMaking(m)
    BY <1>3, <2>2, <2>6
  <2>8. AccountInv
    BY DEF LoaderInv
  <2>9. QED BY <1>1, <1>2, <2>1, <2>3, <2>5, <2>7, <2>8, OneBooked
<1>6. /\ ListInv' /\ InList' = InList
      /\ UniqueInv'
  BY <1>2, ListSame DEF Counted, LoaderInv, UniqueInv
<1>7. HoldingInv' /\ HeldInv' /\ PartsInv'
  <2>1. HoldingInv'
    BY <1>3, <1>6 DEF LoaderInv, HoldingInv
  <2>2. HeldInv'
    BY <1>2, HeldSame DEF Counted
  <2>3. loads' = <<>>
    BY DEF NoCall, Running
  <2>4. QED BY <2>1, <2>2, <2>3 DEF PartsInv
<1>8. StackInv'
  BY DEF LoaderInv, StackInv, NoCall, Running
<1>9. QED BY <1>4, <1>5, <1>6, <1>7, <1>8 DEF LoaderInv

LEMMA HandleDropped ==
    ASSUME LoaderInv, NoCall, NEW c \in Clients, holding[c] # 0,
           objects' = RemoveRef(objects, holding[c]), holding' = [holding EXCEPT ![c] = 0],
           UNCHANGED <<records, assets, caller, loads, scanned>>
    PROVE  LoaderInv'
<1>1. PICK n : n = holding[c]
  OBVIOUS
<1>2. n \in InList /\ n \in DOMAIN objects /\ n \in Nat /\ n # 0
  BY <1>1, LoaderFacts DEF LoaderInv, InList, HoldingInv
<1>3. Counted(n, -1) /\ SameHeld
  BY <1>1, <1>2, RefsStep DEF LoaderInv
<1>4. holding \in [Clients -> Nat] /\ \A m : m # 0 /\ m # n => (ByClients(m)' = ByClients(m))
  BY <1>1 DEF LoaderInv, LoaderTypeOK, ByClients
<1>5. LoaderTypeOK'
  BY <1>3 DEF LoaderInv, LoaderTypeOK, Counted
<1>6. AccountInv'
  <2>1. Counts(ByClients(n), ByClients(n)', -1)
    <3>1. c \notin ByClients(n)' /\ ByClients(n) = ByClients(n)' \cup {c}
      BY <1>1, <1>2, <1>4 DEF ByClients
    <3>2. QED BY <3>1, CountsOne
  <2>2. \A m : /\ ByAssets(m)' = ByAssets(m) /\ ByKeeps(m)' = ByKeeps(m)
               /\ ByUses(m)' = ByUses(m) /\ ByMaking(m)' = ByMaking(m)
    BY <1>3, AssetsSame, KeepsSame, UsesSame, MakingSame DEF Counted
  <2>3. /\ Counts(ByAssets(n), ByAssets(n)', 0) /\ Counts(ByKeeps(n), ByKeeps(n)', 0)
        /\ Counts(ByUses(n), ByUses(n)', 0) /\ Counts(ByMaking(n), ByMaking(n)', 0)
    BY <2>2, CountsNone
  <2>4. objects[n].refs \in Int /\ objects'[n].refs = objects[n].refs + (-1)
    BY <1>2, <1>3, LoaderFacts DEF Counted, LoaderInv
  <2>5. objects'[n].refs = objects[n].refs + (-1) + 0 + 0 + 0 + 0
    BY <2>4
  <2>6. \A m \in DOMAIN objects : m # 0
    BY LoaderFacts DEF LoaderInv
  <2>7. \A m \in DOMAIN objects : m # n =>
           /\ ByClients(m)' = ByClients(m) /\ ByAssets(m)' = ByAssets(m) /\ ByKeeps(m)' = ByKeeps(m)
           /\ ByUses(m)' = ByUses(m) /\ ByMaking(m)' = ByMaking(m)
    BY <1>4, <2>2, <2>6
  <2>8. AccountInv
    BY DEF LoaderInv
  <2>9. QED BY <1>2, <1>3, <2>1, <2>3, <2>5, <2>7, <2>8, OneBooked
<1>7. /\ ListInv' /\ InList' = InList
      /\ UniqueInv'
  BY <1>3, ListSame DEF Counted, LoaderInv, UniqueInv
<1>8. HoldingInv' /\ HeldInv' /\ PartsInv'
  <2>1. HoldingInv'
    BY <1>4, <1>7 DEF LoaderInv, HoldingInv
  <2>2. HeldInv'
    BY <1>3, HeldSame DEF Counted
  <2>3. loads' = <<>>
    BY DEF NoCall, Running
  <2>4. QED BY <2>1, <2>2, <2>3 DEF PartsInv
<1>9. StackInv'
  BY DEF LoaderInv, StackInv, NoCall, Running
<1>10. QED BY <1>5, <1>6, <1>7, <1>8, <1>9 DEF LoaderInv

-----------------------------------------------------------------------------
(* The steps of a load *)

LEMMA BooksSame ==
    ASSUME LoaderInv, UNCHANGED <<objects, holding>>,
           \A n \in DOMAIN objects :
              ByKeeps(n)' = ByKeeps(n) /\ ByUses(n)' = ByUses(n) /\ ByMaking(n)' = ByMaking(n)
    PROVE  AccountInv'
<1>1. \A n : ByClients(n)' = ByClients(n) /\ ByAssets(n)' = ByAssets(n)
  BY DEF ByClients, ByAssets
<1>2. ASSUME NEW n \in DOMAIN objects PROVE Account(n)'
  <2>1. Holders(n)' = Holders(n)
    BY <1>1, <1>2 DEF Holders
  <2>2. Account(n)
    BY DEF LoaderInv, AccountInv
  <2>3. QED BY <1>1, <2>1, <2>2 DEF Account
<1>3. QED BY <1>2 DEF AccountInv

LEMMA LoadsGrown ==
    ASSUME LoaderTypeOK, NEW load \in RunningLoads, loads' = Append(loads, load)
    PROVE  /\ loads' \in Seq(RunningLoads) /\ loads' # <<>> /\ Len(loads') = Len(loads) + 1
           /\ Len(loads) + 1 \notin DOMAIN loads /\ DOMAIN loads' = DOMAIN loads \cup {Len(loads) + 1}
           /\ \A d \in DOMAIN loads : loads'[d] = loads[d]
           /\ loads'[Len(loads) + 1] = load
<1>1. loads \in Seq(RunningLoads) /\ Len(loads) \in Nat /\ DOMAIN loads = 1 .. Len(loads)
  BY LoaderFacts DEF LoaderTypeOK
<1>2. /\ loads' \in Seq(RunningLoads) /\ loads' # <<>> /\ Len(loads') = Len(loads) + 1
      /\ \A d \in 1 .. Len(loads) : loads'[d] = loads[d]
      /\ loads'[Len(loads) + 1] = load
  BY <1>1, AppendProperties
<1>3. DOMAIN loads' = 1 .. Len(loads) + 1
  BY <1>2, LenProperties
<1>4. QED BY <1>1, <1>2, <1>3

LEMMA LoadBegins ==
    ASSUME LoaderInv, scanned = 0, NEW id \in AssetIds, Places(id) = {},
           loads' = Append(loads, Started(id)),
           loads # <<>> => Wanting(Top) /\ id = Wanted(Top) /\ caller' = caller,
           loads = <<>> => caller' \in Clients /\ holding[caller'] = 0,
           UNCHANGED <<records, objects, assets, holding, scanned>>
    PROVE  LoaderInv'
<1> DEFINE load == Started(id)
           new == Len(loads) + 1
<1>1. /\ load \in RunningLoads /\ load.id = id /\ load.keeps = <<>> /\ load.uses = <<>>
      /\ load.made = 0 /\ load.leaving = FALSE
  <2>1. <<>> \in Seq(Nat)
    BY EmptySeq
  <2>2. QED BY <2>1 DEF Started, RunningLoads
<1>2. /\ loads' \in Seq(RunningLoads) /\ loads' # <<>> /\ Len(loads') = new
      /\ new \notin DOMAIN loads /\ DOMAIN loads' = DOMAIN loads \cup {new}
      /\ \A d \in DOMAIN loads : loads'[d] = loads[d]
      /\ loads'[new] = load
  <2>1. loads' = Append(loads, load) /\ LoaderTypeOK
    BY DEF LoaderInv
  <2> HIDE DEF load
  <2>2. QED BY <1>1, <2>1, LoadsGrown
<1> HIDE DEF load, new
<1>3. \A n : ByKeeps(n)' = ByKeeps(n)
  <2> DEFINE rows == [d \in DOMAIN loads |-> loads[d].keeps]
             more == [d \in DOMAIN loads' |-> loads'[d].keeps]
  <2>1. /\ new \notin DOMAIN rows /\ DOMAIN more = DOMAIN rows \cup {new}
        /\ \A d \in DOMAIN rows : more[d] = rows[d]
    BY <1>1, <1>2
  <2>2. DOMAIN more[new] = {}
    BY <1>1, <1>2
  <2> HIDE DEF rows, more
  <2>3. \A n : Occurrences(more, n) = Occurrences(rows, n)
    BY <2>1, <2>2, RowAdded
  <2>4. QED BY <2>3 DEF ByKeeps, rows, more
<1>4. \A n : ByUses(n)' = ByUses(n)
  <2> DEFINE rows == [d \in DOMAIN loads |-> loads[d].uses]
             more == [d \in DOMAIN loads' |-> loads'[d].uses]
  <2>1. /\ new \notin DOMAIN rows /\ DOMAIN more = DOMAIN rows \cup {new}
        /\ \A d \in DOMAIN rows : more[d] = rows[d]
    BY <1>1, <1>2
  <2>2. DOMAIN more[new] = {}
    BY <1>1, <1>2
  <2> HIDE DEF rows, more
  <2>3. \A n : Occurrences(more, n) = Occurrences(rows, n)
    BY <2>1, <2>2, RowAdded
  <2>4. QED BY <2>3 DEF ByUses, rows, more
<1>5. \A n \in DOMAIN objects : ByMaking(n)' = ByMaking(n)
  <2>1. \A n \in DOMAIN objects : n # 0
    BY LoaderFacts DEF LoaderInv
  <2>2. QED BY <1>1, <1>2, <2>1 DEF ByMaking
<1>6. AccountInv'
  BY <1>3, <1>4, <1>5, BooksSame
<1>7. LoaderTypeOK'
  BY <1>2 DEF LoaderInv, LoaderTypeOK
<1>8. ListInv' /\ HoldingInv' /\ HeldInv' /\ InList' = InList
  BY DEF LoaderInv, ListInv, HoldingInv, HeldInv, InList
<1>9. PartsInv'
  BY <1>1, <1>2, <1>8 DEF LoaderInv, PartsInv
<1>10. UniqueInv'
  <2>1. \A d \in DOMAIN loads : Places(loads[d].id) = {}
    BY DEF LoaderInv, UniqueInv
  <2>2. \A other : Places(other)' = Places(other)
    BY DEF Places
  <2>3. \A d \in DOMAIN loads' : Places(loads'[d].id) = {}
    BY <1>1, <1>2, <2>1
  <2>4. QED BY <2>2, <2>3 DEF LoaderInv, UniqueInv
<1>11. StackInv'
  <2>1. StackInv /\ Len(loads) \in Nat /\ DOMAIN loads = 1 .. Len(loads)
    BY LoaderFacts DEF LoaderInv
  <2>2. (caller = Nothing <=> loads = <<>>)' /\ (loads # <<>> => scanned = 0 /\ holding[caller] = 0)'
    BY <1>2, <2>1, LoaderAssumption DEF StackInv
  <2>3. ASSUME NEW d \in DOMAIN loads'
        PROVE  /\ d < Len(loads') => Wanting(loads'[d]) /\ loads'[d + 1].id = Wanted(loads'[d])
               /\ ~loads'[d].leaving => loads'[d].made = 0
               /\ loads'[d].made # 0 => /\ loads'[d].made \in DOMAIN objects' \ InList'
                                        /\ objects'[loads'[d].made].id = loads'[d].id
    <3>1. CASE d = new
      BY <1>1, <1>2, <3>1 DEF new
    <3>2. CASE d \in DOMAIN loads /\ d < Len(loads)
      <4>1. d + 1 \in DOMAIN loads
        BY <2>1, <3>2
      <4>2. loads'[d] = loads[d] /\ loads'[d + 1] = loads[d + 1]
        BY <1>2, <3>2, <4>1
      <4>3. QED BY <1>8, <2>1, <3>2, <4>2 DEF StackInv
    <3>3. CASE d \in DOMAIN loads /\ d = Len(loads)
      <4>1. loads # <<>>
        BY <2>1, <3>3
      <4>2. loads'[d] = Top /\ loads'[d + 1].id = Wanted(Top) /\ Wanting(Top)
        BY <1>1, <1>2, <3>3, <4>1 DEF Top, new
      <4>3. QED BY <1>2, <1>8, <2>1, <3>3, <4>2 DEF StackInv
    <3>4. QED BY <1>2, <2>1, <3>1, <3>2, <3>3
  <2>4. ASSUME NEW d \in DOMAIN loads', NEW e \in DOMAIN loads', d < e
        PROVE  Rank[loads'[e].id] < Rank[loads'[d].id]
    <3>1. CASE e \in DOMAIN loads
      <4>1. d \in DOMAIN loads
        BY <1>2, <2>1, <2>4, <3>1 DEF new
      <4>2. QED BY <1>2, <2>1, <2>4, <3>1, <4>1 DEF StackInv
    <3>2. CASE e = new
      <4>1. d \in DOMAIN loads /\ Len(loads) \in DOMAIN loads /\ loads # <<>>
        BY <1>2, <2>1, <2>4, <3>2 DEF new
      <4>2. Wanting(Top) /\ id = Wanted(Top) /\ Top = loads[Len(loads)]
        BY <4>1 DEF Top
      <4>3. Top.id \in AssetIds /\ loads[d].id \in AssetIds
        BY <4>1, <4>2, LoaderFacts DEF LoaderInv
      <4>4. Rank[id] < Rank[Top.id]
        BY <4>2, <4>3, RankFalls DEF Wanting, Wanted
      <4>5. d = Len(loads) \/ Rank[Top.id] < Rank[loads[d].id]
        BY <2>1, <4>1, <4>2 DEF StackInv
      <4>6. Rank[id] \in Int /\ Rank[Top.id] \in Int /\ Rank[loads[d].id] \in Int
        BY <4>3, RankFalls
      <4>7. Rank[id] < Rank[loads[d].id]
        BY <4>2, <4>4, <4>5, <4>6
      <4>8. QED BY <1>1, <1>2, <3>2, <4>1, <4>7
    <3>3. QED BY <1>2, <3>1, <3>2
  <2>5. QED BY <2>2, <2>3, <2>4 DEF StackInv, Wanting, Wanted
<1>12. QED BY <1>6, <1>7, <1>8, <1>9, <1>10, <1>11 DEF LoaderInv

LEMMA TopChanged ==
    ASSUME LoaderTypeOK, Running, NEW load \in RunningLoads, loads' = [loads EXCEPT ![Len(loads)] = load]
    PROVE  /\ LoadsBut /\ loads' \in Seq(RunningLoads) /\ loads' # <<>> /\ Len(loads') = Len(loads)
           /\ loads'[Len(loads)] = load
<1>1. /\ loads \in Seq(RunningLoads) /\ Len(loads) \in DOMAIN loads
      /\ Len(loads) \in Nat /\ DOMAIN loads = 1 .. Len(loads) /\ Len(loads) > 0
  BY TopFacts, LoaderFacts DEF LoaderTypeOK
<1>2. /\ loads' \in Seq(RunningLoads) /\ Len(loads') = Len(loads)
      /\ \A d \in 1 .. Len(loads) : loads'[d] = IF d = Len(loads) THEN load ELSE loads[d]
  BY <1>1, ExceptSeq
<1>3. DOMAIN loads' = DOMAIN loads
  BY <1>1, <1>2, LenProperties
<1>4. loads' # <<>>
  BY <1>1, <1>3
<1>5. QED BY <1>1, <1>2, <1>3, <1>4 DEF LoadsBut

\* What the innermost load becomes leaves the others waiting for it.
LEMMA StackSame ==
    ASSUME LoaderInv, Running, LoadsBut, Len(loads') = Len(loads), loads' # <<>>,
           UNCHANGED <<assets, holding, caller, scanned>>,
           DOMAIN objects \subseteq DOMAIN objects',
           \A m \in DOMAIN objects : objects'[m].id = objects[m].id,
           loads'[Len(loads)].id = Top.id,
           ~loads'[Len(loads)].leaving => loads'[Len(loads)].made = 0,
           loads'[Len(loads)].made # 0 =>
              /\ loads'[Len(loads)].made \in DOMAIN objects' \ InList
              /\ objects'[loads'[Len(loads)].made].id = Top.id
    PROVE  StackInv'
<1>1. /\ StackInv /\ Len(loads) \in Nat /\ DOMAIN loads = 1 .. Len(loads) /\ DOMAIN loads' = DOMAIN loads
      /\ loads # <<>> /\ Len(loads) \in DOMAIN loads /\ Top = loads[Len(loads)]
  BY LoaderFacts, TopFacts DEF LoaderInv, LoadsBut, Running
<1>2. InList' = InList
  BY DEF InList
<1>3. \A d \in DOMAIN loads : loads'[d].id = loads[d].id
  BY <1>1 DEF LoadsBut
<1>4. ASSUME NEW d \in DOMAIN loads'
      PROVE  /\ d < Len(loads') => Wanting(loads'[d]) /\ loads'[d + 1].id = Wanted(loads'[d])
             /\ ~loads'[d].leaving => loads'[d].made = 0
             /\ loads'[d].made # 0 => /\ loads'[d].made \in DOMAIN objects' \ InList'
                                      /\ objects'[loads'[d].made].id = loads'[d].id
  <2>1. CASE d < Len(loads)
    <3>1. d + 1 \in DOMAIN loads /\ loads'[d] = loads[d] /\ loads'[d + 1].id = loads[d + 1].id
      BY <1>1, <1>3, <2>1 DEF LoadsBut
    <3>2. QED BY <1>1, <1>2, <2>1, <3>1 DEF StackInv
  <2>2. CASE d = Len(loads)
    BY <1>1, <1>2, <2>2
  <2>3. QED BY <1>1, <2>1, <2>2
<1>5. (caller = Nothing <=> loads = <<>>)' /\ (loads # <<>> => scanned = 0 /\ holding[caller] = 0)'
  BY <1>1 DEF StackInv
<1>6. \A d, e \in DOMAIN loads' : d < e => Rank[loads'[e].id] < Rank[loads'[d].id]
  BY <1>1, <1>3 DEF StackInv
<1>7. QED BY <1>4, <1>5, <1>6 DEF StackInv, Wanting, Wanted

LEMMA PlacesOfLoadsSame ==
    ASSUME LoaderInv, Running, LoadsBut, UNCHANGED assets, loads'[Len(loads)].id = Top.id,
           DOMAIN objects \subseteq DOMAIN objects',
           \A m \in DOMAIN objects : objects'[m].id = objects[m].id
    PROVE  ListInv' /\ UniqueInv' /\ InList' = InList
<1>1. \A d \in DOMAIN loads : loads'[d].id = loads[d].id
  BY TopFacts DEF LoadsBut, LoaderInv
<1>2. QED BY <1>1, ListSame DEF LoadsBut, LoaderInv, UniqueInv

\* A load gets a part that is listed: one that is found, or one that has just
\* been made.
LEMMA PartFields ==
    ASSUME NEW load \in RunningLoads, NEW n \in Nat
    PROVE  /\ WithPart(load, n) \in RunningLoads
           /\ WithPart(load, n).id = load.id /\ WithPart(load, n).made = load.made
           /\ n = 0 => WithPart(load, n).keeps = load.keeps /\ WithPart(load, n).uses = load.uses
           /\ n # 0 /\ Wanted(load) \in Keeps[load.id] =>
                 WithPart(load, n).keeps = Append(load.keeps, n) /\ WithPart(load, n).uses = load.uses
           /\ n # 0 /\ Wanted(load) \notin Keeps[load.id] =>
                 WithPart(load, n).keeps = load.keeps /\ WithPart(load, n).uses = Append(load.uses, n)
<1>1. /\ load.id \in AssetIds /\ load.part + 1 \in Nat /\ load.keeps \in Seq(Nat) /\ load.uses \in Seq(Nat)
      /\ load.made \in Nat /\ load.leaving \in BOOLEAN
      /\ Append(load.keeps, n) \in Seq(Nat) /\ Append(load.uses, n) \in Seq(Nat)
      /\ Lacking(load, n) \in BOOLEAN
  BY AppendProperties DEF RunningLoads, Lacking
<1>2. CASE n = 0
  BY <1>1, <1>2 DEF WithPart, RunningLoads
<1>3. CASE n # 0 /\ Wanted(load) \in Keeps[load.id]
  BY <1>1, <1>3 DEF WithPart, RunningLoads
<1>4. CASE n # 0 /\ Wanted(load) \notin Keeps[load.id]
  BY <1>1, <1>4 DEF WithPart, RunningLoads
<1>5. QED BY <1>2, <1>3, <1>4

LEMMA AppendedIn ==
    ASSUME NEW s \in Seq(Nat), NEW n \in Nat
    PROVE  \A i \in DOMAIN Append(s, n) : (i \in DOMAIN s /\ Append(s, n)[i] = s[i]) \/ Append(s, n)[i] = n
<1>1. Len(s) \in Nat /\ DOMAIN s = 1 .. Len(s) /\ DOMAIN Append(s, n) = 1 .. Len(s) + 1
  BY LenProperties, AppendProperties
<1>2. QED BY <1>1, AppendProperties

LEMMA PartFound ==
    ASSUME LoaderInv, Running, Wanting(Top), NEW n \in Find(Wanted(Top)),
           objects' = AddRef(objects, n), loads' = [loads EXCEPT ![Len(loads)] = WithPart(@, n)],
           UNCHANGED <<records, assets, holding, caller, scanned>>
    PROVE  LoaderInv'
<1> DEFINE load == WithPart(Top, n)
           top == Len(loads)
<1>1. top \in DOMAIN loads /\ Top = loads[top] /\ Top \in RunningLoads /\ Top.id \in AssetIds /\ Wanted(Top) \in AssetIds
  BY TopFacts, LoaderFacts, RankFalls DEF LoaderInv, Wanted, Wanting
<1>2. n \in InList /\ n \in DOMAIN objects /\ n \in Nat /\ n # 0 /\ objects[n].id = Wanted(Top)
  BY <1>1, FindFacts, LoaderFacts DEF LoaderInv
<1>3. /\ load \in RunningLoads /\ load.id = Top.id /\ load.made = Top.made
      /\ \/ Wanted(Top) \in Keeps[Top.id] /\ load.keeps = Append(Top.keeps, n) /\ load.uses = Top.uses
         \/ load.keeps = Top.keeps /\ load.uses = Append(Top.uses, n)
  BY <1>1, <1>2, PartFields
<1> HIDE DEF load
<1>4. /\ LoadsBut /\ loads' \in Seq(RunningLoads) /\ loads' # <<>> /\ Len(loads') = top
      /\ loads'[top] = load
  <2>1. loads' = [loads EXCEPT ![Len(loads)] = load]
    BY <1>1 DEF load
  <2>2. QED BY <1>3, <2>1, TopChanged DEF LoaderInv
<1> HIDE DEF top
<1>5. Counted(n, 1) /\ SameHeld
  BY <1>2, RefsStep DEF LoaderInv
<1>6. LoaderTypeOK'
  BY <1>4, <1>5 DEF LoaderInv, LoaderTypeOK, Counted
<1>7. ListInv' /\ UniqueInv' /\ InList' = InList
  BY <1>3, <1>4, <1>5, PlacesOfLoadsSame DEF Counted, top
<1>8. StackInv'
  <2>1. ~Top.leaving => Top.made = 0
    BY <1>1 DEF LoaderInv, StackInv
  <2>2. Top.made = 0
    BY <2>1 DEF Wanting
  <2>3. QED BY <1>3, <1>4, <1>5, <2>2, StackSame DEF Counted, top
<1>9. HoldingInv' /\ HeldInv'
  BY <1>5, <1>7, HeldSame DEF LoaderInv, HoldingInv, Counted
<1>10. PartsInv'
  <2>1. /\ \A i \in DOMAIN load.keeps :
              load.keeps[i] \in InList /\ objects[load.keeps[i]].id \in Keeps[Top.id]
        /\ \A i \in DOMAIN load.uses : load.uses[i] \in InList
    <3>1. Top.keeps \in Seq(Nat) /\ Top.uses \in Seq(Nat)
      BY <1>1 DEF RunningLoads
    <3>2. /\ \A i \in DOMAIN Top.keeps :
                Top.keeps[i] \in InList /\ objects[Top.keeps[i]].id \in Keeps[Top.id]
          /\ \A i \in DOMAIN Top.uses : Top.uses[i] \in InList
      BY <1>1 DEF LoaderInv, PartsInv
    <3>3. CASE Wanted(Top) \in Keeps[Top.id] /\ load.keeps = Append(Top.keeps, n) /\ load.uses = Top.uses
      <4>1. \A i \in DOMAIN load.keeps : load.keeps[i] = n \/ (i \in DOMAIN Top.keeps /\ load.keeps[i] = Top.keeps[i])
        BY <1>2, <3>1, <3>3, AppendedIn
      <4>2. QED BY <1>2, <3>2, <3>3, <4>1
    <3>4. CASE load.keeps = Top.keeps /\ load.uses = Append(Top.uses, n)
      <4>1. \A i \in DOMAIN load.uses : load.uses[i] = n \/ (i \in DOMAIN Top.uses /\ load.uses[i] = Top.uses[i])
        BY <1>2, <3>1, <3>4, AppendedIn
      <4>2. QED BY <1>2, <3>2, <3>4, <4>1
    <3>5. QED BY <1>3, <3>3, <3>4
  <2>2. \A m \in InList : objects'[m].id = objects[m].id
    BY <1>5, LoaderFacts DEF LoaderInv, InList, Counted
  <2>3. ASSUME NEW d \in DOMAIN loads'
        PROVE  /\ \A i \in DOMAIN loads'[d].keeps :
                     loads'[d].keeps[i] \in InList' /\ objects'[loads'[d].keeps[i]].id \in Keeps[loads'[d].id]
               /\ \A i \in DOMAIN loads'[d].uses : loads'[d].uses[i] \in InList'
    <3>1. CASE d = top
      BY <1>3, <1>4, <1>7, <2>1, <2>2, <3>1
    <3>2. CASE d # top
      BY <1>4, <1>7, <2>2, <3>2 DEF LoadsBut, LoaderInv, PartsInv, top
    <3>3. QED BY <3>1, <3>2
  <2>4. QED BY <2>3 DEF PartsInv
<1>11. AccountInv'
  <2>1. /\ \A m : ByClients(m)' = ByClients(m) /\ ByAssets(m)' = ByAssets(m)
        /\ \A m : ByMaking(m)' = ByMaking(m)
    BY <1>1, <1>3, <1>4, <1>5, AssetsSame, MakingSame DEF ByClients, Counted, LoadsBut, top
  <2>2. objects[n].refs \in Int /\ objects'[n].refs = objects[n].refs + 1
    BY <1>2, <1>5, LoaderFacts DEF Counted, LoaderInv
  <2>3. /\ Counts(ByClients(n), ByClients(n)', 0) /\ Counts(ByAssets(n), ByAssets(n)', 0)
        /\ Counts(ByMaking(n), ByMaking(n)', 0)
    BY <2>1, CountsNone
  <2>4. AccountInv
    BY DEF LoaderInv
  <2>5. CASE load.keeps = Append(Top.keeps, n) /\ load.uses = Top.uses
    <3>1. \A m : ByUses(m)' = ByUses(m)
      BY <1>1, <1>4, <2>5, UsesSame DEF LoadsBut, top
    <3>2. \A m : /\ m # n => ByKeeps(m)' = ByKeeps(m)
                 /\ m = n => Counts(ByKeeps(m), ByKeeps(m)', 1)
      BY <1>1, <1>2, <1>4, <2>5, KeepsLonger DEF LoaderInv, top
    <3>3. objects'[n].refs = objects[n].refs + 0 + 0 + 1 + 0 + 0
      BY <2>2
    <3>4. Counts(ByUses(n), ByUses(n)', 0)
      BY <3>1, CountsNone
    <3>5. \A m \in DOMAIN objects : m # n =>
             /\ ByClients(m)' = ByClients(m) /\ ByAssets(m)' = ByAssets(m) /\ ByKeeps(m)' = ByKeeps(m)
             /\ ByUses(m)' = ByUses(m) /\ ByMaking(m)' = ByMaking(m)
      BY <2>1, <3>1, <3>2
    <3>6. Counts(ByKeeps(n), ByKeeps(n)', 1)
      BY <3>2
    <3>7. QED BY <1>2, <1>5, <2>3, <2>4, <3>3, <3>4, <3>5, <3>6, OneBooked
  <2>6. CASE load.keeps = Top.keeps /\ load.uses = Append(Top.uses, n)
    <3>1. \A m : ByKeeps(m)' = ByKeeps(m)
      BY <1>1, <1>4, <2>6, KeepsSame DEF LoadsBut, top
    <3>2. \A m : /\ m # n => ByUses(m)' = ByUses(m)
                 /\ m = n => Counts(ByUses(m), ByUses(m)', 1)
      BY <1>1, <1>2, <1>4, <2>6, UsesLonger DEF LoaderInv, top
    <3>3. objects'[n].refs = objects[n].refs + 0 + 0 + 0 + 1 + 0
      BY <2>2
    <3>4. Counts(ByKeeps(n), ByKeeps(n)', 0)
      BY <3>1, CountsNone
    <3>5. \A m \in DOMAIN objects : m # n =>
             /\ ByClients(m)' = ByClients(m) /\ ByAssets(m)' = ByAssets(m) /\ ByKeeps(m)' = ByKeeps(m)
             /\ ByUses(m)' = ByUses(m) /\ ByMaking(m)' = ByMaking(m)
      BY <2>1, <3>1, <3>2
    <3>6. Counts(ByUses(n), ByUses(n)', 1)
      BY <3>2
    <3>7. QED BY <1>2, <1>5, <2>3, <2>4, <3>3, <3>4, <3>5, <3>6, OneBooked
  <2>7. QED BY <1>3, <2>5, <2>6
<1>12. QED BY <1>6, <1>7, <1>8, <1>9, <1>10, <1>11 DEF LoaderInv

LEMMA PartFails ==
    ASSUME LoaderInv, Running, Wanting(Top), loads' = [loads EXCEPT ![Len(loads)] = WithPart(@, 0)],
           UNCHANGED <<records, objects, assets, holding, caller, scanned>>
    PROVE  LoaderInv'
<1> DEFINE load == WithPart(Top, 0)
           top == Len(loads)
<1>1. top \in DOMAIN loads /\ Top = loads[top] /\ Top \in RunningLoads
  BY TopFacts, LoaderFacts DEF LoaderInv
<1>2. /\ load \in RunningLoads /\ load.id = Top.id /\ load.made = Top.made
      /\ load.keeps = Top.keeps /\ load.uses = Top.uses
  BY <1>1, PartFields
<1> HIDE DEF load
<1>3. /\ LoadsBut /\ loads' \in Seq(RunningLoads) /\ loads' # <<>> /\ Len(loads') = top
      /\ loads'[top] = load
  <2>1. loads' = [loads EXCEPT ![Len(loads)] = load]
    BY <1>1 DEF load
  <2>2. QED BY <1>2, <2>1, TopChanged DEF LoaderInv
<1> HIDE DEF top
<1>4. LoaderTypeOK'
  BY <1>3 DEF LoaderInv, LoaderTypeOK
<1>5. ListInv' /\ UniqueInv' /\ InList' = InList
  BY <1>2, <1>3, PlacesOfLoadsSame DEF top
<1>6. StackInv'
  <2>1. ~Top.leaving => Top.made = 0
    BY <1>1 DEF LoaderInv, StackInv
  <2>2. Top.made = 0
    BY <2>1 DEF Wanting
  <2>3. QED BY <1>2, <1>3, <2>2, StackSame DEF top
<1>7. HoldingInv' /\ HeldInv'
  BY <1>5 DEF LoaderInv, HoldingInv, HeldInv
<1>8. \A d \in DOMAIN loads : /\ loads'[d].id = loads[d].id /\ loads'[d].keeps = loads[d].keeps
                              /\ loads'[d].uses = loads[d].uses /\ loads'[d].made = loads[d].made
  <2>1. \A d \in DOMAIN loads : d # top => loads'[d] = loads[d]
    BY <1>3 DEF LoadsBut, top
  <2>2. loads'[top] = load /\ loads[top] = Top
    BY <1>1, <1>3
  <2>3. QED BY <1>2, <2>1, <2>2
<1>9. PartsInv'
  <2>1. DOMAIN loads' = DOMAIN loads /\ objects' = objects /\ PartsInv
    BY <1>3 DEF LoaderInv, LoadsBut
  <2>2. QED BY <1>5, <1>8, <2>1 DEF PartsInv
<1>10. AccountInv'
  BY <1>3, <1>8, KeepsSame, UsesSame, MakingSame, BooksSame DEF LoadsBut
<1>11. QED BY <1>4, <1>5, <1>6, <1>7, <1>9, <1>10, Zenon DEF LoaderInv

LEMMA FrontIn ==
    ASSUME NEW s \in Seq(Nat), s # <<>>
    PROVE  /\ \A i \in DOMAIN Front(s) : i \in DOMAIN s /\ Front(s)[i] = s[i]
           /\ \E i \in DOMAIN s : s[i] = Last(s)
           /\ Front(s) \in Seq(Nat) /\ Last(s) \in Nat
<1>1. /\ Front(s) \in Seq(Nat) /\ Last(s) \in Nat /\ Len(s) \in DOMAIN s /\ s[Len(s)] = Last(s)
      /\ DOMAIN s = DOMAIN Front(s) \cup {Len(s)}
      /\ \A j \in DOMAIN Front(s) : s[j] = Front(s)[j]
  BY FrontLast, Zenon
<1>2. QED BY <1>1, Zenon

\* A load that leaves lets go of a handle.
LEMMA LeavesKeep ==
    ASSUME LoaderInv, Running, Top.leaving, Top.keeps # <<>>,
           objects' = RemoveRef(objects, Last(Top.keeps)),
           loads' = [loads EXCEPT ![Len(loads)].keeps = Front(@)],
           UNCHANGED <<records, assets, holding, caller, scanned>>
    PROVE  LoaderInv'
<1> DEFINE load == [Top EXCEPT !.keeps = Front(@)]
           top == Len(loads)
<1>1. top \in DOMAIN loads /\ Top = loads[top] /\ Top \in RunningLoads /\ Top.keeps \in Seq(Nat)
  BY TopFacts, LoaderFacts DEF LoaderInv
<1>2. PICK n : n = Last(Top.keeps)
  OBVIOUS
<1>3. n \in InList /\ n \in DOMAIN objects /\ n \in Nat
  <2>1. n \in InList
    BY <1>1, <1>2, FrontIn DEF LoaderInv, PartsInv
  <2>2. QED BY <2>1, LoaderFacts DEF LoaderInv, InList
<1>4. /\ load \in RunningLoads /\ load.id = Top.id /\ load.made = Top.made /\ load.leaving = Top.leaving
      /\ load.keeps = Front(Top.keeps) /\ load.uses = Top.uses
  <2>1. Front(Top.keeps) \in Seq(Nat)
    BY <1>1, FrontIn
  <2>2. QED BY <1>1, <2>1 DEF RunningLoads
<1>5. /\ LoadsBut /\ loads' \in Seq(RunningLoads) /\ loads' # <<>> /\ Len(loads') = top
      /\ loads'[top] = load
  <2>1. loads' = [loads EXCEPT ![Len(loads)] = load]
    BY <1>1
  <2> HIDE DEF load
  <2>2. QED BY <1>4, <2>1, TopChanged DEF LoaderInv
<1> HIDE DEF load, top
<1>6. Counted(n, -1) /\ SameHeld
  BY <1>2, <1>3, RefsStep DEF LoaderInv
<1>7. LoaderTypeOK'
  BY <1>5, <1>6 DEF LoaderInv, LoaderTypeOK, Counted
<1>8. ListInv' /\ UniqueInv' /\ InList' = InList
  BY <1>4, <1>5, <1>6, PlacesOfLoadsSame DEF Counted, top
<1>9. StackInv'
  <2>1. Top.made # 0 => Top.made \in DOMAIN objects \ InList /\ objects[Top.made].id = Top.id
    BY <1>1 DEF LoaderInv, StackInv
  <2>2. QED BY <1>4, <1>5, <1>6, <2>1, StackSame DEF Counted, top
<1>10. HoldingInv' /\ HeldInv'
  BY <1>6, <1>8, HeldSame DEF LoaderInv, HoldingInv, Counted
<1>11. PartsInv'
  <2>1. /\ \A i \in DOMAIN load.keeps :
              load.keeps[i] \in InList /\ objects[load.keeps[i]].id \in Keeps[Top.id]
        /\ \A i \in DOMAIN load.uses : load.uses[i] \in InList
    <3>1. /\ \A i \in DOMAIN Top.keeps :
                Top.keeps[i] \in InList /\ objects[Top.keeps[i]].id \in Keeps[Top.id]
          /\ \A i \in DOMAIN Top.uses : Top.uses[i] \in InList
      BY <1>1 DEF LoaderInv, PartsInv
    <3>2. \A i \in DOMAIN Front(Top.keeps) :
            i \in DOMAIN Top.keeps /\ Front(Top.keeps)[i] = Top.keeps[i]
      BY <1>1, FrontIn
    <3>3. QED BY <1>4, <3>1, <3>2
  <2>2. \A m \in InList : objects'[m].id = objects[m].id
    BY <1>6, LoaderFacts DEF LoaderInv, InList, Counted
  <2>3. ASSUME NEW d \in DOMAIN loads'
        PROVE  /\ \A i \in DOMAIN loads'[d].keeps :
                     loads'[d].keeps[i] \in InList' /\ objects'[loads'[d].keeps[i]].id \in Keeps[loads'[d].id]
               /\ \A i \in DOMAIN loads'[d].uses : loads'[d].uses[i] \in InList'
    <3>1. CASE d = top
      BY <1>4, <1>5, <1>8, <2>1, <2>2, <3>1
    <3>2. CASE d # top
      BY <1>5, <1>8, <2>2, <3>2 DEF LoadsBut, LoaderInv, PartsInv, top
    <3>3. QED BY <3>1, <3>2
  <2>4. QED BY <2>3 DEF PartsInv
<1>12. AccountInv'
  <2>1. /\ \A m : ByClients(m)' = ByClients(m) /\ ByAssets(m)' = ByAssets(m)
        /\ \A m : ByMaking(m)' = ByMaking(m) /\ ByUses(m)' = ByUses(m)
    BY <1>1, <1>4, <1>5, <1>6, AssetsSame, MakingSame, UsesSame DEF ByClients, Counted, LoadsBut, top
  <2>2. objects[n].refs \in Int /\ objects'[n].refs = objects[n].refs + (-1)
    BY <1>3, <1>6, LoaderFacts DEF Counted, LoaderInv
  <2>3. /\ Counts(ByClients(n), ByClients(n)', 0) /\ Counts(ByAssets(n), ByAssets(n)', 0)
        /\ Counts(ByMaking(n), ByMaking(n)', 0) /\ Counts(ByUses(n), ByUses(n)', 0)
    BY <2>1, CountsNone
  <2>4. AccountInv
    BY DEF LoaderInv
  <2>5. \A m : /\ m # n => ByKeeps(m)' = ByKeeps(m)
               /\ m = n => Counts(ByKeeps(m), ByKeeps(m)', -1)
    BY <1>1, <1>2, <1>4, <1>5, KeepsShorter DEF LoaderInv, top
  <2>6. objects'[n].refs = objects[n].refs + 0 + 0 + (-1) + 0 + 0
    BY <2>2
  <2>7. \A m \in DOMAIN objects : m # n =>
           /\ ByClients(m)' = ByClients(m) /\ ByAssets(m)' = ByAssets(m) /\ ByKeeps(m)' = ByKeeps(m)
           /\ ByUses(m)' = ByUses(m) /\ ByMaking(m)' = ByMaking(m)
    BY <2>1, <2>5
  <2>8. Counts(ByKeeps(n), ByKeeps(n)', -1)
    BY <2>5
  <2>9. QED BY <1>3, <1>6, <2>3, <2>4, <2>6, <2>7, <2>8, OneBooked
<1>13. QED BY <1>7, <1>8, <1>9, <1>10, <1>11, <1>12 DEF LoaderInv

LEMMA LeavesUse ==
    ASSUME LoaderInv, Running, Top.leaving, Top.keeps = <<>>, Top.uses # <<>>,
           objects' = RemoveRef(objects, Last(Top.uses)),
           loads' = [loads EXCEPT ![Len(loads)].uses = Front(@)],
           UNCHANGED <<records, assets, holding, caller, scanned>>
    PROVE  LoaderInv'
<1> DEFINE load == [Top EXCEPT !.uses = Front(@)]
           top == Len(loads)
<1>1. top \in DOMAIN loads /\ Top = loads[top] /\ Top \in RunningLoads /\ Top.uses \in Seq(Nat)
  BY TopFacts, LoaderFacts DEF LoaderInv
<1>2. PICK n : n = Last(Top.uses)
  OBVIOUS
<1>3. n \in InList /\ n \in DOMAIN objects /\ n \in Nat
  <2>1. n \in InList
    BY <1>1, <1>2, FrontIn DEF LoaderInv, PartsInv
  <2>2. QED BY <2>1, LoaderFacts DEF LoaderInv, InList
<1>4. /\ load \in RunningLoads /\ load.id = Top.id /\ load.made = Top.made /\ load.leaving = Top.leaving
      /\ load.keeps = Top.keeps /\ load.uses = Front(Top.uses)
  <2>1. Front(Top.uses) \in Seq(Nat)
    BY <1>1, FrontIn
  <2>2. QED BY <1>1, <2>1 DEF RunningLoads
<1>5. /\ LoadsBut /\ loads' \in Seq(RunningLoads) /\ loads' # <<>> /\ Len(loads') = top
      /\ loads'[top] = load
  <2>1. loads' = [loads EXCEPT ![Len(loads)] = load]
    BY <1>1
  <2> HIDE DEF load
  <2>2. QED BY <1>4, <2>1, TopChanged DEF LoaderInv
<1> HIDE DEF load, top
<1>6. Counted(n, -1) /\ SameHeld
  BY <1>2, <1>3, RefsStep DEF LoaderInv
<1>7. LoaderTypeOK'
  BY <1>5, <1>6 DEF LoaderInv, LoaderTypeOK, Counted
<1>8. ListInv' /\ UniqueInv' /\ InList' = InList
  BY <1>4, <1>5, <1>6, PlacesOfLoadsSame DEF Counted, top
<1>9. StackInv'
  <2>1. Top.made # 0 => Top.made \in DOMAIN objects \ InList /\ objects[Top.made].id = Top.id
    BY <1>1 DEF LoaderInv, StackInv
  <2>2. QED BY <1>4, <1>5, <1>6, <2>1, StackSame DEF Counted, top
<1>10. HoldingInv' /\ HeldInv'
  BY <1>6, <1>8, HeldSame DEF LoaderInv, HoldingInv, Counted
<1>11. PartsInv'
  <2>1. /\ \A i \in DOMAIN load.keeps :
              load.keeps[i] \in InList /\ objects[load.keeps[i]].id \in Keeps[Top.id]
        /\ \A i \in DOMAIN load.uses : load.uses[i] \in InList
    <3>1. /\ \A i \in DOMAIN Top.keeps :
                Top.keeps[i] \in InList /\ objects[Top.keeps[i]].id \in Keeps[Top.id]
          /\ \A i \in DOMAIN Top.uses : Top.uses[i] \in InList
      BY <1>1 DEF LoaderInv, PartsInv
    <3>2. \A i \in DOMAIN Front(Top.uses) :
            i \in DOMAIN Top.uses /\ Front(Top.uses)[i] = Top.uses[i]
      BY <1>1, FrontIn
    <3>3. QED BY <1>4, <3>1, <3>2
  <2>2. \A m \in InList : objects'[m].id = objects[m].id
    BY <1>6, LoaderFacts DEF LoaderInv, InList, Counted
  <2>3. ASSUME NEW d \in DOMAIN loads'
        PROVE  /\ \A i \in DOMAIN loads'[d].keeps :
                     loads'[d].keeps[i] \in InList' /\ objects'[loads'[d].keeps[i]].id \in Keeps[loads'[d].id]
               /\ \A i \in DOMAIN loads'[d].uses : loads'[d].uses[i] \in InList'
    <3>1. CASE d = top
      BY <1>4, <1>5, <1>8, <2>1, <2>2, <3>1
    <3>2. CASE d # top
      BY <1>5, <1>8, <2>2, <3>2 DEF LoadsBut, LoaderInv, PartsInv, top
    <3>3. QED BY <3>1, <3>2
  <2>4. QED BY <2>3 DEF PartsInv
<1>12. AccountInv'
  <2>1. /\ \A m : ByClients(m)' = ByClients(m) /\ ByAssets(m)' = ByAssets(m)
        /\ \A m : ByMaking(m)' = ByMaking(m) /\ ByKeeps(m)' = ByKeeps(m)
    BY <1>1, <1>4, <1>5, <1>6, AssetsSame, MakingSame, KeepsSame DEF ByClients, Counted, LoadsBut, top
  <2>2. objects[n].refs \in Int /\ objects'[n].refs = objects[n].refs + (-1)
    BY <1>3, <1>6, LoaderFacts DEF Counted, LoaderInv
  <2>3. /\ Counts(ByClients(n), ByClients(n)', 0) /\ Counts(ByAssets(n), ByAssets(n)', 0)
        /\ Counts(ByMaking(n), ByMaking(n)', 0) /\ Counts(ByKeeps(n), ByKeeps(n)', 0)
    BY <2>1, CountsNone
  <2>4. AccountInv
    BY DEF LoaderInv
  <2>5. \A m : /\ m # n => ByUses(m)' = ByUses(m)
               /\ m = n => Counts(ByUses(m), ByUses(m)', -1)
    BY <1>1, <1>2, <1>4, <1>5, UsesShorter DEF LoaderInv, top
  <2>6. objects'[n].refs = objects[n].refs + 0 + 0 + 0 + (-1) + 0
    BY <2>2
  <2>7. \A m \in DOMAIN objects : m # n =>
           /\ ByClients(m)' = ByClients(m) /\ ByAssets(m)' = ByAssets(m) /\ ByKeeps(m)' = ByKeeps(m)
           /\ ByUses(m)' = ByUses(m) /\ ByMaking(m)' = ByMaking(m)
    BY <2>1, <2>5
  <2>8. Counts(ByUses(n), ByUses(n)', -1)
    BY <2>5
  <2>9. QED BY <1>3, <1>6, <2>3, <2>4, <2>6, <2>7, <2>8, OneBooked
<1>13. QED BY <1>7, <1>8, <1>9, <1>10, <1>11, <1>12 DEF LoaderInv

LEMMA MakeKeeps == ASSUME LoaderInv, Make PROVE LoaderInv'
<1>0. PICK new : new = Len(objects) + 1
  OBVIOUS
<1> DEFINE load == [Top EXCEPT !.keeps = <<>>, !.made = new, !.leaving = TRUE]
           top == Len(loads)
           object == [id |-> Top.id, refs |-> 1, held |-> Top.keeps]
<1>1. /\ Running /\ top \in DOMAIN loads /\ Top = loads[top] /\ Top \in RunningLoads /\ Top.id \in AssetIds
      /\ Top.keeps \in Seq(Nat) /\ new \in Nat /\ DOMAIN objects = 1 .. Len(objects) /\ Len(objects) \in Nat
      /\ objects \in Seq(Objects)
  BY <1>0, TopFacts, LoaderFacts DEF LoaderInv, LoaderTypeOK, Make
<1>2. /\ load \in RunningLoads /\ load.id = Top.id /\ load.made = new /\ load.leaving = TRUE
      /\ load.keeps = <<>> /\ load.uses = Top.uses
  <2>1. <<>> \in Seq(Nat)
    BY EmptySeq
  <2>2. QED BY <1>1, <2>1 DEF RunningLoads
<1>3. /\ LoadsBut /\ loads' \in Seq(RunningLoads) /\ loads' # <<>> /\ Len(loads') = top
      /\ loads'[top] = load
  <2>1. loads' = [loads EXCEPT ![Len(loads)] = load]
    BY <1>0, <1>1 DEF Make
  <2> HIDE DEF load
  <2>2. QED BY <1>1, <1>2, <2>1, TopChanged DEF LoaderInv
<1>4. object \in Objects /\ object.id = Top.id /\ object.refs = 1 /\ object.held = Top.keeps
  BY <1>1 DEF Objects
<1>5. /\ objects' \in Seq(Objects) /\ DOMAIN objects' = DOMAIN objects \cup {new}
      /\ new \notin DOMAIN objects /\ objects'[new] = object
      /\ \A m \in DOMAIN objects : objects'[m] = objects[m]
  <2>1. objects' = Append(objects, object)
    BY DEF Make
  <2> HIDE DEF object
  <2>2. /\ objects' \in Seq(Objects) /\ Len(objects') = new
        /\ \A m \in 1 .. Len(objects) : objects'[m] = objects[m]
        /\ objects'[new] = object
    BY <1>0, <1>1, <1>4, <2>1, AppendProperties
  <2>3. DOMAIN objects' = 1 .. new
    BY <2>2, LenProperties
  <2>4. QED BY <1>0, <1>1, <2>2, <2>3
<1> HIDE DEF load, top, object
<1>6. UNCHANGED <<records, assets, holding, caller, scanned>>
  BY DEF Make
<1>7. LoaderTypeOK'
  <2>1. assets \in Seq(DOMAIN objects')
    BY <1>5, SeqMonotonic DEF LoaderInv, LoaderTypeOK
  <2>2. QED BY <1>3, <1>5, <1>6, <2>1 DEF LoaderInv, LoaderTypeOK
<1>8. ListInv' /\ UniqueInv' /\ InList' = InList
  BY <1>1, <1>2, <1>3, <1>5, <1>6, PlacesOfLoadsSame DEF top
<1>9. \A m \in InList : m \in DOMAIN objects /\ objects'[m].id = objects[m].id
  BY <1>5, LoaderFacts DEF LoaderInv, InList
<1>10. StackInv'
  <2>1. new \in DOMAIN objects' \ InList /\ objects'[new].id = Top.id
    BY <1>4, <1>5, <1>9
  <2>2. QED BY <1>1, <1>2, <1>3, <1>5, <1>6, <2>1, StackSame DEF top
<1>11. HoldingInv'
  BY <1>6, <1>8 DEF LoaderInv, HoldingInv
<1>12. \A i \in DOMAIN Top.keeps :
          Top.keeps[i] \in InList /\ objects[Top.keeps[i]].id \in Keeps[Top.id]
  BY <1>1 DEF LoaderInv, PartsInv
<1>13. HeldInv'
  <2>1. ASSUME NEW m \in DOMAIN objects', NEW i \in DOMAIN objects'[m].held
        PROVE  /\ objects'[m].held[i] \in InList
               /\ objects'[objects'[m].held[i]].id \in Keeps[objects'[m].id]
    <3>1. CASE m = new
      BY <1>4, <1>5, <1>9, <1>12, <2>1, <3>1
    <3>2. CASE m \in DOMAIN objects
      BY <1>5, <1>9, <2>1, <3>2 DEF LoaderInv, HeldInv
    <3>3. QED BY <1>5, <3>1, <3>2
  <2>2. QED BY <1>8, <2>1 DEF HeldInv
<1>14. PartsInv'
  <2>1. ASSUME NEW d \in DOMAIN loads'
        PROVE  /\ \A i \in DOMAIN loads'[d].keeps :
                     loads'[d].keeps[i] \in InList' /\ objects'[loads'[d].keeps[i]].id \in Keeps[loads'[d].id]
               /\ \A i \in DOMAIN loads'[d].uses : loads'[d].uses[i] \in InList'
    <3>1. CASE d = top
      <4>1. \A i \in DOMAIN Top.uses : Top.uses[i] \in InList
        BY <1>1 DEF LoaderInv, PartsInv
      <4>2. QED BY <1>2, <1>3, <1>8, <3>1, <4>1
    <3>2. CASE d # top
      BY <1>3, <1>8, <1>9, <3>2 DEF LoadsBut, LoaderInv, PartsInv, top
    <3>3. QED BY <3>1, <3>2
  <2>2. QED BY <2>1 DEF PartsInv
<1>15. AccountInv'
  <2>1. \A m : ByClients(m)' = ByClients(m)
    BY <1>6 DEF ByClients
  <2>2. \A m : ByUses(m)' = ByUses(m)
    BY <1>1, <1>2, <1>3, UsesSame DEF LoadsBut, top
  <2>3. \A m \in DOMAIN objects : ByMaking(m)' = ByMaking(m)
    <3>1. ~Top.leaving => Top.made = 0
      BY <1>1 DEF LoaderInv, StackInv
    <3>2. Top.made = 0
      BY <3>1 DEF Make
    <3>3. \A m \in DOMAIN objects : m # 0 /\ m # new
      BY <1>1, <1>5
    <3>4. QED BY <1>1, <1>2, <1>3, <3>2, <3>3 DEF ByMaking, LoadsBut, top
  <2>4. \A n : \E d \in Int : Counts(ByKeeps(n), ByKeeps(n)', -d) /\ Counts(ByAssets(n), ByAssets(n)', d)
    <3> DEFINE from == [d \in DOMAIN loads |-> loads[d].keeps]
               left == [d \in DOMAIN loads' |-> loads'[d].keeps]
               held == [m \in DOMAIN objects |-> objects[m].held]
               more == [m \in DOMAIN objects' |-> objects'[m].held]
    <3>1. /\ top \in DOMAIN from /\ DOMAIN left = DOMAIN from
          /\ \A m \in DOMAIN from : m # top => left[m] = from[m]
          /\ from[top] = Top.keeps
      BY <1>1, <1>3 DEF LoadsBut, top
    <3>2. DOMAIN left[top] = {}
      BY <1>1, <1>2, <1>3 DEF LoadsBut
    <3>3. IsFiniteSet(DOMAIN Top.keeps)
      <4>1. Len(Top.keeps) \in Nat /\ DOMAIN Top.keeps = 1 .. Len(Top.keeps)
        BY <1>1, LenProperties
      <4>2. QED BY <4>1, FS_Interval, 1 \in Int
    <3>4. /\ new \notin DOMAIN held /\ DOMAIN more = DOMAIN held \cup {new}
          /\ \A m \in DOMAIN held : more[m] = held[m]
          /\ more[new] = Top.keeps
      BY <1>4, <1>5
    <3> HIDE DEF from, left, held, more
    <3>5. \A n : \E d \in Int : /\ Counts(Occurrences(from, n), Occurrences(left, n), -d)
                                /\ Counts(Occurrences(held, n), Occurrences(more, n), d)
      <4>1. IsFiniteSet(DOMAIN from[top]) /\ more[new] = from[top]
        BY <3>1, <3>3, <3>4
      <4>2. QED BY <3>1, <3>2, <3>4, <4>1, RowMoved
    <3>6. \A n : /\ ByKeeps(n) = Occurrences(from, n) /\ ByKeeps(n)' = Occurrences(left, n)
                 /\ ByAssets(n) = Occurrences(held, n) /\ ByAssets(n)' = Occurrences(more, n)
      BY DEF ByKeeps, ByAssets, from, left, held, more
    <3>7. QED BY <3>5, <3>6
  <2>5. ASSUME NEW n \in DOMAIN objects PROVE Account(n)'
    <3>1. PICK d \in Int : Counts(ByKeeps(n), ByKeeps(n)', -d) /\ Counts(ByAssets(n), ByAssets(n)', d)
      BY <2>4
    <3>2. Counts(ByClients(n), ByClients(n)', 0) /\ Counts(ByUses(n), ByUses(n)', 0) /\ Counts(ByMaking(n), ByMaking(n)', 0)
      BY <2>1, <2>2, <2>3, CountsNone
    <3>3. objects[n].refs \in Int /\ objects'[n].refs = objects[n].refs
      BY <1>5, LoaderFacts DEF LoaderInv
    <3>4. objects'[n].refs = objects[n].refs + 0 + d + (-d) + 0 + 0
      BY <3>3
    <3>5. QED BY <3>1, <3>2, <3>4, Balance DEF LoaderInv, AccountInv
  <2>6. Account(new)'
    <3>1. ByClients(new) = {}
      <4>0. new # 0 /\ new \notin InList
        BY <1>0, <1>1, <1>5, <1>9
      <4>1. \A c \in Clients : holding[c] # new
        BY <4>0 DEF LoaderInv, HoldingInv
      <4>2. QED BY <4>1 DEF ByClients
    <3>2. ByAssets(new)' = {}
      <4>1. \A m \in DOMAIN objects' : \A i \in DOMAIN objects'[m].held : objects'[m].held[i] # new
        BY <1>5, <1>8, <1>9, <1>13 DEF HeldInv
      <4>2. ASSUME NEW p, p \in ByAssets(new)' PROVE FALSE
        BY <4>1, <4>2 DEF ByAssets, Occurrences
      <4>3. QED BY <4>2
    <3>3. ByKeeps(new)' = {}
      <4>1. \A d \in DOMAIN loads' : \A i \in DOMAIN loads'[d].keeps : loads'[d].keeps[i] # new
        BY <1>5, <1>8, <1>9, <1>14 DEF PartsInv
      <4>2. ASSUME NEW p, p \in ByKeeps(new)' PROVE FALSE
        BY <4>1, <4>2 DEF ByKeeps, Occurrences
      <4>3. QED BY <4>2
    <3>4. ByUses(new)' = {}
      <4>1. \A d \in DOMAIN loads' : \A i \in DOMAIN loads'[d].uses : loads'[d].uses[i] # new
        BY <1>5, <1>8, <1>9, <1>14 DEF PartsInv
      <4>2. ASSUME NEW p, p \in ByUses(new)' PROVE FALSE
        BY <4>1, <4>2 DEF ByUses, Occurrences
      <4>3. QED BY <4>2
    <3>5. ByMaking(new)' = {top}
      <4>1. \A d \in DOMAIN loads : loads[d].made # 0 => loads[d].made \in DOMAIN objects
        BY DEF LoaderInv, StackInv
      <4>2. \A d \in DOMAIN loads : loads[d].made # new
        BY <1>0, <1>1, <1>5, <4>1
      <4>3. QED BY <1>1, <1>2, <1>3, <4>2 DEF ByMaking, LoadsBut, top
    <3>6. objects'[new].refs = 1 /\ 0 + 0 + 0 + 0 + 1 = 1
      BY <1>4, <1>5
    <3>7. Holders(new)' = Cardinality(ByClients(new)') + Cardinality(ByAssets(new)') + Cardinality(ByKeeps(new)')
            + Cardinality(ByUses(new)') + Cardinality(ByMaking(new)')
      BY DEF Holders
    <3>8. Cardinality({}) = 0 /\ Cardinality({top}) = 1 /\ IsFiniteSet({}) /\ IsFiniteSet({top})
      BY FS_EmptySet, FS_Singleton
    <3>9. ByClients(new)' = {}
      BY <2>1, <3>1
    <3>10. QED BY <3>2, <3>3, <3>4, <3>5, <3>6, <3>7, <3>8, <3>9 DEF Account
  <2>7. QED BY <1>5, <2>5, <2>6 DEF AccountInv
<1>16. QED BY <1>7, <1>8, <1>10, <1>11, <1>13, <1>14, <1>15 DEF LoaderInv

-----------------------------------------------------------------------------
(* A load returns: it has let go of everything but what it made *)

LEMMA Popped ==
    ASSUME LoaderTypeOK, Running
    PROVE  /\ Front(loads) \in Seq(RunningLoads) /\ Len(Front(loads)) = Len(loads) - 1
           /\ DOMAIN Front(loads) = 1 .. Len(loads) - 1 /\ Len(loads) \notin DOMAIN Front(loads)
           /\ DOMAIN loads = DOMAIN Front(loads) \cup {Len(loads)}
           /\ \A d \in DOMAIN Front(loads) : Front(loads)[d] = loads[d]
<1>1. /\ loads \in Seq(RunningLoads) /\ Len(loads) \in Nat /\ Len(loads) > 0 /\ DOMAIN loads = 1 .. Len(loads)
      /\ \A d \in 1 .. Len(loads) : loads[d] \in RunningLoads
  BY TopFacts, LoaderFacts DEF LoaderTypeOK
<1>2. Front(loads) = SubSeq(loads, 1, Len(loads) - 1)
  BY DEF Front
<1>3. \A d \in 1 .. Len(loads) - 1 : loads[d] \in RunningLoads
  BY <1>1
<1>4. /\ SubSeq(loads, 1, Len(loads) - 1) \in Seq(RunningLoads)
      /\ Len(SubSeq(loads, 1, Len(loads) - 1)) = IF 1 <= Len(loads) - 1 THEN Len(loads) - 1 - 1 + 1 ELSE 0
      /\ \A i \in 1 .. (Len(loads) - 1) - 1 + 1 : SubSeq(loads, 1, Len(loads) - 1)[i] = loads[1 + i - 1]
  BY <1>1, <1>3, SubSeqProperties, 1 \in Int, Len(loads) - 1 \in Int
<1>5. /\ Front(loads) \in Seq(RunningLoads) /\ Len(Front(loads)) = Len(loads) - 1
      /\ \A d \in 1 .. Len(loads) - 1 : Front(loads)[d] = loads[d]
  BY <1>1, <1>2, <1>4
<1>6. DOMAIN Front(loads) = 1 .. Len(loads) - 1
  BY <1>5, LenProperties
<1>7. QED BY <1>1, <1>5, <1>6

LEMMA ListedNow ==
    ASSUME LoaderInv, Running, Top.leaving, UNCHANGED objects,
           assets' = IF Top.made = 0 THEN assets ELSE Append(assets, Top.made)
    PROVE  /\ assets' \in Seq(DOMAIN objects') /\ ListInv' /\ HeldInv'
           /\ InList' = IF Top.made = 0 THEN InList ELSE InList \cup {Top.made}
           /\ \A i, j \in DOMAIN assets' :
                 objects'[assets'[i]].id = objects'[assets'[j]].id /\ objects'[assets'[i]].id \notin Named => i = j
           /\ \A id \in AssetIds : id # Top.id /\ Places(id) = {} => (Places(id) = {})'
<1> DEFINE top == Len(loads)
<1>1. /\ top \in DOMAIN loads /\ Top = loads[top] /\ Top.id \in AssetIds /\ Top.made \in Nat
      /\ assets \in Seq(DOMAIN objects) /\ Len(assets) \in Nat /\ DOMAIN assets = 1 .. Len(assets)
      /\ \A i \in DOMAIN assets : assets[i] \in DOMAIN objects
  BY TopFacts, LoaderFacts DEF LoaderInv, LoaderTypeOK
<1>2. Top.made # 0 => Top.made \in DOMAIN objects \ InList /\ objects[Top.made].id = Top.id
  BY <1>1 DEF LoaderInv, StackInv
<1>3. Places(Top.id) = {}
  BY <1>1 DEF LoaderInv, UniqueInv
<1>4. HeldInv /\ ListInv
  BY DEF LoaderInv
<1>5. CASE Top.made = 0
  BY <1>1, <1>5 DEF LoaderInv, ListInv, HeldInv, UniqueInv, InList, Places
<1>6. CASE Top.made # 0
  <2> DEFINE new == Len(assets) + 1
  <2>1. /\ assets' \in Seq(DOMAIN objects) /\ Len(assets') = new /\ assets'[new] = Top.made
        /\ \A i \in 1 .. Len(assets) : assets'[i] = assets[i]
    BY <1>1, <1>2, <1>6, AppendProperties
  <2>2. DOMAIN assets' = 1 .. new
    BY <2>1, LenProperties
  <2>3. new \notin DOMAIN assets /\ DOMAIN assets' = DOMAIN assets \cup {new}
    BY <1>1, <2>2
  <2> HIDE DEF new
  <2>4. InList' = InList \cup {Top.made}
    BY <1>1, <2>1, <2>3 DEF InList
  <2>5. ListInv'
    BY <1>1, <1>2, <1>4, <1>6, <2>1, <2>3 DEF ListInv, InList
  <2>6. HeldInv'
    BY <1>4, <2>4 DEF HeldInv
  <2>7. \A i \in DOMAIN assets : objects[assets[i]].id = Top.id => Top.id \in Named
    BY <1>1, <1>3 DEF Places, FoundBy
  <2>8. ASSUME NEW i \in DOMAIN assets', NEW j \in DOMAIN assets',
               objects'[assets'[i]].id = objects'[assets'[j]].id, objects'[assets'[i]].id \notin Named
        PROVE  i = j
    <3>1. CASE i = new /\ j = new
      BY <3>1
    <3>2. CASE i = new /\ j \in DOMAIN assets
      BY <1>1, <1>2, <1>6, <2>1, <2>7, <2>8, <3>2
    <3>3. CASE i \in DOMAIN assets /\ j = new
      BY <1>1, <1>2, <1>6, <2>1, <2>7, <2>8, <3>3
    <3>4. CASE i \in DOMAIN assets /\ j \in DOMAIN assets
      BY <1>1, <2>1, <2>8, <3>4 DEF LoaderInv, UniqueInv
    <3>5. QED BY <2>3, <3>1, <3>2, <3>3, <3>4
  <2>9. ASSUME NEW id \in AssetIds, id # Top.id, Places(id) = {} PROVE Places(id)' = {}
    <3>1. FoundBy(Top.id) # id
      BY <2>9, LoaderAssumption DEF FoundBy
    <3>2. \A i \in DOMAIN assets : FoundBy(objects[assets[i]].id) # id
      BY <2>9 DEF Places
    <3>3. \A i \in DOMAIN assets' : FoundBy(objects[assets'[i]].id) # id
      BY <1>1, <1>2, <1>6, <2>1, <2>3, <3>1, <3>2
    <3>4. QED BY <3>3 DEF Places
  <2>10. QED BY <1>6, <2>1, <2>4, <2>5, <2>6, <2>8, <2>9
<1>7. QED BY <1>5, <1>6

\* The handles of the loads around, without those of the one that returns.
LEMMA ReturnedBooks ==
    ASSUME LoaderInv, Running, Top.leaving, Top.keeps = <<>>, Top.uses = <<>>, NEW n \in DOMAIN objects
    PROVE  /\ ByKeeps(n) = Occurrences([d \in DOMAIN Front(loads) |-> Front(loads)[d].keeps], n)
           /\ ByUses(n) = Occurrences([d \in DOMAIN Front(loads) |-> Front(loads)[d].uses], n)
           /\ n # Top.made => ByMaking(n) = {}
           /\ n = Top.made => ByMaking(n) = {Len(loads)}
<1> DEFINE top == Len(loads)
           rest == Front(loads)
<1>1. /\ top \notin DOMAIN rest /\ DOMAIN loads = DOMAIN rest \cup {top}
      /\ \A d \in DOMAIN rest : rest[d] = loads[d]
      /\ top \in DOMAIN loads /\ Top = loads[top] /\ DOMAIN loads = 1 .. top /\ DOMAIN rest = 1 .. top - 1 /\ top \in Nat
  BY Popped, TopFacts, LoaderFacts DEF LoaderInv
<1> HIDE DEF rest, top
<1>2. ByKeeps(n) = Occurrences([d \in DOMAIN rest |-> rest[d].keeps], n)
  <2> DEFINE few == [d \in DOMAIN rest |-> rest[d].keeps]
             all == [d \in DOMAIN loads |-> loads[d].keeps]
  <2>1. /\ top \notin DOMAIN few /\ DOMAIN all = DOMAIN few \cup {top}
        /\ \A d \in DOMAIN few : all[d] = few[d]
    BY <1>1
  <2>2. DOMAIN all[top] = {}
    BY <1>1
  <2> HIDE DEF few, all
  <2>3. Occurrences(all, n) = Occurrences(few, n)
    BY <2>1, <2>2, RowAdded
  <2>4. QED BY <2>3 DEF ByKeeps, few, all
<1>3. ByUses(n) = Occurrences([d \in DOMAIN rest |-> rest[d].uses], n)
  <2> DEFINE few == [d \in DOMAIN rest |-> rest[d].uses]
             all == [d \in DOMAIN loads |-> loads[d].uses]
  <2>1. /\ top \notin DOMAIN few /\ DOMAIN all = DOMAIN few \cup {top}
        /\ \A d \in DOMAIN few : all[d] = few[d]
    BY <1>1
  <2>2. DOMAIN all[top] = {}
    BY <1>1
  <2> HIDE DEF few, all
  <2>3. Occurrences(all, n) = Occurrences(few, n)
    BY <2>1, <2>2, RowAdded
  <2>4. QED BY <2>3 DEF ByUses, few, all
<1>4. \A d \in DOMAIN rest : loads[d].made = 0
  <2>1. \A d \in DOMAIN rest : d \in DOMAIN loads /\ d < top
    BY <1>1
  <2>2. \A d \in DOMAIN loads : d < top => ~loads[d].leaving /\ (~loads[d].leaving => loads[d].made = 0)
    BY DEF LoaderInv, StackInv, Wanting, top
  <2>3. QED BY <2>1, <2>2
<1>5. n # 0
  BY LoaderFacts DEF LoaderInv
<1>6. /\ n # Top.made => ByMaking(n) = {}
      /\ n = Top.made => ByMaking(n) = {top}
  BY <1>1, <1>4, <1>5 DEF ByMaking
<1>7. QED BY <1>2, <1>3, <1>6 DEF rest, top

LEMMA ReturnsToClient ==
    ASSUME LoaderInv, Return, Len(loads) = 1, loads' = <<>>,
           holding' = [holding EXCEPT ![caller] = Top.made], caller' = Nothing
    PROVE  LoaderInv'
<1>1. /\ Running /\ Top.leaving /\ Top.keeps = <<>> /\ Top.uses = <<>> /\ UNCHANGED <<records, objects, scanned>>
      /\ assets' = IF Top.made = 0 THEN assets ELSE Append(assets, Top.made)
  BY DEF Return
<1>2. /\ 1 \in DOMAIN loads /\ Top = loads[1] /\ Top.made \in Nat /\ loads # <<>> /\ DOMAIN Front(loads) = {}
      /\ holding \in [Clients -> Nat]
  BY <1>1, TopFacts, LoaderFacts, Popped DEF LoaderInv, LoaderTypeOK, Running
<1>3. caller \in Clients /\ holding[caller] = 0 /\ scanned = 0
  BY <1>2, LoaderAssumption DEF LoaderInv, LoaderTypeOK, StackInv
<1>4. /\ assets' \in Seq(DOMAIN objects') /\ ListInv' /\ HeldInv'
      /\ InList' = IF Top.made = 0 THEN InList ELSE InList \cup {Top.made}
      /\ UniqueInv'
  BY <1>1, ListedNow DEF UniqueInv
<1>5. LoaderTypeOK'
  <2>1. <<>> \in Seq(RunningLoads)
    BY EmptySeq
  <2>2. QED BY <1>1, <1>2, <1>4, <2>1 DEF LoaderInv, LoaderTypeOK
<1>6. HoldingInv'
  BY <1>2, <1>3, <1>4 DEF LoaderInv, HoldingInv
<1>7. PartsInv' /\ StackInv'
  BY <1>1, <1>3 DEF PartsInv, StackInv
<1>8. ASSUME NEW n \in DOMAIN objects PROVE Account(n)'
  <2>1. ByAssets(n)' = ByAssets(n)
    BY <1>1 DEF ByAssets
  <2>2. ByKeeps(n) = {} /\ ByUses(n) = {} /\ ByKeeps(n)' = {} /\ ByUses(n)' = {} /\ ByMaking(n)' = {}
    <3>1. \A rows : DOMAIN rows = {} => Occurrences(rows, n) = {}
      BY DEF Occurrences
    <3>2. /\ ByKeeps(n) = Occurrences([d \in DOMAIN Front(loads) |-> Front(loads)[d].keeps], n)
          /\ ByUses(n) = Occurrences([d \in DOMAIN Front(loads) |-> Front(loads)[d].uses], n)
      BY <1>1, ReturnedBooks
    <3>3. ByKeeps(n) = {} /\ ByUses(n) = {}
      BY <1>2, <3>1, <3>2
    <3>4. ByKeeps(n)' = {} /\ ByUses(n)' = {} /\ ByMaking(n)' = {}
      BY <3>1 DEF ByKeeps, ByUses, ByMaking
    <3>5. QED BY <3>3, <3>4
  <2>3. /\ n # Top.made => ByMaking(n) = {}
        /\ n = Top.made => ByMaking(n) = {1}
    BY <1>1, ReturnedBooks
  <2>4. Account(n) /\ objects[n].refs \in Int /\ n # 0
    BY LoaderFacts DEF LoaderInv, AccountInv
  <2>5. Counts(ByKeeps(n), ByKeeps(n)', 0) /\ Counts(ByUses(n), ByUses(n)', 0) /\ Counts(ByAssets(n), ByAssets(n)', 0)
    BY <2>1, <2>2, CountsNone
  <2>6. CASE n # Top.made
    <3>1. ByClients(n)' = ByClients(n)
      BY <1>2, <1>3, <2>4, <2>6 DEF ByClients
    <3>2. Counts(ByClients(n), ByClients(n)', 0) /\ Counts(ByMaking(n), ByMaking(n)', 0)
      BY <2>2, <2>3, <2>6, <3>1, CountsNone
    <3>3. objects'[n].refs = objects[n].refs + 0 + 0 + 0 + 0 + 0
      BY <1>1, <2>4
    <3>4. QED BY <2>4, <2>5, <3>2, <3>3, Balance
  <2>7. CASE n = Top.made
    <3>0. PICK c, before, after : c = caller /\ before = ByClients(n) /\ after = ByClients(n)'
      OBVIOUS
    <3>1. c \notin before /\ after = before \cup {c}
      BY <1>2, <1>3, <2>4, <2>7, <3>0 DEF ByClients
    <3>2. Counts(before, after, 1)
      BY <3>1, CountsOne
    <3>3. Counts(ByClients(n), ByClients(n)', 1) /\ Counts(ByMaking(n), ByMaking(n)', -1)
      <4>1. ByMaking(n) = {} \cup {1} /\ ByMaking(n)' = {} /\ 1 \notin {}
        BY <2>2, <2>3, <2>7
      <4>2. Counts({} \cup {1}, {}, -1)
        BY CountsOne
      <4>3. QED BY <3>0, <3>2, <4>1, <4>2
    <3>4. objects'[n].refs = objects[n].refs + 1 + 0 + 0 + 0 + (-1)
      BY <1>1, <2>4
    <3>5. QED BY <2>4, <2>5, <3>3, <3>4, Balance
  <2>8. QED BY <2>6, <2>7
<1>9. AccountInv'
  BY <1>1, <1>8 DEF AccountInv
<1>10. QED BY <1>4, <1>5, <1>6, <1>7, <1>9 DEF LoaderInv

LEMMA ReturnsToLoad ==
    ASSUME LoaderInv, Return, Len(loads) > 1,
           loads' = [Front(loads) EXCEPT ![Len(loads) - 1] = WithPart(@, Top.made)],
           UNCHANGED <<holding, caller>>
    PROVE  LoaderInv'
<1>0. PICK top, made, around, rest, load :
         /\ top = Len(loads) /\ made = Top.made /\ around = Len(loads) - 1 /\ rest = Front(loads)
         /\ load = WithPart(Front(loads)[Len(loads) - 1], Top.made)
  OBVIOUS
<1>1. /\ Running /\ Top.leaving /\ Top.keeps = <<>> /\ Top.uses = <<>> /\ UNCHANGED <<records, objects, scanned>>
      /\ assets' = IF Top.made = 0 THEN assets ELSE Append(assets, Top.made)
  BY DEF Return
<1>2. /\ rest \in Seq(RunningLoads) /\ Len(rest) = around /\ DOMAIN rest = 1 .. around
      /\ DOMAIN loads = DOMAIN rest \cup {top} /\ top \notin DOMAIN rest
      /\ \A d \in DOMAIN rest : rest[d] = loads[d]
      /\ top \in Nat /\ around \in DOMAIN rest /\ around + 1 = top
      /\ Top = loads[top] /\ Top.id \in AssetIds /\ made \in Nat /\ top \in DOMAIN loads
  BY <1>0, <1>1, TopFacts, LoaderFacts, Popped DEF LoaderInv
<1>3. /\ rest[around] \in RunningLoads /\ rest[around] = loads[around]
      /\ Wanting(loads[around]) /\ Top.id = Wanted(loads[around])
      /\ loads[around].made = 0 /\ ~loads[around].leaving
  <2>1. around \in DOMAIN loads /\ around < Len(loads)
    BY <1>0, <1>2
  <2>2. Wanting(loads[around]) /\ Top.id = Wanted(loads[around]) /\ loads[around] \in RunningLoads
    BY <1>2, <2>1, LoaderFacts DEF LoaderInv, StackInv
  <2>3. ~loads[around].leaving => loads[around].made = 0
    BY <2>1 DEF LoaderInv, StackInv
  <2>4. QED BY <1>2, <2>2, <2>3 DEF Wanting
<1>4. /\ load \in RunningLoads /\ load.id = loads[around].id /\ load.made = 0
      /\ \/ /\ made = 0 /\ load.keeps = loads[around].keeps /\ load.uses = loads[around].uses
         \/ /\ made # 0 /\ Top.id \in Keeps[loads[around].id]
            /\ load.keeps = Append(loads[around].keeps, made) /\ load.uses = loads[around].uses
         \/ /\ made # 0
            /\ load.keeps = loads[around].keeps /\ load.uses = Append(loads[around].uses, made)
  <2>1. PICK old : old = loads[around]
    OBVIOUS
  <2>2. load = WithPart(old, made) /\ old \in RunningLoads /\ old.made = 0 /\ Top.id = Wanted(old)
    BY <1>0, <1>3, <2>1
  <2>3. /\ load \in RunningLoads /\ load.id = old.id /\ load.made = old.made
        /\ made = 0 => load.keeps = old.keeps /\ load.uses = old.uses
        /\ made # 0 /\ Wanted(old) \in Keeps[old.id] =>
              load.keeps = Append(old.keeps, made) /\ load.uses = old.uses
        /\ made # 0 /\ Wanted(old) \notin Keeps[old.id] =>
              load.keeps = old.keeps /\ load.uses = Append(old.uses, made)
    BY <1>2, <2>2, PartFields
  <2>4. QED BY <2>1, <2>2, <2>3
<1>5. /\ loads' \in Seq(RunningLoads) /\ Len(loads') = around /\ DOMAIN loads' = DOMAIN rest /\ loads' # <<>>
      /\ loads'[around] = load /\ \A d \in DOMAIN rest : d # around => loads'[d] = loads[d]
  <2>1. loads' = [rest EXCEPT ![around] = load]
    BY <1>0
  <2>2. /\ loads' \in Seq(RunningLoads) /\ Len(loads') = around
        /\ \A d \in 1 .. around : loads'[d] = IF d = around THEN load ELSE rest[d]
    <3>1. /\ rest \in Seq(RunningLoads) /\ load \in RunningLoads
          /\ around \in 1 .. Len(rest) /\ Len(rest) = around
      BY <1>2, <1>4
    <3>2. /\ [rest EXCEPT ![around] = load] \in Seq(RunningLoads)
          /\ Len([rest EXCEPT ![around] = load]) = Len(rest)
          /\ \A d \in 1 .. Len(rest) : [rest EXCEPT ![around] = load][d] = IF d = around THEN load ELSE rest[d]
      BY <3>1, ExceptSeq
    <3>3. QED BY <2>1, <3>1, <3>2
  <2>3. DOMAIN loads' = DOMAIN rest
    BY <1>2, <2>2, LenProperties
  <2>4. loads' # <<>>
    BY <1>2, <2>3
  <2>5. QED BY <1>2, <2>2, <2>3, <2>4
<1>6. /\ assets' \in Seq(DOMAIN objects') /\ ListInv' /\ HeldInv'
      /\ InList' = IF made = 0 THEN InList ELSE InList \cup {made}
      /\ \A i, j \in DOMAIN assets' :
            objects'[assets'[i]].id = objects'[assets'[j]].id /\ objects'[assets'[i]].id \notin Named => i = j
      /\ \A id \in AssetIds : id # Top.id /\ Places(id) = {} => (Places(id) = {})'
  BY <1>0, <1>1, ListedNow
<1>7. LoaderTypeOK'
  BY <1>1, <1>5, <1>6 DEF LoaderInv, LoaderTypeOK, Return
<1>8. HoldingInv'
  BY <1>6 DEF LoaderInv, HoldingInv
<1>9. \A d \in DOMAIN rest : d \in DOMAIN loads /\ d < top /\ loads'[d].id = loads[d].id /\ loads[d].id \in AssetIds
  <2>1. \A d \in DOMAIN rest : d \in DOMAIN loads /\ d < top
    BY <1>2
  <2>2. QED BY <1>4, <1>5, <2>1, LoaderFacts DEF LoaderInv
<1>10. UniqueInv'
  <2>1. ASSUME NEW d \in DOMAIN rest PROVE (Places(loads[d].id) = {})'
    <3>1. Rank[Top.id] < Rank[loads[d].id]
      BY <1>0, <1>2, <1>9 DEF LoaderInv, StackInv
    <3>2. Rank[Top.id] \in Int /\ Rank[loads[d].id] \in Int
      BY <1>2, <1>9, RankFalls
    <3>3. loads[d].id # Top.id
      BY <3>1, <3>2
    <3>4. PICK id : id = loads[d].id
      OBVIOUS
    <3>5. Places(id) = {}
      BY <1>9, <3>4 DEF LoaderInv, UniqueInv
    <3>6. (Places(id) = {})'
      BY <1>6, <1>9, <3>3, <3>4, <3>5
    <3>7. loads'[d].id = id
      BY <1>9, <3>4
    <3>8. QED BY <3>6, <3>7
  <2>2. QED BY <1>5, <1>6, <2>1 DEF UniqueInv
<1>11. StackInv'
  <2>1. ASSUME NEW d \in DOMAIN loads'
        PROVE  /\ d < Len(loads') => Wanting(loads'[d]) /\ loads'[d + 1].id = Wanted(loads'[d])
               /\ ~loads'[d].leaving => loads'[d].made = 0
               /\ loads'[d].made # 0 => /\ loads'[d].made \in DOMAIN objects' \ InList'
                                        /\ objects'[loads'[d].made].id = loads'[d].id
    <3>1. CASE d = around
      BY <1>4, <1>5, <3>1
    <3>2. CASE d < around
      <4>1. d + 1 \in DOMAIN rest /\ d \in DOMAIN rest /\ d < Len(loads) /\ loads'[d] = loads[d]
        BY <1>0, <1>2, <1>5, <3>2
      <4>2. loads'[d + 1].id = loads[d + 1].id
        BY <1>9, <4>1
      <4>3. d \in DOMAIN loads /\ Wanting(loads[d]) /\ loads[d + 1].id = Wanted(loads[d])
        BY <1>9, <4>1 DEF LoaderInv, StackInv
      <4>4. loads[d].made = 0
        BY <4>3 DEF LoaderInv, StackInv, Wanting
      <4>5. QED BY <4>1, <4>2, <4>3, <4>4
    <3>3. QED BY <1>2, <1>5, <3>1, <3>2
  <2>2. (caller = Nothing <=> loads = <<>>)' /\ (loads # <<>> => scanned = 0 /\ holding[caller] = 0)'
    BY <1>1, <1>5 DEF LoaderInv, StackInv, Running
  <2>3. \A d, e \in DOMAIN loads' : d < e => Rank[loads'[e].id] < Rank[loads'[d].id]
    BY <1>5, <1>9 DEF LoaderInv, StackInv
  <2>4. QED BY <2>1, <2>2, <2>3 DEF StackInv, Wanting, Wanted
<1>12. PartsInv'
  <2>1. PICK old : old = loads[around]
    OBVIOUS
  <2>2. /\ old.keeps \in Seq(Nat) /\ old.uses \in Seq(Nat) /\ around \in DOMAIN loads
        /\ \A i \in DOMAIN old.keeps : old.keeps[i] \in InList /\ objects[old.keeps[i]].id \in Keeps[old.id]
        /\ \A i \in DOMAIN old.uses : old.uses[i] \in InList
    BY <1>2, <1>9, <2>1, LoaderFacts DEF LoaderInv, PartsInv
  <2>3. made # 0 => made \in InList' /\ objects[made].id = Top.id
    BY <1>0, <1>2, <1>6 DEF LoaderInv, StackInv
  <2>4. InList \subseteq InList'
    BY <1>6
  <2>5. /\ \A i \in DOMAIN load.keeps : load.keeps[i] \in InList' /\ objects[load.keeps[i]].id \in Keeps[old.id]
        /\ \A i \in DOMAIN load.uses : load.uses[i] \in InList'
    <3>1. CASE load.keeps = old.keeps /\ load.uses = old.uses
      BY <2>2, <2>4, <3>1
    <3>2. CASE made # 0 /\ Top.id \in Keeps[old.id] /\ load.keeps = Append(old.keeps, made) /\ load.uses = old.uses
      <4>1. \A i \in DOMAIN load.keeps :
               (i \in DOMAIN old.keeps /\ load.keeps[i] = old.keeps[i]) \/ load.keeps[i] = made
        BY <1>2, <2>2, <3>2, AppendedIn
      <4>2. QED BY <2>2, <2>3, <2>4, <3>2, <4>1
    <3>3. CASE made # 0 /\ load.keeps = old.keeps /\ load.uses = Append(old.uses, made)
      <4>1. \A i \in DOMAIN load.uses :
               (i \in DOMAIN old.uses /\ load.uses[i] = old.uses[i]) \/ load.uses[i] = made
        BY <1>2, <2>2, <3>3, AppendedIn
      <4>2. QED BY <2>2, <2>3, <2>4, <3>3, <4>1
    <3>4. QED BY <1>4, <2>1, <3>1, <3>2, <3>3
  <2>6. ASSUME NEW d \in DOMAIN loads'
        PROVE  /\ \A i \in DOMAIN loads'[d].keeps :
                     loads'[d].keeps[i] \in InList' /\ objects'[loads'[d].keeps[i]].id \in Keeps[loads'[d].id]
               /\ \A i \in DOMAIN loads'[d].uses : loads'[d].uses[i] \in InList'
    <3>1. CASE d = around
      BY <1>1, <1>4, <1>5, <2>1, <2>5, <3>1
    <3>2. CASE d # around
      BY <1>1, <1>5, <1>9, <2>4, <3>2 DEF LoaderInv, PartsInv
    <3>3. QED BY <3>1, <3>2
  <2>7. QED BY <2>6 DEF PartsInv
<1>13. ASSUME NEW n \in DOMAIN objects PROVE Account(n)'
  <2>1. ByAssets(n)' = ByAssets(n) /\ ByClients(n)' = ByClients(n)
    BY <1>1 DEF ByAssets, ByClients
  <2>2. ByMaking(n)' = {}
    <3>1. n # 0
      BY LoaderFacts DEF LoaderInv
    <3>2. \A d \in DOMAIN loads' : loads'[d].made = 0
      <4>1. \A d \in DOMAIN rest : d # around => loads[d].made = 0
        BY <1>0, <1>9 DEF LoaderInv, StackInv, Wanting
      <4>2. QED BY <1>4, <1>5, <4>1
    <3>3. QED BY <3>1, <3>2 DEF ByMaking
  <2>3. /\ n # made => ByMaking(n) = {}
        /\ n = made => ByMaking(n) = {top}
    BY <1>0, <1>1, ReturnedBooks
  <2>4. Account(n) /\ objects[n].refs \in Int /\ n # 0
    BY LoaderFacts DEF LoaderInv, AccountInv
  <2>5. Counts(ByAssets(n), ByAssets(n)', 0) /\ Counts(ByClients(n), ByClients(n)', 0)
    BY <2>1, CountsNone
  <2>6. /\ n # made => Counts(ByMaking(n), ByMaking(n)', 0)
        /\ n = made => Counts(ByMaking(n), ByMaking(n)', -1)
    <3>1. n = made => top \notin ByMaking(n)' /\ ByMaking(n) = ByMaking(n)' \cup {top}
      BY <2>2, <2>3
    <3>2. QED BY <2>2, <2>3, <3>1, CountsNone, CountsOne
  <2> DEFINE keeps == [d \in DOMAIN rest |-> rest[d].keeps]
             keeping == [d \in DOMAIN loads' |-> loads'[d].keeps]
             uses == [d \in DOMAIN rest |-> rest[d].uses]
             using == [d \in DOMAIN loads' |-> loads'[d].uses]
  <2>7. /\ ByKeeps(n) = Occurrences(keeps, n) /\ ByUses(n) = Occurrences(uses, n)
        /\ ByKeeps(n)' = Occurrences(keeping, n) /\ ByUses(n)' = Occurrences(using, n)
    BY <1>0, <1>1, ReturnedBooks DEF ByKeeps, ByUses
  <2>8. /\ around \in DOMAIN keeps /\ DOMAIN keeping = DOMAIN keeps
        /\ \A d \in DOMAIN keeps : d # around => keeping[d] = keeps[d]
        /\ keeps[around] = loads[around].keeps /\ keeping[around] = load.keeps /\ keeps[around] \in Seq(Nat)
    BY <1>2, <1>5, <1>9, LoaderFacts DEF LoaderInv
  <2>9. /\ around \in DOMAIN uses /\ DOMAIN using = DOMAIN uses
        /\ \A d \in DOMAIN uses : d # around => using[d] = uses[d]
        /\ uses[around] = loads[around].uses /\ using[around] = load.uses /\ uses[around] \in Seq(Nat)
    BY <1>2, <1>5, <1>9, LoaderFacts DEF LoaderInv
  <2>10. /\ load.keeps = loads[around].keeps => keeping = keeps
         /\ load.uses = loads[around].uses => using = uses
    <3>1. load.keeps = loads[around].keeps => \A d \in DOMAIN rest : loads'[d].keeps = rest[d].keeps
      BY <1>2, <1>5
    <3>2. load.uses = loads[around].uses => \A d \in DOMAIN rest : loads'[d].uses = rest[d].uses
      BY <1>2, <1>5
    <3>3. QED BY <1>5, <3>1, <3>2
  <2> HIDE DEF keeps, keeping, uses, using
  <2>11. CASE made = 0 /\ load.keeps = loads[around].keeps /\ load.uses = loads[around].uses
    <3>1. Counts(ByKeeps(n), ByKeeps(n)', 0) /\ Counts(ByUses(n), ByUses(n)', 0)
      BY <2>7, <2>10, <2>11, CountsNone
    <3>2. objects'[n].refs = objects[n].refs + 0 + 0 + 0 + 0 + 0
      BY <1>1, <2>4
    <3>3. n # made
      BY <2>4, <2>11
    <3>4. QED BY <2>4, <2>5, <2>6, <3>1, <3>2, <3>3, Balance
  <2>12. CASE made # 0 /\ load.keeps = Append(loads[around].keeps, made) /\ load.uses = loads[around].uses
    <3>1. /\ n # made => Occurrences(keeping, n) = Occurrences(keeps, n)
          /\ n = made => Counts(Occurrences(keeps, n), Occurrences(keeping, n), 1)
      <4>1. keeps[around] \in Seq(Nat) /\ keeping[around] = Append(keeps[around], made) /\ made \in Nat
        BY <1>2, <2>8, <2>12
      <4>2. \A m : /\ m # made => Occurrences(keeping, m) = Occurrences(keeps, m)
                   /\ m = made => Counts(Occurrences(keeps, m), Occurrences(keeping, m), 1)
        BY <2>8, <4>1, RowAppended
      <4>3. QED BY <4>2
    <3>2. Counts(ByUses(n), ByUses(n)', 0)
      BY <2>7, <2>10, <2>12, CountsNone
    <3>3. CASE n # made
      <4>1. Counts(ByKeeps(n), ByKeeps(n)', 0)
        BY <2>7, <3>1, <3>3, CountsNone
      <4>2. objects'[n].refs = objects[n].refs + 0 + 0 + 0 + 0 + 0
        BY <1>1, <2>4
      <4>3. QED BY <2>4, <2>5, <2>6, <3>2, <3>3, <4>1, <4>2, Balance
    <3>4. CASE n = made
      <4>1. Counts(ByKeeps(n), ByKeeps(n)', 1)
        BY <2>7, <3>1, <3>4
      <4>2. objects'[n].refs = objects[n].refs + 0 + 0 + 1 + 0 + (-1)
        BY <1>1, <2>4
      <4>3. QED BY <2>4, <2>5, <2>6, <3>2, <3>4, <4>1, <4>2, Balance
    <3>5. QED BY <3>3, <3>4
  <2>13. CASE made # 0 /\ load.keeps = loads[around].keeps /\ load.uses = Append(loads[around].uses, made)
    <3>1. /\ n # made => Occurrences(using, n) = Occurrences(uses, n)
          /\ n = made => Counts(Occurrences(uses, n), Occurrences(using, n), 1)
      <4>1. uses[around] \in Seq(Nat) /\ using[around] = Append(uses[around], made) /\ made \in Nat
        BY <1>2, <2>9, <2>13
      <4>2. \A m : /\ m # made => Occurrences(using, m) = Occurrences(uses, m)
                   /\ m = made => Counts(Occurrences(uses, m), Occurrences(using, m), 1)
        BY <2>9, <4>1, RowAppended
      <4>3. QED BY <4>2
    <3>2. Counts(ByKeeps(n), ByKeeps(n)', 0)
      BY <2>7, <2>10, <2>13, CountsNone
    <3>3. CASE n # made
      <4>1. Counts(ByUses(n), ByUses(n)', 0)
        BY <2>7, <3>1, <3>3, CountsNone
      <4>2. objects'[n].refs = objects[n].refs + 0 + 0 + 0 + 0 + 0
        BY <1>1, <2>4
      <4>3. QED BY <2>4, <2>5, <2>6, <3>2, <3>3, <4>1, <4>2, Balance
    <3>4. CASE n = made
      <4>1. Counts(ByUses(n), ByUses(n)', 1)
        BY <2>7, <3>1, <3>4
      <4>2. objects'[n].refs = objects[n].refs + 0 + 0 + 0 + 1 + (-1)
        BY <1>1, <2>4
      <4>3. QED BY <2>4, <2>5, <2>6, <3>2, <3>4, <4>1, <4>2, Balance
    <3>5. QED BY <3>3, <3>4
  <2>14. QED BY <1>4, <2>11, <2>12, <2>13
<1>14. AccountInv'
  BY <1>1, <1>13 DEF AccountInv
<1>15. QED BY <1>6, <1>7, <1>8, <1>10, <1>11, <1>12, <1>14 DEF LoaderInv

-----------------------------------------------------------------------------
(* The collection *)

LEMMA RemovedAt ==
    ASSUME NEW S, NEW s \in Seq(S), NEW k \in DOMAIN s
    PROVE  /\ RemoveAt(s, k) \in Seq(S) /\ DOMAIN RemoveAt(s, k) = 1 .. Len(s) - 1
           /\ \A i \in 1 .. Len(s) - 1 : RemoveAt(s, k)[i] = s[IF i < k THEN i ELSE i + 1]
<1> DEFINE n == Len(s)
           a == SubSeq(s, 1, k - 1)
           b == SubSeq(s, k + 1, n)
<1>1. n \in Nat /\ DOMAIN s = 1 .. n /\ k \in 1 .. n /\ \A i \in 1 .. n : s[i] \in S
  BY LenProperties, ElementOfSeq
<1>2. /\ a \in Seq(S) /\ Len(a) = k - 1 /\ \A i \in 1 .. k - 1 : a[i] = s[i]
  <2>1. 1 \in Int /\ k - 1 \in Int /\ \A i \in 1 .. k - 1 : s[i] \in S
    BY <1>1
  <2>2. /\ SubSeq(s, 1, k - 1) \in Seq(S)
        /\ Len(SubSeq(s, 1, k - 1)) = IF 1 <= k - 1 THEN k - 1 - 1 + 1 ELSE 0
        /\ \A i \in 1 .. (k - 1) - 1 + 1 : SubSeq(s, 1, k - 1)[i] = s[1 + i - 1]
    BY <2>1, SubSeqProperties
  <2>3. QED BY <1>1, <2>2
<1>3. /\ b \in Seq(S) /\ Len(b) = n - k /\ \A i \in 1 .. n - k : b[i] = s[k + i]
  <2>1. k + 1 \in Int /\ n \in Int /\ \A i \in k + 1 .. n : s[i] \in S
    BY <1>1
  <2> HIDE DEF n
  <2>2. /\ SubSeq(s, k + 1, n) \in Seq(S)
        /\ Len(SubSeq(s, k + 1, n)) = IF k + 1 <= n THEN n - (k + 1) + 1 ELSE 0
        /\ \A i \in 1 .. n - (k + 1) + 1 : SubSeq(s, k + 1, n)[i] = s[k + 1 + i - 1]
    BY <2>1, SubSeqProperties
  <2>3. QED BY <1>1, <2>2
<1>4. RemoveAt(s, k) = a \o b
  BY DEF RemoveAt
<1> HIDE DEF a, b, n
<1>5. /\ a \o b \in Seq(S) /\ Len(a \o b) = Len(a) + Len(b)
      /\ \A i \in 1 .. Len(a) + Len(b) : (a \o b)[i] = IF i <= Len(a) THEN a[i] ELSE b[i - Len(a)]
  BY <1>2, <1>3, ConcatProperties
<1>6. Len(a) + Len(b) = n - 1
  BY <1>1, <1>2, <1>3
<1>7. DOMAIN (a \o b) = 1 .. n - 1
  BY <1>5, <1>6, LenProperties
<1>8. ASSUME NEW i \in 1 .. n - 1 PROVE (a \o b)[i] = s[IF i < k THEN i ELSE i + 1]
  <2>1. (a \o b)[i] = IF i <= k - 1 THEN a[i] ELSE b[i - (k - 1)]
    BY <1>2, <1>5, <1>6
  <2>2. CASE i < k
    BY <1>1, <1>2, <2>1, <2>2
  <2>3. CASE ~(i < k)
    <3>1. i - (k - 1) \in 1 .. n - k /\ ~(i <= k - 1) /\ k + (i - (k - 1)) = i + 1
      BY <1>1, <2>3
    <3>2. b[i - (k - 1)] = s[k + (i - (k - 1))]
      BY <1>3, <3>1
    <3>3. QED BY <2>1, <2>3, <3>1, <3>2
  <2>4. QED BY <2>2, <2>3
<1>9. QED BY <1>4, <1>5, <1>7, <1>8 DEF n

\* A collection runs while no load does; the asset it looks at has no handle
\* if it is doomed.
LEMMA Doomed ==
    ASSUME LoaderInv, Collecting, IsDoomed(assets[scanned])
    PROVE  /\ loads = <<>> /\ caller = Nothing
           /\ scanned \in DOMAIN assets /\ assets[scanned] \in DOMAIN objects /\ assets[scanned] \in InList
           /\ \A c \in Clients : holding[c] # assets[scanned]
           /\ \A m \in DOMAIN objects : \A i \in DOMAIN objects[m].held : objects[m].held[i] # assets[scanned]
<1>1. PICK n : n = assets[scanned]
  OBVIOUS
<1>2. scanned \in DOMAIN assets /\ n \in DOMAIN objects /\ n \in InList /\ scanned # 0 /\ objects[n].refs = 0
  BY <1>1, LoaderFacts DEF LoaderInv, Collecting, InList, IsDoomed
<1>3. loads = <<>> /\ caller = Nothing
  BY <1>2 DEF LoaderInv, StackInv
<1>4. ByClients(n) = {} /\ ByAssets(n) = {}
  BY <1>2, NoneBooked
<1>5. \A c \in Clients : holding[c] # n
  BY <1>4 DEF ByClients
<1>6. ASSUME NEW m \in DOMAIN objects, NEW i \in DOMAIN objects[m].held, objects[m].held[i] = n PROVE FALSE
  <2> DEFINE rows == [k \in DOMAIN objects |-> objects[k].held]
  <2>1. m \in DOMAIN rows /\ rows[m] = objects[m].held
    OBVIOUS
  <2> HIDE DEF rows
  <2>2. <<m, i>> \in Occurrences(rows, n)
    BY <1>6, <2>1, OccurrencesAt
  <2>3. QED BY <1>4, <2>2 DEF ByAssets, rows
<1>7. QED BY <1>1, <1>2, <1>3, <1>5, <1>6

LEMMA LetsGo ==
    ASSUME LoaderInv, Collecting, IsDoomed(assets[scanned]), LetGo(assets[scanned]),
           UNCHANGED <<records, holding, caller, loads>>
    PROVE  LoaderInv'
<1>1. PICK n : n = assets[scanned]
  OBVIOUS
<1>2. /\ loads = <<>> /\ n \in DOMAIN objects /\ n \in InList
      /\ \A m \in DOMAIN objects : \A i \in DOMAIN objects[m].held : objects[m].held[i] # n
  BY <1>1, Doomed
<1>3. PICK held, x : held = objects[n].held /\ x = Last(held)
  OBVIOUS
<1>4. /\ held \in Seq(Nat) /\ held # <<>> /\ UNCHANGED <<assets, scanned>>
      /\ objects' = [RemoveRef(objects, x) EXCEPT ![n].held = Front(@)]
  BY <1>1, <1>2, <1>3, LoaderFacts DEF LoaderInv, LetGo
<1>5. x \in InList /\ x \in DOMAIN objects /\ x # n /\ Front(held) \in Seq(Nat)
  <2>1. (\E i \in DOMAIN held : held[i] = x) /\ Front(held) \in Seq(Nat)
    BY <1>3, <1>4, FrontIn
  <2>2. x \in InList /\ x # n
    BY <1>2, <1>3, <2>1 DEF LoaderInv, HeldInv
  <2>3. QED BY <2>1, <2>2, LoaderFacts DEF LoaderInv, InList
<1>6. /\ Counted(x, -1) /\ objects'[n].held = Front(held)
      /\ \A m \in DOMAIN objects : m # n => objects'[m].held = objects[m].held
  <2>1. /\ objects \in Seq(Objects) /\ objects[x] \in Objects /\ objects[x].refs \in Int
        /\ objects[n] \in Objects /\ DOMAIN objects = 1 .. Len(objects) /\ Len(objects) \in Nat
    BY <1>2, <1>5, LoaderFacts DEF LoaderInv, LoaderTypeOK
  <2> DEFINE newX == [objects[x] EXCEPT !.refs = @ - 1]
             newN == [objects[n] EXCEPT !.held = Front(held)]
             mid == [objects EXCEPT ![x] = newX]
  <2>2. newX \in Objects /\ newX.refs = objects[x].refs + (-1) /\ newX.id = objects[x].id /\ newX.held = objects[x].held
    <3>1. objects[x].refs - 1 \in Int /\ objects[x].refs - 1 = objects[x].refs + (-1)
      BY <2>1
    <3>2. QED BY <2>1, <3>1 DEF Objects
  <2>3. newN \in Objects /\ newN.refs = objects[n].refs /\ newN.id = objects[n].id /\ newN.held = Front(held)
    BY <1>5, <2>1 DEF Objects
  <2>4. RemoveRef(objects, x) = mid
    BY DEF RemoveRef
  <2>5. mid[n] = objects[n] /\ mid[n].held = held
    BY <1>2, <1>3, <1>5
  <2>6. objects' = [mid EXCEPT ![n] = newN]
    BY <1>4, <2>4, <2>5
  <2> HIDE DEF newX, newN
  <2>7. mid \in Seq(Objects) /\ Len(mid) = Len(objects)
    BY <1>5, <2>1, <2>2, ExceptSeq
  <2>8. \A m \in DOMAIN objects : mid[m] = IF m = x THEN newX ELSE objects[m]
    OBVIOUS
  <2>9. DOMAIN mid = DOMAIN objects
    OBVIOUS
  <2> HIDE DEF mid
  <2>10. objects' \in Seq(Objects)
    <3>1. n \in 1 .. Len(mid)
      BY <1>2, <2>1, <2>7
    <3>2. [mid EXCEPT ![n] = newN] \in Seq(Objects)
      BY <2>3, <2>7, <3>1, ExceptSeq
    <3>3. QED BY <2>6, <3>2
  <2>11. DOMAIN objects' = DOMAIN objects /\ \A m \in DOMAIN objects : objects'[m] = IF m = n THEN newN ELSE mid[m]
    BY <2>6, <2>9
  <2>12. QED BY <1>2, <1>5, <2>2, <2>3, <2>8, <2>10, <2>11 DEF Counted
<1>7. LoaderTypeOK'
  BY <1>4, <1>6 DEF LoaderInv, LoaderTypeOK, Counted
<1>8. ListInv' /\ InList' = InList /\ UniqueInv'
  BY <1>2, <1>4, <1>6, ListSame DEF Counted, UniqueInv
<1>9. HoldingInv' /\ PartsInv' /\ StackInv'
  BY <1>2, <1>4, <1>8 DEF LoaderInv, HoldingInv, PartsInv, StackInv
<1>10. HeldInv'
  <2>1. \A m \in InList : m \in DOMAIN objects /\ objects'[m].id = objects[m].id
    BY <1>6, LoaderFacts DEF LoaderInv, InList, Counted
  <2>2. \A i \in DOMAIN Front(held) : i \in DOMAIN held /\ Front(held)[i] = held[i]
    BY <1>4, FrontIn
  <2>3. ASSUME NEW m \in DOMAIN objects, NEW i \in DOMAIN objects'[m].held
        PROVE  i \in DOMAIN objects[m].held /\ objects'[m].held[i] = objects[m].held[i]
    BY <1>3, <1>6, <2>2, <2>3
  <2>4. DOMAIN objects' = DOMAIN objects /\ \A m \in DOMAIN objects : objects'[m].id = objects[m].id
    BY <1>6 DEF Counted
  <2>5. HeldInv
    BY DEF LoaderInv
  <2>6. QED BY <1>8, <2>1, <2>3, <2>4, <2>5 DEF HeldInv
<1>11. AccountInv'
  <2>1. \A m : /\ ByClients(m)' = ByClients(m) /\ ByKeeps(m)' = ByKeeps(m)
               /\ ByUses(m)' = ByUses(m) /\ ByMaking(m)' = ByMaking(m)
    BY DEF ByClients, ByKeeps, ByUses, ByMaking
  <2>2. objects[x].refs \in Int /\ objects'[x].refs = objects[x].refs + (-1)
    BY <1>5, <1>6, LoaderFacts DEF Counted, LoaderInv
  <2>3. /\ Counts(ByClients(x), ByClients(x)', 0) /\ Counts(ByKeeps(x), ByKeeps(x)', 0)
        /\ Counts(ByUses(x), ByUses(x)', 0) /\ Counts(ByMaking(x), ByMaking(x)', 0)
    BY <2>1, CountsNone
  <2>4. \A m : /\ m # x => ByAssets(m)' = ByAssets(m)
               /\ m = x => Counts(ByAssets(m), ByAssets(m)', -1)
    <3> DEFINE rows == [m \in DOMAIN objects |-> objects[m].held]
               new == [m \in DOMAIN objects' |-> objects'[m].held]
    <3>1. /\ n \in DOMAIN rows /\ DOMAIN new = DOMAIN rows
          /\ \A m \in DOMAIN rows : m # n => new[m] = rows[m]
          /\ rows[n] = held /\ new[n] = Front(held)
      BY <1>2, <1>3, <1>6 DEF Counted
    <3> HIDE DEF rows, new
    <3>2. rows[n] \in Seq(Nat) /\ rows[n] # <<>> /\ new[n] = Front(rows[n]) /\ Last(rows[n]) = x
      BY <1>3, <1>4, <3>1
    <3>3. \A m : /\ m # Last(rows[n]) => Occurrences(new, m) = Occurrences(rows, m)
                 /\ m = Last(rows[n]) => Counts(Occurrences(rows, m), Occurrences(new, m), -1)
      BY <3>1, <3>2, RowShorter
    <3>4. \A m : ByAssets(m) = Occurrences(rows, m) /\ ByAssets(m)' = Occurrences(new, m)
      BY DEF ByAssets, rows, new
    <3>5. QED BY <3>2, <3>3, <3>4
  <2>5. objects'[x].refs = objects[x].refs + 0 + (-1) + 0 + 0 + 0
    BY <2>2
  <2>6. \A m \in DOMAIN objects : m # x =>
           /\ ByClients(m)' = ByClients(m) /\ ByAssets(m)' = ByAssets(m) /\ ByKeeps(m)' = ByKeeps(m)
           /\ ByUses(m)' = ByUses(m) /\ ByMaking(m)' = ByMaking(m)
    BY <2>1, <2>4
  <2>7. Counts(ByAssets(x), ByAssets(x)', -1) /\ AccountInv
    BY <2>4 DEF LoaderInv
  <2>8. QED BY <1>5, <1>6, <2>3, <2>5, <2>6, <2>7, OneBooked
<1>12. QED BY <1>7, <1>8, <1>9, <1>10, <1>11 DEF LoaderInv

LEMMA Erases ==
    ASSUME LoaderInv, Collecting, IsDoomed(assets[scanned]), Erase(assets[scanned]),
           UNCHANGED <<records, holding, caller, loads>>
    PROVE  LoaderInv'
<1>1. PICK n, at : n = assets[scanned] /\ at = scanned
  OBVIOUS
<1>2. /\ loads = <<>> /\ n \in DOMAIN objects /\ at \in DOMAIN assets /\ assets[at] = n
      /\ \A c \in Clients : holding[c] # n
      /\ \A m \in DOMAIN objects : \A i \in DOMAIN objects[m].held : objects[m].held[i] # n
  BY <1>1, Doomed
<1>3. /\ assets' = RemoveAt(assets, at) /\ UNCHANGED <<objects, scanned>>
      /\ assets \in Seq(DOMAIN objects) /\ Len(assets) \in Nat /\ DOMAIN assets = 1 .. Len(assets)
  BY <1>1, LoaderFacts DEF Erase, LoaderInv, LoaderTypeOK
<1> DEFINE before(i) == IF i < at THEN i ELSE i + 1
<1>4. /\ assets' \in Seq(DOMAIN objects) /\ DOMAIN assets' = 1 .. Len(assets) - 1
      /\ \A i \in 1 .. Len(assets) - 1 : assets'[i] = assets[before(i)]
  BY <1>2, <1>3, RemovedAt
<1>5. /\ \A i \in DOMAIN assets' : before(i) \in DOMAIN assets /\ before(i) # at
      /\ \A i, j \in DOMAIN assets' : before(i) = before(j) => i = j
      /\ \A j \in DOMAIN assets : j # at => \E i \in DOMAIN assets' : before(i) = j
  <2>1. at \in 1 .. Len(assets)
    BY <1>2, <1>3
  <2>2. ASSUME NEW j \in DOMAIN assets, j # at PROVE \E i \in DOMAIN assets' : before(i) = j
    <3>1. CASE j < at
      <4>1. j \in DOMAIN assets' /\ before(j) = j
        BY <1>3, <1>4, <2>1, <3>1
      <4>2. QED BY <4>1
    <3>2. CASE j > at
      <4>1. j - 1 \in DOMAIN assets' /\ before(j - 1) = j
        BY <1>3, <1>4, <2>1, <3>2
      <4>2. QED BY <4>1
    <3>3. QED BY <1>3, <2>1, <2>2, <3>1, <3>2
  <2>3. QED BY <1>3, <1>4, <2>1, <2>2
<1> HIDE DEF before
<1>6. /\ \A i \in DOMAIN assets' : assets'[i] = assets[before(i)]
      /\ \A m \in InList : m # n => m \in InList'
  <2>1. \A i \in DOMAIN assets' : assets'[i] = assets[before(i)]
    BY <1>4
  <2>2. ASSUME NEW m \in InList, m # n PROVE m \in InList'
    <3>1. PICK j \in DOMAIN assets : assets[j] = m
      BY <2>2 DEF InList
    <3>2. PICK i \in DOMAIN assets' : before(i) = j
      BY <1>2, <1>5, <2>2, <3>1
    <3>3. assets'[i] = m
      BY <2>1, <3>1, <3>2
    <3>4. QED BY <3>3 DEF InList
  <2>3. QED BY <2>1, <2>2
<1>7. LoaderTypeOK'
  BY <1>3, <1>4 DEF LoaderInv, LoaderTypeOK
<1>8. AccountInv'
  BY <1>3, BooksSame DEF ByKeeps, ByUses, ByMaking
<1>9. ListInv' /\ UniqueInv'
  <2>1. ListInv'
    BY <1>5, <1>6 DEF LoaderInv, ListInv
  <2>2. UniqueInv'
    BY <1>2, <1>3, <1>5, <1>6 DEF LoaderInv, UniqueInv
  <2>3. QED BY <2>1, <2>2
<1>10. HoldingInv'
  BY <1>2, <1>6 DEF LoaderInv, HoldingInv
<1>11. HeldInv'
  BY <1>2, <1>3, <1>6 DEF LoaderInv, HeldInv
<1>12. PartsInv' /\ StackInv'
  BY <1>2, <1>3 DEF LoaderInv, PartsInv, StackInv
<1>13. QED BY <1>7, <1>8, <1>9, <1>10, <1>11, <1>12 DEF LoaderInv

-----------------------------------------------------------------------------
(* Every step keeps the invariant *)

LEMMA LoaderStarts == LoaderInit => LoaderInv
<1> SUFFICES ASSUME LoaderInit PROVE LoaderInv
  OBVIOUS
<1>1. /\ records \subseteq AssetIds /\ objects = <<>> /\ assets = <<>> /\ loads = <<>>
      /\ holding = [c \in Clients |-> 0] /\ caller = Nothing /\ scanned = 0
  BY DEF LoaderInit
<1>2. LoaderTypeOK
  BY <1>1, EmptySeq DEF LoaderTypeOK
<1>3. AccountInv /\ ListInv /\ HeldInv /\ PartsInv /\ UniqueInv
  BY <1>1 DEF AccountInv, ListInv, HeldInv, PartsInv, UniqueInv
<1>4. HoldingInv /\ StackInv
  BY <1>1 DEF HoldingInv, StackInv
<1>5. QED BY <1>2, <1>3, <1>4 DEF LoaderInv

LEMMA LoadKeeps == ASSUME LoaderInv, NEW c \in Clients, NEW id \in AssetIds, Load(c, id) PROVE LoaderInv'
<1>1. NoCall /\ holding[c] = 0 /\ UNCHANGED <<records, assets, scanned>>
  BY DEF Load
<1>2. CASE \E n \in Find(id) :
             /\ objects' = AddRef(objects, n) /\ holding' = [holding EXCEPT ![c] = n]
             /\ UNCHANGED <<caller, loads>>
  <2>1. PICK n \in Find(id) : /\ objects' = AddRef(objects, n) /\ holding' = [holding EXCEPT ![c] = n]
                              /\ UNCHANGED <<caller, loads>>
    BY <1>2
  <2>2. n \in InList
    BY FindFacts DEF LoaderInv
  <2>3. QED BY <1>1, <2>1, <2>2, HandleTaken
<1>3. CASE CanBegin(id) /\ caller' = c /\ loads' = <<Started(id)>> /\ UNCHANGED <<objects, holding>>
  <2>1. loads = <<>> /\ scanned = 0 /\ Places(id) = {}
    BY <1>1, <1>3, FindFacts DEF NoCall, Running, CanBegin, LoaderInv
  <2>2. Append(loads, Started(id)) = <<Started(id)>>
    BY <2>1
  <2>3. loads' = Append(loads, Started(id)) /\ caller' \in Clients /\ holding[caller'] = 0
    BY <1>1, <1>3, <2>2
  <2>4. QED BY <1>1, <1>3, <2>1, <2>3, LoadBegins
<1>4. QED BY <1>2, <1>3 DEF Load

LEMMA LoadPartKeeps == ASSUME LoaderInv, LoadPart PROVE LoaderInv'
<1>1. Running /\ Wanting(Top) /\ UNCHANGED <<records, assets, holding, caller, scanned>>
  BY DEF LoadPart
<1>2. Wanted(Top) \in AssetIds
  BY <1>1, TopFacts, LoaderFacts, RankFalls DEF LoaderInv, Wanted, Wanting
<1>3. CASE \E n \in Find(Wanted(Top)) :
             objects' = AddRef(objects, n) /\ loads' = [loads EXCEPT ![Len(loads)] = WithPart(@, n)]
  BY <1>1, <1>3, PartFound
<1>4. CASE CanBegin(Wanted(Top)) /\ loads' = Append(loads, Started(Wanted(Top))) /\ UNCHANGED objects
  <2>1. PICK id \in AssetIds : id = Wanted(Top)
    BY <1>2
  <2>2. Places(id) = {} /\ loads # <<>> /\ scanned = 0
    BY <1>1, <1>4, <2>1, FindFacts DEF CanBegin, LoaderInv, StackInv, Running
  <2>3. loads' = Append(loads, Started(id)) /\ UNCHANGED objects
    BY <1>4, <2>1
  <2>4. QED BY <1>1, <2>1, <2>2, <2>3, LoadBegins
<1>5. CASE loads' = [loads EXCEPT ![Len(loads)] = WithPart(@, 0)] /\ UNCHANGED objects
  BY <1>1, <1>5, PartFails
<1>6. QED BY <1>3, <1>4, <1>5 DEF LoadPart

LEMMA LeaveKeeps == ASSUME LoaderInv, LeaveLoad PROVE LoaderInv'
<1>1. Running /\ Top.leaving /\ UNCHANGED <<records, assets, holding, caller, scanned>>
  BY DEF LeaveLoad
<1>2. CASE /\ Top.keeps # <<>> /\ objects' = RemoveRef(objects, Last(Top.keeps))
           /\ loads' = [loads EXCEPT ![Len(loads)].keeps = Front(@)]
  BY <1>1, <1>2, LeavesKeep
<1>3. CASE /\ Top.keeps = <<>> /\ Top.uses # <<>> /\ objects' = RemoveRef(objects, Last(Top.uses))
           /\ loads' = [loads EXCEPT ![Len(loads)].uses = Front(@)]
  BY <1>1, <1>3, LeavesUse
<1>4. QED BY <1>2, <1>3 DEF LeaveLoad

LEMMA ReturnKeeps == ASSUME LoaderInv, Return PROVE LoaderInv'
<1>1. CASE Len(loads) = 1 /\ holding' = [holding EXCEPT ![caller] = Top.made] /\ caller' = Nothing /\ loads' = <<>>
  BY <1>1, ReturnsToClient
<1>2. CASE /\ Len(loads) > 1 /\ loads' = [Front(loads) EXCEPT ![Len(loads) - 1] = WithPart(@, Top.made)]
           /\ UNCHANGED <<holding, caller>>
  BY <1>2, ReturnsToLoad
<1>3. QED BY <1>1, <1>2 DEF Return

LEMMA CopyKeeps ==
    ASSUME LoaderInv, NEW c \in Clients, NEW d \in Clients, CopyHandle(c, d) PROVE LoaderInv'
<1>1. PICK n : n = holding[d]
  OBVIOUS
<1>2. /\ NoCall /\ holding[c] = 0 /\ objects' = AddRef(objects, n) /\ holding' = [holding EXCEPT ![c] = n]
      /\ UNCHANGED <<records, assets, caller, loads, scanned>>
  BY <1>1 DEF CopyHandle
<1>3. n \in InList
  BY <1>1 DEF CopyHandle, LoaderInv, HoldingInv
<1>4. QED BY <1>2, <1>3, HandleTaken

\* Steps that change no handle.
LEMMA QuietKeeps ==
    ASSUME LoaderInv, UNCHANGED <<objects, assets, holding, caller, loads>>,
           records' \subseteq AssetIds, scanned' \in Nat, scanned' # 0 => loads = <<>>
    PROVE  LoaderInv'
<1>1. LoaderTypeOK' /\ AccountInv'
  BY BooksSame DEF LoaderInv, LoaderTypeOK, ByKeeps, ByUses, ByMaking
<1>2. ListInv' /\ HoldingInv' /\ HeldInv' /\ PartsInv'
  BY DEF LoaderInv, ListInv, HoldingInv, HeldInv, PartsInv, InList
<1>3. StackInv' /\ UniqueInv'
  BY DEF LoaderInv, StackInv, UniqueInv, InList, Places
<1>4. QED BY <1>1, <1>2, <1>3 DEF LoaderInv

LEMMA CollectKeeps == ASSUME LoaderInv, CollectDoomedAssets PROVE LoaderInv'
<1>1. Collecting /\ UNCHANGED <<records, holding, caller, loads>>
  BY DEF CollectDoomedAssets
<1>2. CASE IsDoomed(assets[scanned]) /\ LetGo(assets[scanned])
  BY <1>1, <1>2, LetsGo
<1>3. CASE IsDoomed(assets[scanned]) /\ Erase(assets[scanned])
  BY <1>1, <1>3, Erases
<1>4. CASE scanned' = scanned + 1 /\ UNCHANGED <<objects, assets>>
  <2>1. scanned \in Nat /\ scanned # 0 /\ records \subseteq AssetIds
    BY <1>1, LoaderFacts DEF LoaderInv, LoaderTypeOK, Collecting
  <2>2. loads = <<>> /\ scanned' \in Nat
    BY <1>4, <2>1 DEF LoaderInv, StackInv
  <2>3. QED BY <1>1, <1>4, <2>1, <2>2, QuietKeeps
<1>5. QED BY <1>2, <1>3, <1>4 DEF CollectDoomedAssets

LEMMA LoaderSteps == LoaderInv /\ [LoaderNext]_loaderVars => LoaderInv'
<1> SUFFICES ASSUME LoaderInv, [LoaderNext]_loaderVars PROVE LoaderInv'
  OBVIOUS
<1>0. records \subseteq AssetIds /\ scanned \in Nat /\ (scanned # 0 => loads = <<>>) /\ 0 \in Nat /\ 1 \in Nat
  BY DEF LoaderInv, LoaderTypeOK, StackInv
<1>1. CASE \E c \in Clients, id \in AssetIds : Load(c, id)
  BY <1>1, LoadKeeps
<1>2. CASE LoadPart
  BY <1>2, LoadPartKeeps
<1>3. CASE Make
  BY <1>3, MakeKeeps
<1>4. CASE LeaveLoad
  BY <1>4, LeaveKeeps
<1>5. CASE Return
  BY <1>5, ReturnKeeps
<1>6. CASE \E c, d \in Clients : CopyHandle(c, d)
  BY <1>6, CopyKeeps
<1>7. CASE \E c \in Clients : DropHandle(c)
  BY <1>7, HandleDropped DEF DropHandle
<1>8. CASE BeginCollection
  BY <1>0, <1>8, QuietKeeps DEF BeginCollection, NoCall, Running
<1>9. CASE CollectDoomedAssets
  BY <1>9, CollectKeeps
<1>10. CASE EndCollection
  BY <1>0, <1>10, QuietKeeps DEF EndCollection
<1>11. CASE BindManifest
  BY <1>0, <1>11, QuietKeeps DEF BindManifest
<1>12. CASE UNCHANGED loaderVars
  BY <1>0, <1>12, QuietKeeps DEF loaderVars
<1>13. CASE DieOfMissingPart
  BY <1>12, <1>13 DEF DieOfMissingPart
<1>14. QED BY <1>13, <1>1, <1>2, <1>3, <1>4, <1>5, <1>6, <1>7, <1>8, <1>9, <1>10, <1>11, <1>12 DEF LoaderNext

LEMMA LoaderHolds == LoaderInv => HandlesLive
<1> SUFFICES ASSUME LoaderInv PROVE HandlesLive
  OBVIOUS
<1>1. Range(assets) = InList
  BY DEF Range, InList
<1>2. ASSUME NEW n \in DOMAIN objects
      PROVE  objects[n].refs = Holders(n) /\ (Holders(n) > 0 => n \in InList \/ ByMaking(n) # {})
  <2>1. Account(n)
    BY DEF LoaderInv, AccountInv
  <2>2. CASE n \in InList \/ ByMaking(n) # {}
    BY <2>1, <2>2 DEF Account
  <2>3. CASE n \notin InList /\ ByMaking(n) = {}
    <3>0. n # 0
      BY LoaderFacts DEF LoaderInv
    <3>1. ByClients(n) = {}
      BY <2>3, <3>0 DEF ByClients, LoaderInv, HoldingInv
    <3>2. ByAssets(n) = {}
      BY <2>3 DEF ByAssets, Occurrences, LoaderInv, HeldInv
    <3>3. ByKeeps(n) = {} /\ ByUses(n) = {}
      BY <2>3 DEF ByKeeps, ByUses, Occurrences, LoaderInv, PartsInv
    <3>4. Cardinality({}) = 0
      BY FS_EmptySet
    <3>5. Holders(n) = 0 + 0 + 0 + 0 + 0
      BY <2>3, <3>1, <3>2, <3>3, <3>4 DEF Holders
    <3>6. QED BY <2>1, <3>5 DEF Account
  <2>4. QED BY <2>2, <2>3
<1>3. \A n \in DOMAIN objects : \A i \in DOMAIN objects[n].held :
         objects[n].held[i] \in InList /\ objects[objects[n].held[i]].id \in Keeps[objects[n].id]
  BY DEF LoaderInv, HeldInv
<1>4. \A n, m \in InList : objects[n].id = objects[m].id /\ objects[n].id \notin Named => n = m
  BY DEF InList, LoaderInv, UniqueInv
<1>5. QED BY <1>1, <1>2, <1>3, <1>4 DEF HandlesLive

\* The books of the loader stay right (asset_loader.cpp:38-133, asset.h:40-58):
\* the inductive invariant.
THEOREM LoaderStaysConsistent == LoaderSpec => []LoaderInv
<1>1. LoaderInit => LoaderInv
  BY LoaderStarts
<1>2. LoaderInv /\ [LoaderNext]_loaderVars => LoaderInv'
  BY LoaderSteps
<1>3. QED BY <1>1, <1>2, PTL DEF LoaderSpec

\* However loads, handles and collections follow on each other, counts are the
\* numbers of handles, and nobody has one to an asset that has been deleted.
THEOREM HandlesStayLive == LoaderSpec => []HandlesLive
BY LoaderStaysConsistent, LoaderHolds, PTL

-----------------------------------------------------------------------------
(* The menu: the items are a tree, and stay one as items are inserted *)

MenuItems == [path : Seq(Nat), id : MenuCommands \cup {NoCommandId}, group : Nat, priority : Nat,
              child : Nat, sibling : Nat]

LEMMA SeqWithin ==
    ASSUME NEW S, NEW T, NEW c \in Seq(S), \A m \in 1 .. Len(c) : c[m] \in T
    PROVE  c \in Seq(T)
<1>1. Len(c) \in Nat /\ c \in [1 .. Len(c) -> S]
  BY LenProperties
<1>2. c \in [1 .. Len(c) -> T]
  BY <1>1
<1>3. QED
  BY <1>1, <1>2, SeqDef

\* All of an item but its links.
SameItem(a, b) == a.path = b.path /\ a.id = b.id /\ a.group = b.group /\ a.priority = b.priority

LEMMA ItemFields ==
    ASSUME NEW a \in MenuItems, NEW v \in Nat
    PROVE  /\ a.path \in Seq(Nat) /\ a.id \in MenuCommands \cup {NoCommandId} /\ a.group \in Nat
           /\ a.priority \in Nat /\ a.child \in Nat /\ a.sibling \in Nat
           /\ LET b == [a EXCEPT !.sibling = v]
              IN b \in MenuItems /\ SameItem(a, b) /\ b.child = a.child /\ b.sibling = v
           /\ LET b == [a EXCEPT !.child = v]
              IN b \in MenuItems /\ SameItem(a, b) /\ b.sibling = a.sibling /\ b.child = v
BY DEF MenuItems, SameItem

IsNew(a, path, id) == a \in MenuItems /\ a.path = path /\ a.id = id /\ a.child = 0 /\ a.sibling = 0

LEMMA NewItem ==
    ASSUME NEW path \in Seq(Nat), NEW id \in MenuCommands \cup {NoCommandId}, NEW group \in Nat, NEW priority \in Nat
    PROVE  IsNew(MenuItem(path, id, group, priority), path, id)
BY DEF MenuItems, MenuItem, IsNew

WithSibling(its, i, v) == [its EXCEPT ![i].sibling = v]

SiblingIs(its, i, v, r) ==
    /\ r \in Seq(MenuItems) /\ Len(r) = Len(its)
    /\ \A j \in DOMAIN its :
         /\ SameItem(its[j], r[j]) /\ r[j].child = its[j].child
         /\ r[j].sibling = IF j = i THEN v ELSE its[j].sibling

LEMMA SiblingSet ==
    ASSUME NEW its \in Seq(MenuItems), NEW i \in DOMAIN its, NEW v \in Nat
    PROVE  SiblingIs(its, i, v, WithSibling(its, i, v))
<1> DEFINE r == WithSibling(its, i, v)
           b == [its[i] EXCEPT !.sibling = v]
<1>1. its[i] \in MenuItems
  BY ElementOfSeq, LenProperties
<1>2. b \in MenuItems /\ SameItem(its[i], b) /\ b.child = its[i].child /\ b.sibling = v
  BY <1>1, ItemFields
<1>3. r = [its EXCEPT ![i] = b]
  BY DEF WithSibling
<1> HIDE DEF b, r
<1>4. r \in Seq(MenuItems) /\ Len(r) = Len(its) /\ \A j \in DOMAIN its : r[j] = IF j = i THEN b ELSE its[j]
  BY <1>2, <1>3, LenProperties, ExceptSeq
<1>5. QED
  BY <1>2, <1>4 DEF SameItem, SiblingIs, r

WithChild(its, i, v) == [its EXCEPT ![i].child = v]

ChildIs(its, i, v, r) ==
    /\ r \in Seq(MenuItems) /\ Len(r) = Len(its)
    /\ \A j \in DOMAIN its :
         /\ SameItem(its[j], r[j]) /\ r[j].sibling = its[j].sibling
         /\ r[j].child = IF j = i THEN v ELSE its[j].child

LEMMA ChildSet ==
    ASSUME NEW its \in Seq(MenuItems), NEW i \in DOMAIN its, NEW v \in Nat
    PROVE  ChildIs(its, i, v, WithChild(its, i, v))
<1> DEFINE r == WithChild(its, i, v)
           b == [its[i] EXCEPT !.child = v]
<1>1. its[i] \in MenuItems
  BY ElementOfSeq, LenProperties
<1>2. b \in MenuItems /\ SameItem(its[i], b) /\ b.sibling = its[i].sibling /\ b.child = v
  BY <1>1, ItemFields
<1>3. r = [its EXCEPT ![i] = b]
  BY DEF WithChild
<1> HIDE DEF b, r
<1>4. r \in Seq(MenuItems) /\ Len(r) = Len(its) /\ \A j \in DOMAIN its : r[j] = IF j = i THEN b ELSE its[j]
  BY <1>2, <1>3, LenProperties, ExceptSeq
<1>5. QED
  BY <1>2, <1>4 DEF SameItem, ChildIs, r

\* A chain of items whose links are c's order.
Linked(its, i, c) ==
    /\ c \in Seq(DOMAIN its)
    /\ its[i].child = IF c = <<>> THEN 0 ELSE c[1]
    /\ \A k \in 1 .. Len(c) : its[c[k]].sibling = IF k = Len(c) THEN 0 ELSE c[k + 1]
    /\ IsInjective(c)

\* The walk: after n steps, the first n of the chain.
LEMMA ChildItemsLinked ==
    ASSUME NEW its, NEW N \in Nat, Len(its) = N, DOMAIN its = 1 .. N, NEW i, NEW c, Linked(its, i, c)
    PROVE  ChildItems(its, i) = c
<1> DEFINE next(row) == IF row = <<>> THEN its[i].child ELSE its[Last(row)].sibling
           value(n, of) == IF n = 0 THEN <<>>
                           ELSE LET row == of[n - 1]
                                IN IF next(row) = 0 THEN row ELSE Append(row, next(row))
           L == Len(c)
           first(n) == [k \in 1 .. (IF n < L THEN n ELSE L) |-> c[k]]
           walk == [n \in 0 .. N |-> first(n)]
           walked == CHOOSE f : f = [n \in 0 .. N |-> value(n, f)]
<1>1. c \in Seq(1 .. N) /\ L \in Nat /\ DOMAIN c = 1 .. L /\ \A k \in 1 .. L : c[k] \in 1 .. N
  <2>1. c \in Seq(1 .. N)
    BY DEF Linked
  <2>2. L \in Nat /\ DOMAIN c = 1 .. L
    BY <2>1, LenProperties
  <2>3. \A k \in 1 .. L : c[k] \in 1 .. N
    BY <2>1, <2>2, ElementOfSeq
  <2>4. QED
    BY <2>1, <2>2, <2>3
<1>2. L <= N
  <2>1. c \in Injection(1 .. L, 1 .. N)
    <3>1. c \in [1 .. L -> 1 .. N]
      BY <1>1, LenProperties
    <3>2. QED
      BY <3>1 DEF Linked, Injection
  <2>2. ASSUME NEW n \in Nat PROVE IsFiniteSet(1 .. n) /\ Cardinality(1 .. n) = n
    <3>1. n \in Int /\ 1 \in Int
      OBVIOUS
    <3>2. IsFiniteSet(1 .. n) /\ Cardinality(1 .. n) = IF 1 > n THEN 0 ELSE n - 1 + 1
      BY <3>1, FS_Interval
    <3>3. QED
      BY <3>2
  <2>3. Cardinality(1 .. L) <= Cardinality(1 .. N)
    BY <2>1, <2>2, FS_Injection
  <2>4. Cardinality(1 .. N) = N
    BY <2>2
  <2>5. Cardinality(1 .. L) = L
    BY <1>1, <2>2
  <2>6. QED
    BY <2>3, <2>4, <2>5, Zenon
<1>3. ASSUME NEW n \in 1 .. N
      PROVE  first(n) = IF next(first(n - 1)) = 0 THEN first(n - 1) ELSE Append(first(n - 1), next(first(n - 1)))
  <2> DEFINE m == IF n - 1 < L THEN n - 1 ELSE L
             before == first(n - 1)
  <2>1. before = [k \in 1 .. m |-> c[k]] /\ m \in 0 .. L /\ m \in Nat
    BY <1>1
  <2>2. before \in Seq(1 .. N) /\ Len(before) = m /\ \A k \in 1 .. m : before[k] = c[k]
    BY <1>1, <2>1
  <2> HIDE DEF before
  <2>3. (before = <<>>) <=> (m = 0)
    BY <2>1, <2>2
  <2>4. next(before) = IF m = L THEN 0 ELSE c[m + 1]
    <3>1. CASE m = 0
      <4>1. (c = <<>>) <=> (L = 0)
        BY <1>1
      <4>2. next(before) = its[i].child
        BY <2>3, <3>1
      <4>3. its[i].child = IF L = 0 THEN 0 ELSE c[1]
        BY <4>1 DEF Linked
      <4>4. QED
        BY <1>1, <3>1, <4>2, <4>3
    <3>2. CASE m # 0
      <4>1. Last(before) = c[m] /\ m \in 1 .. L
        BY <2>1, <2>2, <3>2 DEF Last
      <4>2. next(before) = its[c[m]].sibling
        BY <2>3, <3>2, <4>1
      <4>3. its[c[m]].sibling = IF m = L THEN 0 ELSE c[m + 1]
        BY <4>1 DEF Linked
      <4>4. QED
        BY <4>2, <4>3
    <3>3. QED
      BY <3>1, <3>2
  <2> HIDE DEF next
  <2>5. CASE m = L
    <3>1. first(n) = before
      BY <1>1, <2>5 DEF before
    <3>2. QED
      BY <2>4, <2>5, <3>1 DEF before
  <2>6. CASE m # L
    <3>1. m = n - 1 /\ n \in 1 .. L /\ n = m + 1
      BY <1>1, <2>6
    <3>2. c[n] # 0
      BY <1>1, <3>1
    <3>3. first(n) = [k \in 1 .. n |-> c[k]]
      <4>0. L \in Nat /\ n \in Nat /\ n <= L
        BY <1>1, <3>1
      <4> HIDE DEF L
      <4>1. (IF n < L THEN n ELSE L) = n
        BY <4>0
      <4>2. QED
        BY <4>1
    <3> HIDE DEF m
    <3>4. Append(before, c[n]) = [k \in 1 .. n |-> c[k]]
      BY <1>1, <2>1, <2>2, <3>1
    <3>5. next(before) = c[n]
      BY <2>4, <2>6, <3>1
    <3>6. first(n) = Append(before, next(before)) /\ next(before) # 0
      BY <3>2, <3>3, <3>4, <3>5
    <3>7. QED
      BY <3>6 DEF before
  <2>7. QED
    BY <2>5, <2>6
<1>4. first(0) = <<>> /\ first(N) = c
  <2>1. first(0) = <<>>
    BY <1>1
  <2>2. first(N) = [k \in 1 .. L |-> c[k]]
    <3>0. L \in Nat
      BY <1>1
    <3> HIDE DEF L
    <3>1. (IF N < L THEN N ELSE L) = L
      BY <1>2, <3>0
    <3>2. QED
      BY <3>1
  <2>3. QED
    BY <1>1, <2>1, <2>2
<1> HIDE DEF first, next
<1>5. \A n \in 0 .. N : walk[n] = value(n, walk)
  <2> SUFFICES ASSUME NEW n \in 0 .. N PROVE walk[n] = value(n, walk)
    OBVIOUS
  <2>1. CASE n = 0
    BY <1>4, <2>1
  <2>2. CASE n # 0
    <3>1. n \in 1 .. N /\ n - 1 \in 0 .. N
      BY <2>2
    <3>2. walk[n] = first(n) /\ walk[n - 1] = first(n - 1)
      BY <3>1
    <3>3. QED
      BY <1>3, <2>2, <3>1, <3>2
  <2>3. QED
    BY <2>1, <2>2
<1>6. walk = [n \in 0 .. N |-> value(n, walk)]
  <2> HIDE DEF value
  <2>1. QED
    BY <1>5
<1>7. walked = [n \in 0 .. N |-> value(n, walked)]
  BY <1>6, Zenon
<1>8. ChildItems(its, i) = walked[N]
  BY DEF ChildItems, next
<1>9. walk[0] = first(0) /\ walk[N] = first(N)
  OBVIOUS
<1> HIDE DEF walk, walked
<1>10. walked[0] = walk[0]
  BY <1>5, <1>7
<1>11. ASSUME NEW n \in 1 .. N, walked[n - 1] = walk[n - 1] PROVE walked[n] = walk[n]
  <2>1. n \in 0 .. N /\ n # 0
    OBVIOUS
  <2>2. walked[n] = value(n, walked) /\ walk[n] = value(n, walk)
    BY <1>5, <1>7, <2>1
  <2>3. QED
    BY <1>11, <2>1, <2>2
<1>12. walked[N] = walk[N]
  BY <1>10, <1>11, SameValues
<1>13. QED
  BY <1>4, <1>8, <1>9, <1>12

LEMMA LastOfPath ==
    ASSUME NEW path \in Seq(Nat), path # <<>>
    PROVE  Last(path) \in Nat /\ Front(path) # path /\ Front(path) \in Seq(Nat)
BY FrontLast

LEMMA PrecedesOneWay ==
    ASSUME NEW a \in MenuItems, NEW b \in MenuItems, a.path # <<>>, b.path # <<>>, Precedes(a, b)
    PROVE  ~Precedes(b, a)
<1>1. Last(a.path) \in Nat /\ Last(b.path) \in Nat
  BY ItemFields, LastOfPath
<1>2. a.group \in Nat /\ a.priority \in Nat /\ b.group \in Nat /\ b.priority \in Nat
  BY ItemFields
<1>3. QED
  BY <1>1, <1>2 DEF Precedes

LEMMA PrecedesSame ==
    ASSUME NEW a, NEW b, NEW c, NEW d, SameItem(a, c), SameItem(b, d)
    PROVE  Precedes(a, b) <=> Precedes(c, d)
BY DEF SameItem, Precedes

\* The links that the insertion of n, the k-th among the children of p, changes.
Inserted(s, p, n, c, k, r) ==
    /\ r \in Seq(MenuItems) /\ Len(r) = Len(s)
    /\ \A j \in DOMAIN s :
         /\ SameItem(s[j], r[j])
         /\ r[j].child = IF k = 1 /\ j = p THEN n ELSE s[j].child
         /\ r[j].sibling = IF j = n THEN IF k <= Len(c) THEN c[k] ELSE 0
                           ELSE IF k > 1 /\ j = c[k - 1] THEN n ELSE s[j].sibling

LEMMA InsertFacts ==
    ASSUME NEW s \in Seq(MenuItems), NEW p \in DOMAIN s, NEW n \in DOMAIN s, NEW c \in Seq(DOMAIN s),
           ChildItems(s, p) = c, n \notin Range(c)
    PROVE  \E k \in 1 .. (Len(c) + 1) :
             /\ \A m \in 1 .. (k - 1) : ~Precedes(s[n], s[c[m]])
             /\ k <= Len(c) => Precedes(s[n], s[c[k]])
             /\ Inserted(s, p, n, c, k, InsertChild(s, p, n))
<1> DEFINE L == Len(c)
           later == {m \in DOMAIN c : Precedes(s[n], s[c[m]])}
           k == IF later = {} THEN L + 1 ELSE Min(later)
           after == IF later = {} THEN 0 ELSE c[k]
           linked == WithSibling(s, n, after)
           r == InsertChild(s, p, n)
<1>1. L \in Nat /\ DOMAIN c = 1 .. L /\ \A m \in 1 .. L : c[m] \in DOMAIN s
  BY LenProperties, ElementOfSeq
<1>2. DOMAIN s \subseteq Nat /\ DOMAIN s = 1 .. Len(s) /\ Len(s) \in Nat
  BY LenProperties
<1>3. /\ k \in 1 .. (L + 1)
      /\ \A m \in 1 .. (k - 1) : ~Precedes(s[n], s[c[m]])
      /\ k <= L => Precedes(s[n], s[c[k]])
      /\ (later = {}) <=> (k = L + 1)
  <2>1. CASE later = {}
    <3>1. k = L + 1 /\ \A m \in 1 .. L : ~Precedes(s[n], s[c[m]])
      BY <1>1, <2>1
    <3> HIDE DEF k, later
    <3>2. QED
      BY <1>1, <2>1, <3>1
  <2>2. CASE later # {}
    <3>0. later \subseteq Nat /\ later \subseteq 1 .. L
      BY <1>1
    <3>1. \E m \in later : \A l \in later : m <= l
      <4> HIDE DEF later
      <4>1. QED
        BY <2>2, <3>0, LeastNumber
    <3>2. Min(later) \in later /\ \A l \in later : Min(later) <= l
      BY <3>1 DEF Min
    <3>3. k = Min(later) /\ k \in 1 .. L
      BY <2>2, <3>0, <3>2
    <3>4. \A m \in 1 .. (k - 1) : m \notin later /\ m \in DOMAIN c
      <4> HIDE DEF later, k
      <4>1. QED
        BY <1>1, <3>2, <3>3
    <3>5. k \in later
      BY <3>2, <3>3
    <3> HIDE DEF k
    <3>6. QED
      BY <1>1, <2>2, <3>3, <3>4, <3>5
  <2>3. QED
    BY <2>1, <2>2
<1>4. r = IF k = 1 THEN WithChild(linked, p, n) ELSE WithSibling(linked, c[k - 1], n)
  BY DEF InsertChild, WithChild, WithSibling
<1>5. after = (IF k <= L THEN c[k] ELSE 0) /\ after \in Nat
  <2>1. after = IF later = {} THEN 0 ELSE c[k]
    OBVIOUS
  <2> HIDE DEF after, later, k
  <2>2. after = IF k <= L THEN c[k] ELSE 0
    BY <1>1, <1>3, <2>1
  <2>3. k <= L => c[k] \in Nat
    BY <1>1, <1>2, <1>3
  <2>4. QED
    BY <2>2, <2>3
<1>6. SiblingIs(s, n, after, linked)
  <2> HIDE DEF after
  <2>1. QED
    BY <1>5, SiblingSet
<1>7. DOMAIN linked = DOMAIN s /\ n \in Nat /\ linked \in Seq(MenuItems)
  BY <1>2, <1>6, LenProperties DEF SiblingIs
<1> HIDE DEF linked, later, r, k, after
<1>8. CASE k = 1
  <2>1. r = WithChild(linked, p, n)
    BY <1>4, <1>8
  <2>2. ChildIs(linked, p, n, r)
    BY <1>7, <2>1, ChildSet
  <2>3. Inserted(s, p, n, c, k, r)
    BY <1>5, <1>6, <1>7, <1>8, <2>2 DEF Inserted, SameItem, ChildIs, SiblingIs
  <2>4. QED
    BY <1>3, <2>3 DEF r
<1>9. CASE k # 1
  <2> DEFINE q == c[k - 1]
  <2>0. k - 1 \in 1 .. L /\ q \in DOMAIN s /\ q # n /\ k > 1
    <3>1. k - 1 \in 1 .. L /\ k > 1
      BY <1>1, <1>3, <1>9
    <3>2. q \in DOMAIN s /\ q \in Range(c)
      BY <1>1, <3>1 DEF Range
    <3>3. QED
      BY <3>1, <3>2
  <2>1. r = WithSibling(linked, q, n)
    BY <1>4, <1>9
  <2> HIDE DEF q
  <2>2. SiblingIs(linked, q, n, r)
    BY <1>7, <2>0, <2>1, SiblingSet
  <2>3. Inserted(s, p, n, c, k, r)
    BY <1>5, <1>6, <1>7, <1>9, <2>0, <2>2 DEF Inserted, SameItem, SiblingIs, q
  <2>4. QED
    BY <1>3, <2>3 DEF r
<1>10. QED
  BY <1>8, <1>9

ChainSorted(its, c) == \A k \in 1 .. (Len(c) - 1) : ~Precedes(its[c[k + 1]], its[c[k]])

ChildOf(its, j, i) == j \in DOMAIN its \ {1} /\ Front(its[j].path) = its[i].path /\ its[i].id = NoCommandId

\* c is the children of i, in their order.
ChainOf(its, i, c) ==
    /\ Linked(its, i, c)
    /\ ChainSorted(its, c)
    /\ \A j : j \in Range(c) <=> ChildOf(its, j, i)

\* The new item among the children c of its parent, the k-th of them.
Among(c, n, k) == [m \in 1 .. (Len(c) + 1) |-> IF m < k THEN c[m] ELSE IF m = k THEN n ELSE c[m - 1]]

Spliced(c, n, k, d) ==
    /\ Len(d) = Len(c) + 1
    /\ \A m \in 1 .. (Len(c) + 1) : d[m] = IF m < k THEN c[m] ELSE IF m = k THEN n ELSE c[m - 1]
    /\ Range(d) = Range(c) \cup {n}
    /\ IsInjective(c) => IsInjective(d)

LEMMA AmongAt ==
    ASSUME NEW S, NEW c \in Seq(S), NEW n, n \notin S, NEW k \in 1 .. (Len(c) + 1)
    PROVE  Among(c, n, k) \in Seq(S \cup {n}) /\ Spliced(c, n, k, Among(c, n, k))
<1> DEFINE L == Len(c)
           d == Among(c, n, k)
<1>1. L \in Nat /\ DOMAIN c = 1 .. L /\ \A m \in 1 .. L : c[m] \in S
  BY LenProperties, ElementOfSeq
<1>2. \A m \in 1 .. (L + 1) : d[m] = IF m < k THEN c[m] ELSE IF m = k THEN n ELSE c[m - 1]
  BY DEF Among
<1>3. DOMAIN d = 1 .. (L + 1) /\ d = [m \in 1 .. (L + 1) |-> d[m]]
  BY DEF Among
<1> HIDE DEF L, d
<1>4. \A m \in 1 .. (L + 1) : d[m] \in S \cup {n}
  <2> SUFFICES ASSUME NEW m \in 1 .. (L + 1) PROVE d[m] \in S \cup {n}
    OBVIOUS
  <2>1. m < k \/ m = k \/ m > k
    BY <1>1
  <2>2. QED
    BY <1>1, <1>2, <2>1 DEF L
<1>5. d \in Seq(S \cup {n}) /\ Len(d) = L + 1
  BY <1>1, <1>3, <1>4
<1>6. Range(d) = Range(c) \cup {n}
  <2>1. ASSUME NEW x \in Range(d) PROVE x \in Range(c) \cup {n}
    <3>1. PICK m \in 1 .. (L + 1) : x = d[m]
      BY <1>3 DEF Range
    <3>2. CASE m < k
      <4>1. m \in DOMAIN c /\ x = c[m]
        BY <1>1, <1>2, <3>1, <3>2 DEF L
      <4>2. QED
        BY <4>1 DEF Range
    <3>3. CASE m = k
      BY <1>2, <3>1, <3>3
    <3>4. CASE m > k
      <4>1. m - 1 \in DOMAIN c /\ x = c[m - 1]
        BY <1>1, <1>2, <3>1, <3>4 DEF L
      <4>2. QED
        BY <4>1 DEF Range
    <3>5. QED
      BY <1>1, <3>2, <3>3, <3>4 DEF L
  <2>2. ASSUME NEW x \in Range(c) PROVE x \in Range(d)
    <3>1. PICK m \in 1 .. L : x = c[m]
      BY <1>1 DEF Range
    <3>2. x = d[m] \/ x = d[m + 1]
      BY <1>1, <1>2, <3>1 DEF L
    <3>3. QED
      BY <1>1, <1>3, <3>2 DEF Range
  <2>3. n \in Range(d)
    <3>1. d[k] = n /\ k \in 1 .. (L + 1)
      BY <1>1, <1>2 DEF L
    <3>2. QED
      BY <1>3, <3>1 DEF Range
  <2>4. QED
    BY <2>1, <2>2, <2>3
<1>7. ASSUME IsInjective(c) PROVE IsInjective(d)
  <2> SUFFICES ASSUME NEW a \in 1 .. (L + 1), NEW b \in 1 .. (L + 1), d[a] = d[b] PROVE a = b
    BY <1>3 DEF IsInjective
  <2> DEFINE at(m) == IF m < k THEN m ELSE m - 1
  <2>1. \A m \in 1 .. (L + 1) : m # k => at(m) \in 1 .. L /\ d[m] = c[at(m)] /\ d[m] # n
    <3> SUFFICES ASSUME NEW m \in 1 .. (L + 1), m # k PROVE at(m) \in 1 .. L /\ d[m] = c[at(m)] /\ d[m] # n
      OBVIOUS
    <3>1. at(m) \in 1 .. L
      BY <1>1 DEF L
    <3>2. d[m] = c[at(m)]
      BY <1>1, <1>2 DEF L
    <3> HIDE DEF at
    <3>3. QED
      BY <1>1, <3>1, <3>2
  <2>2. d[k] = n
    BY <1>1, <1>2 DEF L
  <2>3. CASE a = k \/ b = k
    BY <2>1, <2>2, <2>3
  <2>4. CASE a # k /\ b # k
    <3>1. at(a) = at(b)
      <4> HIDE DEF at
      <4>1. QED
        BY <1>1, <1>7, <2>1, <2>4 DEF IsInjective
    <3>2. QED
      BY <1>1, <2>4, <3>1 DEF L
  <2>5. QED
    BY <2>3, <2>4
<1>8. QED
  BY <1>2, <1>5, <1>6, <1>7 DEF L, d, Spliced

LEMMA ChainLinks ==
    ASSUME NEW s \in Seq(MenuItems), NEW p \in DOMAIN s, NEW n \in DOMAIN s, NEW c, Linked(s, p, c), n \notin Range(c),
           s[n].child = 0, s[n].sibling = 0,
           NEW k \in 1 .. (Len(c) + 1), NEW r, Inserted(s, p, n, c, k, r)
    PROVE  Linked(r, p, Among(c, n, k))
<1> DEFINE L == Len(c)
           d == Among(c, n, k)
<1>1. /\ c \in Seq(DOMAIN s) /\ L \in Nat /\ DOMAIN c = 1 .. L
      /\ \A m \in 1 .. L : c[m] \in DOMAIN s /\ c[m] # n
  <2>1. c \in Seq(DOMAIN s)
    BY DEF Linked
  <2>2. L \in Nat /\ DOMAIN c = 1 .. L /\ \A m \in 1 .. L : c[m] \in DOMAIN s
    BY <2>1, LenProperties, ElementOfSeq
  <2>3. QED
    BY <2>1, <2>2 DEF Range
<1>2. /\ DOMAIN r = DOMAIN s
      /\ r[p].child = IF k = 1 THEN n ELSE s[p].child
      /\ \A j \in DOMAIN s : r[j].sibling = IF j = n THEN IF k <= L THEN c[k] ELSE 0
                                            ELSE IF k > 1 /\ j = c[k - 1] THEN n ELSE s[j].sibling
  <2>1. DOMAIN r = DOMAIN s
    BY LenProperties DEF Inserted
  <2>2. QED
    BY <2>1 DEF Inserted
<1>3. c \in Seq(DOMAIN s \ {n}) /\ n \notin DOMAIN s \ {n} /\ (DOMAIN s \ {n}) \cup {n} = DOMAIN s
  <2>1. c \in Seq(DOMAIN s \ {n})
    <3>1. \A m \in 1 .. Len(c) : c[m] \in DOMAIN s \ {n}
      BY <1>1
    <3>2. QED
      BY <1>1, <3>1, SeqWithin
  <2>2. QED
    BY <2>1
<1>4. /\ d \in Seq(DOMAIN s) /\ Len(d) = L + 1
      /\ \A m \in 1 .. (L + 1) : d[m] = IF m < k THEN c[m] ELSE IF m = k THEN n ELSE c[m - 1]
      /\ IsInjective(d)
  <2>1. d \in Seq((DOMAIN s \ {n}) \cup {n}) /\ Spliced(c, n, k, d)
    BY <1>3, AmongAt
  <2>2. QED
    BY <1>3, <2>1 DEF Linked, Spliced
<1>5. /\ s[p].child = IF L = 0 THEN 0 ELSE c[1]
      /\ \A m \in 1 .. L : s[c[m]].sibling = IF m = L THEN 0 ELSE c[m + 1]
      /\ \A a, b \in 1 .. L : c[a] = c[b] => a = b
  <2>1. (c = <<>>) <=> (L = 0)
    BY <1>1, EmptySeq
  <2>2. QED
    BY <1>1, <2>1 DEF Linked, IsInjective
<1> HIDE DEF d, L
<1>6. k \in 1 .. (L + 1)
  BY DEF L
<1>7. d # <<>> /\ r[p].child = d[1]
  <2>1. d # <<>>
    BY <1>1, <1>4
  <2>2. d[1] = IF 1 < k THEN c[1] ELSE n
    BY <1>1, <1>4, <1>6
  <2>3. k # 1 => L # 0
    BY <1>1, <1>6
  <2>4. QED
    BY <1>1, <1>2, <1>5, <1>6, <2>1, <2>2, <2>3
<1>8. ASSUME NEW m \in 1 .. (L + 1)
      PROVE  r[d[m]].sibling = IF m = L + 1 THEN 0 ELSE d[m + 1]
  <2>0. m = L + 1 \/ (m + 1 \in 1 .. (L + 1) /\ m # L + 1)
    BY <1>1
  <2>1. CASE m < k
    <3>1. m \in 1 .. L /\ d[m] = c[m] /\ m + 1 \in 1 .. (L + 1) /\ m # L + 1
      BY <1>1, <1>4, <1>6, <2>1
    <3>2. CASE m = k - 1
      <4>1. d[m + 1] = n
        BY <1>1, <1>4, <1>6, <3>1, <3>2
      <4>2. r[c[m]].sibling = n
        BY <1>1, <1>2, <1>6, <3>1, <3>2
      <4>3. QED
        BY <3>1, <4>1, <4>2
    <3>3. CASE m # k - 1
      <4>0. m + 1 < k /\ m # L
        <5>1. k \in Nat /\ L \in Nat /\ m \in Nat /\ k <= L + 1
          BY <1>1, <1>6, <3>1
        <5>2. QED
          BY <2>1, <3>3, <5>1
      <4>1. d[m + 1] = c[m + 1]
        BY <1>4, <3>1, <4>0
      <4>2. k > 1 => k - 1 \in 1 .. L
        BY <1>1, <1>6
      <4>3. r[c[m]].sibling = s[c[m]].sibling
        BY <1>1, <1>2, <1>5, <3>1, <3>3, <4>2
      <4>4. QED
        BY <1>5, <3>1, <4>0, <4>1, <4>3
    <3>4. QED
      BY <3>2, <3>3
  <2>2. CASE m = k
    <3>1. d[m] = n
      BY <1>1, <1>4, <1>6, <2>2
    <3>2. r[n].sibling = IF k <= L THEN c[k] ELSE 0
      BY <1>2
    <3>3. m # L + 1 => k <= L /\ d[m + 1] = c[k]
      BY <1>1, <1>4, <1>6, <2>0, <2>2
    <3>4. m = L + 1 => ~(k <= L)
      BY <1>1, <2>2
    <3>5. QED
      BY <3>1, <3>2, <3>3, <3>4
  <2>3. CASE m > k
    <3>0. m - 1 \in 1 .. L /\ m - 1 # k - 1 /\ (m - 1) + 1 = m /\ ~(m < k) /\ m # k
      BY <1>1, <1>6, <2>3
    <3>1. d[m] = c[m - 1]
      BY <1>4, <3>0
    <3>2. k > 1 => k - 1 \in 1 .. L
      BY <1>1, <1>6
    <3>3. r[c[m - 1]].sibling = s[c[m - 1]].sibling
      BY <1>1, <1>2, <1>5, <3>0, <3>2
    <3>4. s[c[m - 1]].sibling = IF m - 1 = L THEN 0 ELSE c[m]
      BY <1>5, <3>0
    <3>5. m # L + 1 => d[m + 1] = c[m]
      <4>1. ~(m + 1 < k) /\ m + 1 # k /\ (m + 1) - 1 = m
        BY <1>1, <1>6, <2>3
      <4>2. m + 1 \in 1 .. (L + 1) => d[m + 1] = c[(m + 1) - 1]
        BY <1>4, <4>1
      <4>3. QED
        BY <2>0, <4>1, <4>2
    <3>6. (m - 1 = L) <=> (m = L + 1)
      BY <1>1
    <3>7. QED
      BY <3>1, <3>3, <3>4, <3>5, <3>6
  <2>4. QED
    BY <1>1, <1>6, <2>1, <2>2, <2>3
<1>9. QED
  BY <1>2, <1>4, <1>7, <1>8 DEF Linked, d

LEMMA ChainOrder ==
    ASSUME NEW s \in Seq(MenuItems), NEW p, NEW n \in DOMAIN s, NEW c \in Seq(DOMAIN s), n \notin Range(c),
           ChainSorted(s, c), s[n].path # <<>>, \A m \in 1 .. Len(c) : s[c[m]].path # <<>>,
           NEW k \in 1 .. (Len(c) + 1),
           \A m \in 1 .. (k - 1) : ~Precedes(s[n], s[c[m]]),
           k <= Len(c) => Precedes(s[n], s[c[k]]),
           NEW r, Inserted(s, p, n, c, k, r)
    PROVE  ChainSorted(r, Among(c, n, k))
<1> DEFINE L == Len(c)
           d == Among(c, n, k)
<1>1. /\ L \in Nat /\ DOMAIN c = 1 .. L
      /\ \A m \in 1 .. L : c[m] \in DOMAIN s /\ c[m] # n /\ s[c[m]] \in MenuItems
      /\ s[n] \in MenuItems
  <2>1. L \in Nat /\ DOMAIN c = 1 .. L /\ \A m \in 1 .. L : c[m] \in DOMAIN s
    BY LenProperties, ElementOfSeq
  <2>2. \A j \in DOMAIN s : s[j] \in MenuItems
    BY LenProperties, ElementOfSeq
  <2>3. QED
    BY <2>1, <2>2 DEF Range
<1>2. \A j \in DOMAIN s : SameItem(s[j], r[j])
  BY DEF Inserted
<1>3. Len(d) = L + 1 /\ \A m \in 1 .. (L + 1) : d[m] = IF m < k THEN c[m] ELSE IF m = k THEN n ELSE c[m - 1]
  <2>1. c \in Seq(DOMAIN s \ {n})
    <3>1. \A m \in 1 .. Len(c) : c[m] \in DOMAIN s \ {n}
      BY <1>1
    <3>2. QED
      BY <1>1, <3>1, SeqWithin
  <2>2. n \notin DOMAIN s \ {n}
    OBVIOUS
  <2>3. Spliced(c, n, k, d)
    BY <2>1, <2>2, AmongAt
  <2>4. QED
    BY <2>3 DEF Spliced
<1>4. \A m \in 1 .. L : k = m => ~Precedes(s[c[m]], s[n])
  <2> SUFFICES ASSUME NEW m \in 1 .. L, k = m PROVE ~Precedes(s[c[m]], s[n])
    OBVIOUS
  <2>1. Precedes(s[n], s[c[m]])
    BY <1>1
  <2>2. QED
    BY <1>1, <2>1, PrecedesOneWay
<1>5. \A m \in 1 .. (L - 1) : ~Precedes(s[c[m + 1]], s[c[m]])
  BY DEF ChainSorted
<1> HIDE DEF d, L
<1>6. k \in 1 .. (L + 1)
  BY DEF L
<1>7. ASSUME NEW m \in 1 .. L PROVE ~Precedes(s[d[m + 1]], s[d[m]])
  <2>1. m \in 1 .. (L + 1) /\ m + 1 \in 1 .. (L + 1)
    BY <1>1
  <2>2. CASE m + 1 < k
    <3>1. d[m] = c[m] /\ d[m + 1] = c[m + 1] /\ m \in 1 .. (L - 1)
      BY <1>1, <1>3, <1>6, <2>1, <2>2
    <3>2. QED
      BY <1>5, <3>1
  <2>3. CASE m + 1 = k
    <3>1. d[m] = c[m] /\ d[m + 1] = n /\ m \in 1 .. (k - 1)
      BY <1>1, <1>3, <1>6, <2>1, <2>3
    <3>2. QED
      BY <3>1
  <2>4. CASE m = k
    <3>1. d[m] = n /\ d[m + 1] = c[m]
      BY <1>1, <1>3, <1>6, <2>1, <2>4
    <3>2. QED
      BY <1>4, <2>4, <3>1
  <2>5. CASE m > k
    <3>1. d[m] = c[m - 1] /\ d[m + 1] = c[m] /\ m - 1 \in 1 .. (L - 1) /\ (m - 1) + 1 = m
      BY <1>1, <1>3, <1>6, <2>1, <2>5
    <3>2. QED
      BY <1>5, <3>1
  <2>6. QED
    BY <1>1, <1>6, <2>2, <2>3, <2>4, <2>5
<1>8. ASSUME NEW m \in 1 .. (L + 1) PROVE d[m] \in DOMAIN s
  <2>1. m < k => m \in 1 .. L
    BY <1>1, <1>6
  <2>2. m > k => m - 1 \in 1 .. L
    BY <1>1, <1>6
  <2>3. m < k \/ m = k \/ m > k
    BY <1>1, <1>6
  <2>4. QED
    BY <1>1, <1>3, <2>1, <2>2, <2>3
<1>9. ASSUME NEW m \in 1 .. (Len(d) - 1) PROVE ~Precedes(r[d[m + 1]], r[d[m]])
  <2>1. m \in 1 .. L /\ m \in 1 .. (L + 1) /\ m + 1 \in 1 .. (L + 1)
    BY <1>1, <1>3
  <2>2. QED
    BY <1>2, <1>7, <1>8, <2>1, PrecedesSame
<1>10. QED
  BY <1>9 DEF ChainSorted, d

\* The items are a tree: every item but the root is in the menu its path says, no
\* two are the same, and the children of each are linked in their order.
MenuTree(its) ==
    /\ its \in Seq(MenuItems)
    /\ 1 \in DOMAIN its /\ its[1].path = <<>> /\ its[1].id = NoCommandId
    /\ \A j \in DOMAIN its \ {1} : its[j].path # <<>>
    /\ \A i, j \in DOMAIN its : its[i].path = its[j].path /\ its[i].id = its[j].id => i = j
    /\ \A j \in DOMAIN its \ {1} : \E i \in DOMAIN its : ChildOf(its, j, i)
    /\ \A i \in DOMAIN its : \E c : ChainOf(its, i, c)

HasItem(its, path, id) == \E i \in DOMAIN its : its[i].path = path /\ its[i].id = id

\* r is its and an item of that path and id.
OneMore(its, r, path, id) ==
    \A q, d : HasItem(r, q, d) <=> HasItem(its, q, d) \/ (q = path /\ d = id)

\* r is its with n, another item in p, put in the place of its order.
TreeGrown(its, p, n, c, k, r) ==
    /\ n = Len(its) + 1 /\ r \in Seq(MenuItems) /\ DOMAIN r = DOMAIN its \cup {n}
    /\ \A j \in DOMAIN its :
         /\ SameItem(its[j], r[j])
         /\ r[j].child = IF k = 1 /\ j = p THEN n ELSE its[j].child
         /\ r[j].sibling = IF k > 1 /\ j = c[k - 1] THEN n ELSE its[j].sibling

LEMMA OtherChain ==
    ASSUME NEW its, MenuTree(its), NEW p \in DOMAIN its, NEW c, ChainOf(its, p, c),
           NEW n, n \notin DOMAIN its, NEW k \in 1 .. (Len(c) + 1), NEW r, TreeGrown(its, p, n, c, k, r),
           its[p].id = NoCommandId, Front(r[n].path) = its[p].path,
           NEW i \in DOMAIN its, i # p, NEW d, ChainOf(its, i, d)
    PROVE  ChainOf(r, i, d)
<1>1. /\ Len(d) \in Nat /\ DOMAIN d = 1 .. Len(d) /\ \A m \in 1 .. Len(d) : d[m] \in DOMAIN its
      /\ Len(c) \in Nat /\ DOMAIN c = 1 .. Len(c)
  <2>1. d \in Seq(DOMAIN its) /\ c \in Seq(DOMAIN its)
    BY DEF ChainOf, Linked
  <2>2. QED
    BY <2>1, LenProperties, ElementOfSeq
<1>2. ~(its[i].path = its[p].path /\ its[i].id = NoCommandId)
  BY DEF MenuTree
<1>3. \A m \in 1 .. Len(d) : d[m] \notin Range(c)
  <2> SUFFICES ASSUME NEW m \in 1 .. Len(d), d[m] \in Range(c) PROVE FALSE
    OBVIOUS
  <2>1. d[m] \in Range(d)
    BY <1>1 DEF Range
  <2>2. ChildOf(its, d[m], i) /\ ChildOf(its, d[m], p)
    BY <2>1 DEF ChainOf
  <2>3. QED
    BY <1>2, <2>2 DEF ChildOf
<1>4. k > 1 => k - 1 \in 1 .. Len(c) /\ c[k - 1] \in Range(c)
  <2>1. k > 1 => k - 1 \in 1 .. Len(c)
    BY <1>1
  <2>2. QED
    BY <1>1, <2>1 DEF Range
<1>5. Linked(r, i, d)
  <2>1. d \in Seq(DOMAIN r)
    <3>1. d \in Seq(DOMAIN its) /\ DOMAIN its \subseteq DOMAIN r
      BY DEF TreeGrown, ChainOf, Linked
    <3>2. QED
      BY <3>1
  <2>2. r[i].child = its[i].child
    BY DEF TreeGrown
  <2>3. \A m \in 1 .. Len(d) : r[d[m]].sibling = its[d[m]].sibling
    BY <1>1, <1>3, <1>4 DEF TreeGrown
  <2>4. QED
    BY <2>1, <2>2, <2>3 DEF ChainOf, Linked
<1>6. ChainSorted(r, d)
  <2> SUFFICES ASSUME NEW m \in 1 .. (Len(d) - 1) PROVE ~Precedes(r[d[m + 1]], r[d[m]])
    BY DEF ChainSorted
  <2>1. ~Precedes(its[d[m + 1]], its[d[m]])
    BY DEF ChainOf, ChainSorted
  <2>2. d[m] \in DOMAIN its /\ d[m + 1] \in DOMAIN its
    BY <1>1
  <2>3. SameItem(its[d[m]], r[d[m]]) /\ SameItem(its[d[m + 1]], r[d[m + 1]])
    BY <2>2 DEF TreeGrown
  <2>4. QED
    BY <2>1, <2>3, PrecedesSame
<1>7. ASSUME NEW j PROVE j \in Range(d) <=> ChildOf(r, j, i)
  <2>1. CASE j = n
    <3>1. n \notin Range(d)
      BY DEF ChainOf, ChildOf
    <3>2. ~ChildOf(r, n, i)
      BY <1>2 DEF ChildOf, TreeGrown, SameItem
    <3>3. QED
      BY <2>1, <3>1, <3>2
  <2>2. CASE j # n
    <3>1. ChildOf(r, j, i) <=> ChildOf(its, j, i)
      BY <2>2 DEF ChildOf, TreeGrown, SameItem
    <3>2. QED
      BY <3>1 DEF ChainOf
  <2>3. QED
    BY <2>1, <2>2
<1>8. QED
  BY <1>5, <1>6, <1>7 DEF ChainOf

LEMMA ItemAdded ==
    ASSUME NEW its, MenuTree(its), NEW p \in DOMAIN its, its[p].id = NoCommandId,
           NEW item \in MenuItems, item.path # <<>>, Front(item.path) = its[p].path,
           item.child = 0, item.sibling = 0, ~HasItem(its, item.path, item.id)
    PROVE  /\ MenuTree(AddItem(its, p, item))
           /\ OneMore(its, AddItem(its, p, item), item.path, item.id)
<1> DEFINE n == Len(its) + 1
           s == Append(its, item)
           r == InsertChild(s, p, n)
<1>0. AddItem(its, p, item) = r
  BY DEF AddItem
<1>1. /\ its \in Seq(MenuItems) /\ n \in Nat /\ n \notin DOMAIN its /\ n # 1
      /\ 1 \in DOMAIN its
      /\ s \in Seq(MenuItems) /\ Len(s) = n /\ DOMAIN s = DOMAIN its \cup {n} /\ DOMAIN s = 1 .. n
      /\ s[n] = item /\ \A j \in DOMAIN its : s[j] = its[j]
  <2>1. its \in Seq(MenuItems) /\ 1 \in DOMAIN its
    BY DEF MenuTree
  <2>2. Len(its) \in Nat /\ DOMAIN its = 1 .. Len(its)
    BY <2>1, LenProperties
  <2>3. s \in Seq(MenuItems) /\ Len(s) = n /\ s[n] = item /\ \A j \in 1 .. Len(its) : s[j] = its[j]
    BY <2>1, AppendProperties
  <2>4. DOMAIN s = 1 .. n
    BY <2>3, LenProperties
  <2>5. QED
    BY <2>1, <2>2, <2>3, <2>4
<1>2. PICK c : ChainOf(its, p, c)
  BY DEF MenuTree
<1> HIDE DEF s, n
<1>3. c \in Seq(DOMAIN its) /\ c \in Seq(DOMAIN s) /\ Len(c) \in Nat /\ DOMAIN c = 1 .. Len(c) /\ n \notin Range(c)
  <2>1. c \in Seq(DOMAIN its)
    BY <1>2 DEF ChainOf, Linked
  <2>2. Range(c) \subseteq DOMAIN its
    BY <1>2 DEF ChainOf, ChildOf
  <2>3. c \in Seq(DOMAIN s)
    BY <1>1, <2>1
  <2>4. QED
    BY <1>1, <2>1, <2>2, <2>3, LenProperties
<1>4. \A m \in 1 .. Len(c) : c[m] \in DOMAIN its \ {1}
  <2>1. \A m \in 1 .. Len(c) : c[m] \in Range(c)
    BY <1>3 DEF Range
  <2>2. QED
    BY <1>2, <2>1 DEF ChainOf, ChildOf
<1>5. Linked(s, p, c) /\ ChainSorted(s, c)
  <2>1. Linked(s, p, c)
    BY <1>1, <1>2, <1>3, <1>4, Zenon DEF ChainOf, Linked
  <2>2. \A m \in 1 .. (Len(c) - 1) : m \in 1 .. Len(c) /\ m + 1 \in 1 .. Len(c)
    BY <1>3
  <2>3. ChainSorted(s, c)
    BY <1>1, <1>2, <1>4, <2>2 DEF ChainOf, ChainSorted
  <2>4. QED
    BY <2>1, <2>3, Zenon
<1>6. ChildItems(s, p) = c
  BY <1>1, <1>5, ChildItemsLinked
<1>7. PICK k \in 1 .. (Len(c) + 1) :
        /\ \A m \in 1 .. (k - 1) : ~Precedes(s[n], s[c[m]])
        /\ k <= Len(c) => Precedes(s[n], s[c[k]])
        /\ Inserted(s, p, n, c, k, r)
  BY <1>1, <1>3, <1>6, InsertFacts
<1> HIDE DEF r
<1>8. TreeGrown(its, p, n, c, k, r)
  <2>1. DOMAIN r = DOMAIN s
    BY <1>1, <1>7, LenProperties DEF Inserted
  <2>2. QED
    BY <1>1, <1>7, <2>1 DEF TreeGrown, Inserted, n
<1>9. SameItem(item, r[n]) /\ r[n].child = 0 /\ r[n].sibling = IF k <= Len(c) THEN c[k] ELSE 0
  BY <1>1, <1>7 DEF Inserted
<1>10. \A j \in DOMAIN its : SameItem(its[j], r[j])
  BY <1>8 DEF TreeGrown
<1>11. ChainOf(r, p, Among(c, n, k))
  <2>1. Linked(r, p, Among(c, n, k))
    BY <1>1, <1>3, <1>5, <1>7, ChainLinks
  <2>2. \A m \in 1 .. Len(c) : s[c[m]].path # <<>>
    BY <1>1, <1>4 DEF MenuTree
  <2>3. ChainSorted(r, Among(c, n, k))
    BY <1>1, <1>3, <1>5, <1>7, <2>2, ChainOrder
  <2>4. Range(Among(c, n, k)) = Range(c) \cup {n}
    <3>1. Spliced(c, n, k, Among(c, n, k))
      BY <1>1, <1>3, AmongAt
    <3>2. QED
      BY <3>1 DEF Spliced
  <2>5. ASSUME NEW j PROVE j \in Range(Among(c, n, k)) <=> ChildOf(r, j, p)
    <3>1. CASE j = n
      BY <1>1, <1>8, <1>9, <1>10, <2>4, <3>1 DEF ChildOf, TreeGrown, SameItem
    <3>2. CASE j # n
      <4>1. ChildOf(r, j, p) <=> ChildOf(its, j, p)
        BY <1>8, <1>10, <3>2 DEF ChildOf, TreeGrown, SameItem
      <4>2. QED
        BY <1>2, <2>4, <3>2, <4>1 DEF ChainOf
    <3>3. QED
      BY <3>1, <3>2
  <2>6. QED
    BY <2>1, <2>3, <2>5 DEF ChainOf
<1>12. \A i \in DOMAIN its : \E d : ChainOf(r, i, d)
  <2> SUFFICES ASSUME NEW i \in DOMAIN its, i # p PROVE \E d : ChainOf(r, i, d)
    BY <1>11
  <2>1. PICK d : ChainOf(its, i, d)
    BY DEF MenuTree
  <2>2. Front(r[n].path) = its[p].path
    BY <1>9 DEF SameItem
  <2>3. ChainOf(r, i, d)
    BY <1>1, <1>2, <1>8, <2>1, <2>2, OtherChain
  <2>4. QED
    BY <2>3
<1>13. ChainOf(r, n, <<>>)
  <2>1. Linked(r, n, <<>>)
    BY <1>9 DEF Linked, IsInjective
  <2>2. ChainSorted(r, <<>>)
    BY DEF ChainSorted
  <2>3. ASSUME NEW j, ChildOf(r, j, n) PROVE FALSE
    <3>1. item.id = NoCommandId
      BY <1>9, <2>3 DEF ChildOf, SameItem
    <3>2. CASE j = n
      <4>1. Front(item.path) = item.path
        BY <1>9, <2>3, <3>2 DEF ChildOf, SameItem
      <4>2. QED
        BY <4>1, ItemFields, LastOfPath
    <3>3. CASE j # n
      <4>1. j \in DOMAIN its \ {1} /\ Front(its[j].path) = item.path
        BY <1>8, <1>9, <1>10, <2>3, <3>3 DEF ChildOf, TreeGrown, SameItem
      <4>2. PICK i \in DOMAIN its : ChildOf(its, j, i)
        BY <4>1 DEF MenuTree
      <4>3. HasItem(its, item.path, item.id)
        BY <3>1, <4>1, <4>2 DEF ChildOf, HasItem
      <4>4. QED
        BY <4>3
    <3>4. QED
      BY <3>2, <3>3
  <2>4. Range(<<>>) = {}
    BY DEF Range
  <2>5. QED
    BY <2>1, <2>2, <2>3, <2>4 DEF ChainOf
<1>14. DOMAIN r = DOMAIN its \cup {n} /\ r \in Seq(MenuItems)
  BY <1>8 DEF TreeGrown
<1>15. MenuTree(r)
  <2>1. 1 \in DOMAIN r /\ r[1].path = <<>> /\ r[1].id = NoCommandId
    BY <1>10, <1>14 DEF MenuTree, SameItem
  <2>2. \A j \in DOMAIN r \ {1} : r[j].path # <<>>
    BY <1>9, <1>10, <1>14 DEF MenuTree, SameItem
  <2>3. \A i, j \in DOMAIN r : r[i].path = r[j].path /\ r[i].id = r[j].id => i = j
    <3> SUFFICES ASSUME NEW i \in DOMAIN r, NEW j \in DOMAIN r, r[i].path = r[j].path, r[i].id = r[j].id PROVE i = j
      OBVIOUS
    <3>1. \A l \in DOMAIN its : ~(r[l].path = r[n].path /\ r[l].id = r[n].id)
      BY <1>9, <1>10 DEF SameItem, HasItem
    <3>2. CASE i \in DOMAIN its /\ j \in DOMAIN its
      BY <1>10, <3>2 DEF MenuTree, SameItem
    <3>3. QED
      BY <1>14, <3>1, <3>2
  <2>4. ASSUME NEW j \in DOMAIN r \ {1} PROVE \E i \in DOMAIN r : ChildOf(r, j, i)
    <3>1. CASE j = n
      <4>1. ChildOf(r, n, p)
        BY <1>1, <1>9, <1>10, <1>14 DEF ChildOf, SameItem
      <4>2. QED
        BY <1>14, <3>1, <4>1
    <3>2. CASE j # n
      <4>1. j \in DOMAIN its \ {1}
        BY <1>14, <3>2
      <4>2. PICK i \in DOMAIN its : ChildOf(its, j, i)
        BY <4>1 DEF MenuTree
      <4>3. ChildOf(r, j, i)
        BY <1>10, <1>14, <4>1, <4>2 DEF ChildOf, SameItem
      <4>4. QED
        BY <1>14, <4>3
    <3>3. QED
      BY <3>1, <3>2
  <2>5. \A i \in DOMAIN r : \E d : ChainOf(r, i, d)
    BY <1>12, <1>13, <1>14
  <2>6. QED
    BY <1>14, <2>1, <2>2, <2>3, <2>4, <2>5 DEF MenuTree
<1>16. OneMore(its, r, item.path, item.id)
  <2> SUFFICES ASSUME NEW q, NEW d
               PROVE  HasItem(r, q, d) <=> HasItem(its, q, d) \/ (q = item.path /\ d = item.id)
    BY DEF OneMore
  <2>1. r[n].path = item.path /\ r[n].id = item.id
    BY <1>9 DEF SameItem
  <2>2. \A j \in DOMAIN its : r[j].path = its[j].path /\ r[j].id = its[j].id
    BY <1>10 DEF SameItem
  <2>3. QED
    BY <1>14, <2>1, <2>2 DEF HasItem
<1>17. QED
  BY <1>0, <1>15, <1>16

LEMMA MenuFound ==
    ASSUME NEW its, MenuTree(its), NEW path
    PROVE  /\ HasItem(its, path, NoCommandId) =>
                /\ FindMenu(its, path) \in DOMAIN its /\ FindMenu(its, path) # 0
                /\ its[FindMenu(its, path)].path = path /\ its[FindMenu(its, path)].id = NoCommandId
           /\ ~HasItem(its, path, NoCommandId) => FindMenu(its, path) = 0
<1> DEFINE at == {i \in DOMAIN its : its[i].path = path /\ its[i].id = NoCommandId}
<1>1. FindMenu(its, path) = IF at = {} THEN 0 ELSE Min(at)
  BY DEF FindMenu
<1>2. at \subseteq Nat \ {0}
  <2>1. its \in Seq(MenuItems)
    BY DEF MenuTree
  <2>2. Len(its) \in Nat /\ DOMAIN its = 1 .. Len(its)
    BY <2>1, LenProperties
  <2>3. QED
    BY <2>2
<1>3. HasItem(its, path, NoCommandId) <=> at # {}
  BY DEF HasItem
<1>4. ASSUME at # {} PROVE Min(at) \in at
  <2> HIDE DEF at
  <2>1. \E m \in at : \A l \in at : m <= l
    BY <1>2, <1>4, LeastNumber
  <2>2. QED
    BY <2>1 DEF Min
<1>5. QED
  BY <1>1, <1>2, <1>3, <1>4

LEMMA MenuMade ==
    ASSUME NEW its, MenuTree(its), NEW path \in Seq(Nat), path # <<>>,
           HasItem(its, Front(path), NoCommandId)
    PROVE  MenuTree(MakeMenu(its, path)) /\ OneMore(its, MakeMenu(its, path), path, NoCommandId)
<1>1. CASE HasItem(its, path, NoCommandId)
  <2>1. MakeMenu(its, path) = its
    BY <1>1, MenuFound DEF MakeMenu
  <2>2. QED
    BY <1>1, <2>1 DEF OneMore
<1>2. CASE ~HasItem(its, path, NoCommandId)
  <2> DEFINE p == FindMenu(its, Front(path))
             item == NewMenu(path)
  <2>1. MakeMenu(its, path) = AddItem(its, p, item)
    BY <1>2, MenuFound DEF MakeMenu
  <2>2. p \in DOMAIN its /\ its[p].path = Front(path) /\ its[p].id = NoCommandId
    BY MenuFound
  <2>3. \E group \in Nat, priority \in Nat : item = MenuItem(path, NoCommandId, group, priority)
    BY MenuAssumption DEF NewMenu, DefaultGroup, DefaultPriority
  <2>4. item \in MenuItems /\ item.path = path /\ item.id = NoCommandId /\ item.child = 0 /\ item.sibling = 0
    <3>1. PICK group \in Nat, priority \in Nat : item = MenuItem(path, NoCommandId, group, priority)
      BY <2>3
    <3>2. NoCommandId \in MenuCommands \cup {NoCommandId}
      OBVIOUS
    <3>3. IsNew(MenuItem(path, NoCommandId, group, priority), path, NoCommandId)
      BY <3>2, NewItem
    <3> HIDE DEF item
    <3>4. QED
      BY <3>1, <3>3 DEF IsNew
  <2> HIDE DEF p, item
  <2>5. QED
    BY <1>2, <2>1, <2>2, <2>4, ItemAdded
<1>3. QED
  BY <1>1, <1>2

\* What the n-th step makes of what the steps before it made: of CreateMenu, of
\* BuiltMenu, of AddFolders or of Built.
NextItems(kind, its, seq, n) ==
    IF kind = "menus" THEN MakeMenu(its, SubSeq(seq, 1, n))
    ELSE IF kind = "commands" THEN AddToMenu(its, seq[n])
    ELSE IF kind = "folders" THEN AddFolder(its, seq[n])
    ELSE AddRecord(its, seq[n])

StepsOf(kind, start, seq, n, steps) ==
    steps = [m \in 0 .. n |-> IF m = 0 THEN start ELSE NextItems(kind, steps[m - 1], seq, m)]

\* The recursive functions exist: were there a first n without one, the one of
\* n - 1 could be continued.
LEMMA StepsExist ==
    ASSUME NEW kind, NEW start, NEW seq, NEW n \in Nat
    PROVE  \E steps : StepsOf(kind, start, seq, n, steps)
<1> DEFINE without == {m \in Nat : ~ \E steps : StepsOf(kind, start, seq, m, steps)}
<1> SUFFICES ASSUME without # {} PROVE FALSE
  OBVIOUS
<1>1. PICK m \in without : \A k \in without : m <= k
  BY LeastNumber
<1>2. m # 0
  <2>1. StepsOf(kind, start, seq, 0, [k \in 0 .. 0 |-> start])
    BY DEF StepsOf
  <2>2. QED
    BY <1>1, <2>1
<1>3. m - 1 \in Nat /\ m - 1 \notin without
  BY <1>1, <1>2
<1>4. PICK steps : StepsOf(kind, start, seq, m - 1, steps)
  BY <1>3
<1> DEFINE value(k, of) == IF k = 0 THEN start ELSE NextItems(kind, of[k - 1], seq, k)
           longer == [k \in 0 .. m |-> IF k = m THEN value(m, steps) ELSE steps[k]]
<1>5. \A k \in 0 .. m : longer[k] = value(k, longer)
  <2> TAKE k \in 0 .. m
  <2>1. CASE k = m
    <3>1. longer[m] = value(m, steps) /\ longer[m - 1] = steps[m - 1]
      BY <1>1, <1>2
    <3>2. QED
      BY <1>2, <2>1, <3>1
  <2>2. CASE k # m
    <3>1. k \in 0 .. (m - 1) /\ longer[k] = steps[k]
      BY <1>1, <2>2
    <3>2. steps[k] = value(k, steps)
      BY <1>4, <3>1 DEF StepsOf
    <3>3. k # 0 => longer[k - 1] = steps[k - 1]
      BY <1>1, <2>2
    <3>4. QED
      BY <3>1, <3>2, <3>3
  <2>3. QED
    BY <2>1, <2>2
<1>6. longer = [k \in 0 .. m |-> value(k, longer)]
  BY <1>5
<1>7. StepsOf(kind, start, seq, m, longer)
  BY <1>6 DEF StepsOf
<1>8. QED
  BY <1>1, <1>7

LEMMA PathSteps ==
    ASSUME NEW S, NEW path \in Seq(S), NEW n \in 1 .. Len(path)
    PROVE  /\ SubSeq(path, 1, n) \in Seq(S) /\ SubSeq(path, 1, n) # <<>>
           /\ Front(SubSeq(path, 1, n)) = SubSeq(path, 1, n - 1)
<1> DEFINE s == SubSeq(path, 1, n)
<1>1. Len(path) \in Nat /\ \A m \in 1 .. Len(path) : path[m] \in S
  BY LenProperties, ElementOfSeq
<1>2. s = [m \in 1 .. n |-> path[m]]
  BY <1>1
<1>3. s \in Seq(S) /\ Len(s) = n
  BY <1>1, <1>2
<1> HIDE DEF s
<1>4. SubSeq(s, 1, n - 1) = [m \in 1 .. (n - 1) |-> path[m]]
  BY <1>1, <1>2, <1>3
<1>5. SubSeq(path, 1, n - 1) = [m \in 1 .. (n - 1) |-> path[m]]
  BY <1>1
<1>6. QED
  BY <1>3, <1>4, <1>5 DEF Front, s

LEMMA WholePath ==
    ASSUME NEW S, NEW path \in Seq(S)
    PROVE  /\ SubSeq(path, 1, 0) = <<>> /\ SubSeq(path, 1, Len(path)) = path /\ Len(path) \in Nat
           /\ (path = <<>>) <=> (Len(path) = 0)
<1>1. Len(path) \in Nat /\ path = [m \in 1 .. Len(path) |-> path[m]]
  BY LenProperties
<1>2. SubSeq(path, 1, Len(path)) = [m \in 1 .. Len(path) |-> path[m]]
  BY <1>1
<1>3. SubSeq(path, 1, 0) = <<>>
  OBVIOUS
<1>4. QED
  BY <1>1, <1>2, <1>3, EmptySeq

\* r is its and the first n menus on the way to path.
WithMenus(its, r, path, n) ==
    \A q, d : HasItem(r, q, d) <=>
                HasItem(its, q, d) \/ (d = NoCommandId /\ \E m \in 1 .. n : q = SubSeq(path, 1, m))

LEMMA MenusCreated ==
    ASSUME NEW its, MenuTree(its), NEW path \in Seq(Nat)
    PROVE  MenuTree(CreateMenu(its, path)) /\ WithMenus(its, CreateMenu(its, path), path, Len(path))
<1> DEFINE N == Len(path)
           made == CHOOSE f : StepsOf("menus", its, path, N, f)
<1>1. N \in Nat
  BY WholePath
<1>2. StepsOf("menus", its, path, N, made)
  BY <1>1, StepsExist
<1>3. CreateMenu(its, path) = made[N]
  BY DEF CreateMenu, StepsOf, NextItems
<1> HIDE DEF made
<1>4. made[0] = its /\ \A n \in 1 .. N : made[n] = MakeMenu(made[n - 1], SubSeq(path, 1, n))
  <2>1. \A n \in 0 .. N : made[n] = IF n = 0 THEN its ELSE NextItems("menus", made[n - 1], path, n)
    BY <1>2 DEF StepsOf
  <2> HIDE DEF N
  <2>2. 0 \in 0 .. N /\ \A n \in 1 .. N : n \in 0 .. N /\ n # 0
    BY <1>1
  <2>3. QED
    BY <2>1, <2>2 DEF NextItems
<1> DEFINE Right(n) == MenuTree(made[n]) /\ WithMenus(its, made[n], path, n)
           bad == {n \in 0 .. N : ~Right(n)}
<1>5. Right(0)
  BY <1>4 DEF WithMenus
<1>6. HasItem(its, <<>>, NoCommandId)
  BY DEF MenuTree, HasItem
<1>7. ASSUME NEW n \in 1 .. N, Right(n - 1) PROVE Right(n)
  <2> DEFINE at == SubSeq(path, 1, n)
  <2>1. at \in Seq(Nat) /\ at # <<>> /\ Front(at) = SubSeq(path, 1, n - 1)
    BY PathSteps
  <2>2. HasItem(made[n - 1], Front(at), NoCommandId)
    <3>1. CASE n = 1
      <4>1. Front(at) = <<>>
        BY <2>1, <3>1, WholePath
      <4>2. QED
        BY <1>6, <1>7, <4>1 DEF WithMenus
    <3>2. CASE n # 1
      <4>1. n - 1 \in 1 .. (n - 1)
        BY <1>1, <3>2
      <4>2. QED
        BY <1>7, <2>1, <4>1 DEF WithMenus
    <3>3. QED
      BY <3>1, <3>2
  <2>3. made[n] = MakeMenu(made[n - 1], at)
    BY <1>4
  <2>4. MenuTree(made[n - 1]) /\ WithMenus(its, made[n - 1], path, n - 1)
    BY <1>7
  <2> HIDE DEF at
  <2>5. MenuTree(made[n]) /\ OneMore(made[n - 1], made[n], at, NoCommandId)
    BY <2>1, <2>2, <2>3, <2>4, MenuMade
  <2>6. WithMenus(its, made[n], path, n)
    <3> SUFFICES ASSUME NEW q, NEW d
                 PROVE  HasItem(made[n], q, d) <=>
                          HasItem(its, q, d) \/ (d = NoCommandId /\ \E m \in 1 .. n : q = SubSeq(path, 1, m))
      BY DEF WithMenus
    <3>1. HasItem(made[n], q, d) <=> HasItem(made[n - 1], q, d) \/ (q = at /\ d = NoCommandId)
      BY <2>5 DEF OneMore
    <3>2. HasItem(made[n - 1], q, d) <=>
            HasItem(its, q, d) \/ (d = NoCommandId /\ \E m \in 1 .. (n - 1) : q = SubSeq(path, 1, m))
      BY <2>4 DEF WithMenus
    <3>3. (\E m \in 1 .. n : q = SubSeq(path, 1, m)) <=>
            (q = at \/ \E m \in 1 .. (n - 1) : q = SubSeq(path, 1, m))
      <4>1. \A m : m \in 1 .. n <=> (m = n \/ m \in 1 .. (n - 1))
        BY <1>1
      <4>2. QED
        BY <4>1 DEF at
    <3>4. QED
      BY <3>1, <3>2, <3>3
  <2>7. QED
    BY <2>5, <2>6
<1> HIDE DEF Right
<1>8. bad = {}
  <2> SUFFICES ASSUME bad # {} PROVE FALSE
    OBVIOUS
  <2>1. PICK n \in bad : \A m \in bad : n <= m
    <3>1. bad \subseteq Nat
      OBVIOUS
    <3> HIDE DEF bad
    <3>2. QED
      BY <3>1, LeastNumber
  <2>2. n # 0 /\ n \in 1 .. N
    BY <1>1, <1>5, <2>1
  <2>3. n - 1 \in 0 .. N /\ ~(n <= n - 1)
    BY <1>1, <2>2
  <2>4. Right(n - 1)
    BY <2>1, <2>3
  <2>5. QED
    BY <1>7, <2>1, <2>2, <2>4
<1>9. Right(N)
  BY <1>1, <1>8
<1>10. QED
  BY <1>3, <1>9 DEF Right

LEMMA AppendedPath ==
    ASSUME NEW S, NEW path \in Seq(S), NEW title \in S
    PROVE  /\ Append(path, title) \in Seq(S) /\ Append(path, title) # <<>>
           /\ Front(Append(path, title)) = path
<1> DEFINE s == Append(path, title)
           N == Len(path)
<1>1. N \in Nat /\ path = [m \in 1 .. N |-> path[m]]
  BY LenProperties
<1>2. s \in Seq(S) /\ Len(s) = N + 1 /\ \A m \in 1 .. N : s[m] = path[m]
  BY AppendProperties
<1> HIDE DEF s, N
<1>3. SubSeq(s, 1, N) = [m \in 1 .. N |-> s[m]]
  BY <1>1, <1>2
<1>4. [m \in 1 .. N |-> s[m]] = path
  BY <1>1, <1>2
<1>5. Front(s) = SubSeq(s, 1, N)
  BY <1>1, <1>2 DEF Front
<1>6. s # <<>>
  BY <1>1, <1>2
<1>7. QED
  BY <1>2, <1>3, <1>4, <1>5, <1>6 DEF s

TextOf(c) == Append(Placed[c].menu, Placed[c].title)

\* r is its, the menus that the command is in, and the command.
WithCommand(its, r, c) ==
    \A q, d : HasItem(r, q, d) <=>
                \/ HasItem(its, q, d)
                \/ d = NoCommandId /\ q \in Paths(c)
                \/ d = c /\ q = TextOf(c)

LEMMA CommandAdded ==
    ASSUME NEW its, MenuTree(its), NEW c \in MenuCommands, \A q : ~HasItem(its, q, c)
    PROVE  MenuTree(AddToMenu(its, c)) /\ WithCommand(its, AddToMenu(its, c), c)
<1> DEFINE menu == Placed[c].menu
           so == CreateMenu(its, menu)
           p == FindMenu(so, menu)
           item == MenuItem(TextOf(c), c, Placed[c].group, Placed[c].priority)
           r == AddToMenu(its, c)
<1>1. r = AddItem(so, p, item)
  BY DEF AddToMenu, TextOf
<1>2. /\ menu \in Seq(Nat) /\ Placed[c].title \in Nat /\ Placed[c].group \in Nat /\ Placed[c].priority \in Nat
      /\ c # NoCommandId
  BY MenuAssumption
<1>3. TextOf(c) \in Seq(Nat) /\ TextOf(c) # <<>> /\ Front(TextOf(c)) = menu
  BY <1>2, AppendedPath DEF TextOf
<1>4. /\ item \in MenuItems /\ item.path = TextOf(c) /\ item.id = c /\ item.child = 0 /\ item.sibling = 0
  <2>1. c \in MenuCommands \cup {NoCommandId}
    OBVIOUS
  <2>2. IsNew(item, TextOf(c), c)
    BY <1>2, <1>3, <2>1, NewItem
  <2> HIDE DEF item
  <2>3. QED
    BY <2>2 DEF IsNew
<1>5. MenuTree(so) /\ WithMenus(its, so, menu, Len(menu))
  BY <1>2, MenusCreated
<1>6. \A q, d : HasItem(so, q, d) <=> HasItem(its, q, d) \/ (d = NoCommandId /\ q \in Paths(c))
  <2> SUFFICES ASSUME NEW q, NEW d
               PROVE  HasItem(so, q, d) <=> HasItem(its, q, d) \/ (d = NoCommandId /\ q \in Paths(c))
    OBVIOUS
  <2>1. HasItem(its, <<>>, NoCommandId)
    BY DEF MenuTree, HasItem
  <2>2. Len(menu) \in Nat /\ SubSeq(menu, 1, 0) = <<>>
    BY <1>2, WholePath
  <2>3. q \in Paths(c) <=> (q = <<>> \/ \E m \in 1 .. Len(menu) : q = SubSeq(menu, 1, m))
    <3>1. \A m : m \in 0 .. Len(menu) <=> (m = 0 \/ m \in 1 .. Len(menu))
      BY <2>2
    <3>2. QED
      BY <2>2, <3>1 DEF Paths
  <2> HIDE DEF so, menu
  <2>4. QED
    BY <1>5, <2>1, <2>3 DEF WithMenus
<1>7. HasItem(so, menu, NoCommandId)
  <2>1. Len(menu) \in 0 .. Len(menu) /\ SubSeq(menu, 1, Len(menu)) = menu
    BY <1>2, WholePath
  <2>2. menu \in Paths(c)
    BY <2>1 DEF Paths
  <2>3. QED
    BY <1>6, <2>2
<1> HIDE DEF so, item, r, menu
<1>8. p \in DOMAIN so /\ so[p].path = menu /\ so[p].id = NoCommandId
  BY <1>5, <1>7, MenuFound
<1>9. ~HasItem(so, item.path, item.id)
  BY <1>2, <1>4, <1>6
<1> HIDE DEF p
<1>10. MenuTree(r) /\ OneMore(so, r, item.path, item.id)
  BY <1>1, <1>3, <1>4, <1>5, <1>8, <1>9, ItemAdded
<1>11. WithCommand(its, r, c)
  BY <1>4, <1>6, <1>10 DEF OneMore, WithCommand
<1>12. QED
  BY <1>10, <1>11 DEF r

\* What is in the menu after the first n commands.
BuiltItems(r, commands, n) ==
    \A q, d : HasItem(r, q, d) <=>
                \/ q = <<>> /\ d = NoCommandId
                \/ \E m \in 1 .. n : \/ d = NoCommandId /\ q \in Paths(commands[m])
                                     \/ d = commands[m] /\ q = TextOf(commands[m])

LEMMA RootTree == MenuTree(<<MenuRoot>>) /\ \A commands : BuiltItems(<<MenuRoot>>, commands, 0)
<1> DEFINE its == <<MenuRoot>>
<1>1. IsNew(MenuRoot, <<>>, NoCommandId)
  <2>1. <<>> \in Seq(Nat) /\ NoCommandId \in MenuCommands \cup {NoCommandId}
    OBVIOUS
  <2>2. QED
    BY <2>1, NewItem DEF MenuRoot, DefaultGroup
<1>2. /\ its \in Seq(MenuItems) /\ DOMAIN its = {1} /\ its[1].path = <<>> /\ its[1].id = NoCommandId
      /\ its[1].child = 0
  BY <1>1 DEF IsNew
<1> HIDE DEF its
<1>3. ChainOf(its, 1, <<>>)
  <2>1. Linked(its, 1, <<>>)
    BY <1>2 DEF Linked, IsInjective
  <2>2. ChainSorted(its, <<>>)
    BY DEF ChainSorted
  <2>3. \A j : ~ChildOf(its, j, 1)
    BY <1>2 DEF ChildOf
  <2>4. Range(<<>>) = {}
    BY DEF Range
  <2>5. QED
    BY <2>1, <2>2, <2>3, <2>4 DEF ChainOf
<1>4. MenuTree(its)
  BY <1>2, <1>3 DEF MenuTree
<1>5. \A commands : BuiltItems(its, commands, 0)
  BY <1>2 DEF BuiltItems, HasItem
<1>6. QED
  BY <1>4, <1>5 DEF its

LEMMA MenuBuilt ==
    ASSUME NEW commands \in Seq(MenuCommands), IsInjective(commands)
    PROVE  MenuTree(BuiltMenu(commands)) /\ BuiltItems(BuiltMenu(commands), commands, Len(commands))
<1> DEFINE N == Len(commands)
           root == <<MenuRoot>>
           built == CHOOSE f : StepsOf("commands", root, commands, N, f)
<1>1. N \in Nat /\ DOMAIN commands = 1 .. N /\ \A n \in 1 .. N : commands[n] \in MenuCommands
  BY LenProperties, ElementOfSeq
<1>2. StepsOf("commands", root, commands, N, built)
  BY <1>1, StepsExist
<1>3. BuiltMenu(commands) = built[N]
  BY DEF BuiltMenu, StepsOf, NextItems
<1> HIDE DEF built, root
<1>4. built[0] = root /\ \A n \in 1 .. N : built[n] = AddToMenu(built[n - 1], commands[n])
  <2>1. \A n \in 0 .. N : built[n] = IF n = 0 THEN root ELSE NextItems("commands", built[n - 1], commands, n)
    BY <1>2 DEF StepsOf
  <2> HIDE DEF N
  <2>2. 0 \in 0 .. N /\ \A n \in 1 .. N : n \in 0 .. N /\ n # 0
    BY <1>1
  <2>3. QED
    BY <2>1, <2>2 DEF NextItems
<1> HIDE DEF N
<1> DEFINE Right(n) == MenuTree(built[n]) /\ BuiltItems(built[n], commands, n)
           bad == {n \in 0 .. N : ~Right(n)}
<1>5. Right(0)
  BY <1>4, RootTree DEF root
<1>6. ASSUME NEW n \in 1 .. N, Right(n - 1) PROVE Right(n)
  <2> DEFINE c == commands[n]
             its == built[n - 1]
             r == built[n]
  <2>1. c \in MenuCommands /\ c # NoCommandId /\ r = AddToMenu(its, c)
    BY <1>1, <1>4, MenuAssumption
  <2>2. MenuTree(its) /\ BuiltItems(its, commands, n - 1)
    BY <1>6
  <2>3. \A m \in 1 .. (n - 1) : commands[m] # c
    BY <1>1 DEF IsInjective
  <2> HIDE DEF c, its, r
  <2>4. \A q : ~HasItem(its, q, c)
    BY <2>1, <2>2, <2>3 DEF BuiltItems
  <2>5. MenuTree(r) /\ WithCommand(its, r, c)
    BY <2>1, <2>2, <2>4, CommandAdded
  <2>6. BuiltItems(r, commands, n)
    <3> DEFINE In(q, d, m) == \/ d = NoCommandId /\ q \in Paths(commands[m])
                              \/ d = commands[m] /\ q = TextOf(commands[m])
    <3> SUFFICES ASSUME NEW q, NEW d
                 PROVE  HasItem(r, q, d) <=> (q = <<>> /\ d = NoCommandId) \/ \E m \in 1 .. n : In(q, d, m)
      BY DEF BuiltItems
    <3>1. HasItem(r, q, d) <=> HasItem(its, q, d) \/ In(q, d, n)
      BY <2>5 DEF WithCommand, c
    <3>2. HasItem(its, q, d) <=> (q = <<>> /\ d = NoCommandId) \/ \E m \in 1 .. (n - 1) : In(q, d, m)
      BY <2>2 DEF BuiltItems
    <3> HIDE DEF In
    <3>3. (\E m \in 1 .. n : In(q, d, m)) <=> (In(q, d, n) \/ \E m \in 1 .. (n - 1) : In(q, d, m))
      <4>1. \A m : m \in 1 .. n <=> (m = n \/ m \in 1 .. (n - 1))
        BY <1>1
      <4>2. QED
        BY <4>1
    <3>4. QED
      BY <3>1, <3>2, <3>3
  <2>7. QED
    BY <2>5, <2>6 DEF r
<1> HIDE DEF Right
<1>7. bad = {}
  <2> SUFFICES ASSUME bad # {} PROVE FALSE
    OBVIOUS
  <2>1. PICK n \in bad : \A m \in bad : n <= m
    <3>1. bad \subseteq Nat
      OBVIOUS
    <3> HIDE DEF bad
    <3>2. QED
      BY <3>1, LeastNumber
  <2>2. n # 0 /\ n \in 1 .. N
    BY <1>1, <1>5, <2>1
  <2>3. n - 1 \in 0 .. N /\ ~(n <= n - 1)
    BY <1>1, <2>2
  <2>4. Right(n - 1)
    BY <2>1, <2>3
  <2>5. QED
    BY <1>6, <2>1, <2>2, <2>4
<1>8. Right(N)
  BY <1>1, <1>7
<1>9. QED
  BY <1>3, <1>8 DEF Right, N

\* A menu of the version of the commands was built from the commands.
MenuInv ==
    /\ registered \in Seq(MenuCommands) /\ IsInjective(registered)
    /\ commandVersion = Len(registered) /\ menuVersion \in 0 .. commandVersion
    /\ menuVersion = commandVersion /\ registered # <<>> => items = BuiltMenu(registered)

LEMMA MenuStarts == MenuInit => MenuInv
BY DEF MenuInit, MenuInv, IsInjective

LEMMA CommandKeeps == ASSUME MenuInv, NEW c \in MenuCommands, AddCommand(c) PROVE MenuInv'
<1>1. registered \in Seq(MenuCommands) /\ Len(registered) \in Nat /\ DOMAIN registered = 1 .. Len(registered)
  BY LenProperties DEF MenuInv
<1> DEFINE N == Len(registered)
<1>2. /\ registered' \in Seq(MenuCommands) /\ Len(registered') = N + 1 /\ registered'[N + 1] = c
      /\ \A m \in 1 .. N : registered'[m] = registered[m]
      /\ DOMAIN registered' = 1 .. (N + 1)
  BY <1>1, AppendProperties, LenProperties DEF AddCommand
<1>3. IsInjective(registered')
  <2>1. \A m \in 1 .. N : registered[m] # c
    BY <1>1 DEF AddCommand, Range
  <2>2. \A m : m \in 1 .. (N + 1) <=> (m = N + 1 \/ m \in 1 .. N)
    BY <1>1
  <2> HIDE DEF N
  <2>3. \A a, b \in 1 .. N : registered[a] = registered[b] => a = b
    BY <1>1 DEF MenuInv, IsInjective, N
  <2>4. QED
    BY <1>2, <2>1, <2>2, <2>3 DEF IsInjective
<1>4. /\ commandVersion' = N + 1 /\ menuVersion' = menuVersion /\ menuVersion \in 0 .. N
  BY DEF AddCommand, MenuInv
<1> HIDE DEF N
<1>5. N \in Nat
  BY <1>1 DEF N
<1>6. QED
  BY <1>2, <1>3, <1>4, <1>5 DEF MenuInv

LEMMA DrawKeeps == ASSUME MenuInv, DrawMenu PROVE MenuInv'
<1>1. commandVersion \in Nat
  BY LenProperties DEF MenuInv
<1>2. QED
  BY <1>1 DEF MenuInv, DrawMenu

LEMMA MenuSteps == MenuInv /\ [MenuNext]_menuVars => MenuInv'
<1> SUFFICES ASSUME MenuInv, [MenuNext]_menuVars PROVE MenuInv'
  OBVIOUS
<1>1. CASE UNCHANGED menuVars
  BY <1>1 DEF MenuInv, menuVars
<1>2. QED
  BY <1>1, CommandKeeps, DrawKeeps DEF MenuNext

LEMMA MenuHolds == MenuInv => MenuOrdered
<1> SUFFICES ASSUME MenuInv, menuVersion = commandVersion, registered # <<>>
             PROVE  /\ \A c \in Range(registered) : \E i \in DOMAIN items :
                         items[i].id = c /\ items[i].path = Append(Placed[c].menu, Placed[c].title)
                    /\ \A i, j \in DOMAIN items : items[i].path = items[j].path /\ items[i].id = items[j].id => i = j
                    /\ {items[i].path : i \in {k \in DOMAIN items : items[k].id = NoCommandId}}
                         = UNION {Paths(c) : c \in Range(registered)}
                    /\ \A i \in DOMAIN items :
                         LET row == ChildItems(items, i)
                         IN /\ IsInjective(row)
                            /\ Range(row) = {j \in DOMAIN items \ {1} : Front(items[j].path) = items[i].path
                                                                           /\ items[i].id = NoCommandId}
                            /\ \A k \in 1..(Len(row) - 1) : ~Precedes(items[row[k + 1]], items[row[k]])
  BY DEF MenuOrdered
<1> DEFINE N == Len(registered)
<1>1. /\ N \in Nat /\ DOMAIN registered = 1 .. N /\ 1 \in 1 .. N
      /\ \A n \in 1 .. N : registered[n] \in MenuCommands /\ registered[n] # NoCommandId
  BY LenProperties, ElementOfSeq, EmptySeq, MenuAssumption DEF MenuInv
<1>2. MenuTree(items) /\ BuiltItems(items, registered, N)
  BY MenuBuilt DEF MenuInv
<1> HIDE DEF N
<1>3. ASSUME NEW c \in Range(registered)
      PROVE  \E i \in DOMAIN items : items[i].id = c /\ items[i].path = Append(Placed[c].menu, Placed[c].title)
  <2>1. PICK n \in 1 .. N : c = registered[n]
    BY <1>1 DEF Range
  <2>2. HasItem(items, TextOf(c), c)
    BY <1>2, <2>1 DEF BuiltItems
  <2>3. QED
    BY <2>2 DEF HasItem, TextOf
<1>4. \A i, j \in DOMAIN items : items[i].path = items[j].path /\ items[i].id = items[j].id => i = j
  BY <1>2 DEF MenuTree
<1>5. {items[i].path : i \in {k \in DOMAIN items : items[k].id = NoCommandId}}
        = UNION {Paths(c) : c \in Range(registered)}
  <2> DEFINE menus == {items[i].path : i \in {k \in DOMAIN items : items[k].id = NoCommandId}}
             paths == UNION {Paths(c) : c \in Range(registered)}
  <2>1. \A q : q \in menus <=> HasItem(items, q, NoCommandId)
    BY DEF HasItem
  <2>2. \A q : q \in paths <=> \E n \in 1 .. N : q \in Paths(registered[n])
    BY <1>1 DEF Range
  <2>3. <<>> \in Paths(registered[1])
    <3>1. Placed[registered[1]].menu \in Seq(Nat)
      BY <1>1, MenuAssumption
    <3>2. 0 \in 0 .. Len(Placed[registered[1]].menu) /\ SubSeq(Placed[registered[1]].menu, 1, 0) = <<>>
      BY <3>1, WholePath
    <3>3. QED
      BY <3>2 DEF Paths
  <2>4. \A q : HasItem(items, q, NoCommandId) <=> \E n \in 1 .. N : q \in Paths(registered[n])
    <3> SUFFICES ASSUME NEW q PROVE HasItem(items, q, NoCommandId) <=> \E n \in 1 .. N : q \in Paths(registered[n])
      OBVIOUS
    <3>1. HasItem(items, q, NoCommandId) <=>
            \/ q = <<>>
            \/ \E n \in 1 .. N : q \in Paths(registered[n])
      BY <1>1, <1>2 DEF BuiltItems
    <3>2. QED
      BY <1>1, <2>3, <3>1
  <2> HIDE DEF menus, paths
  <2>5. menus = paths
    BY <2>1, <2>2, <2>4
  <2>6. QED
    BY <2>5 DEF menus, paths
<1>6. ASSUME NEW i \in DOMAIN items
      PROVE  LET row == ChildItems(items, i)
             IN /\ IsInjective(row)
                /\ Range(row) = {j \in DOMAIN items \ {1} : Front(items[j].path) = items[i].path
                                                               /\ items[i].id = NoCommandId}
                /\ \A k \in 1..(Len(row) - 1) : ~Precedes(items[row[k + 1]], items[row[k]])
  <2>1. PICK c : ChainOf(items, i, c)
    BY <1>2 DEF MenuTree
  <2>2. Len(items) \in Nat /\ DOMAIN items = 1 .. Len(items)
    BY <1>2, LenProperties DEF MenuTree
  <2>3. ChildItems(items, i) = c
    BY <2>1, <2>2, ChildItemsLinked DEF ChainOf
  <2>4. IsInjective(c) /\ \A k \in 1..(Len(c) - 1) : ~Precedes(items[c[k + 1]], items[c[k]])
    BY <2>1 DEF ChainOf, Linked, ChainSorted
  <2>5. Range(c) = {j \in DOMAIN items \ {1} : Front(items[j].path) = items[i].path
                                                /\ items[i].id = NoCommandId}
    BY <2>1 DEF ChainOf, ChildOf
  <2>6. QED
    BY <2>3, <2>4, <2>5
<1>7. QED
  BY <1>3, <1>4, <1>5, <1>6

\* In whatever order the commands are added, a menu drawn since the last has every
\* one of them, the menus they are in, and each menu's items in order.
THEOREM MenuStaysOrdered == MenuSpec => []MenuOrdered
BY MenuStarts, MenuSteps, MenuHolds, PTL DEF MenuSpec

-----------------------------------------------------------------------------
(* The asset browser *)

\* A chain of entries whose links are c's order.
LinkedEntries(es, i, c) ==
    /\ c \in Seq(DOMAIN es)
    /\ es[i].firstChild = IF c = <<>> THEN 0 ELSE c[1]
    /\ \A k \in 1 .. Len(c) : es[c[k]].nextSibling = IF k = Len(c) THEN 0 ELSE c[k + 1]
    /\ IsInjective(c)

\* The walk: after n steps, the first n of the chain.
LEMMA ChildrenLinked ==
    ASSUME NEW es, NEW N \in Nat, Len(es) = N, DOMAIN es = 1 .. N, NEW i, NEW c, LinkedEntries(es, i, c)
    PROVE  Children(es, i) = c
<1> DEFINE next(row) == After(es, i, row)
           value(n, of) == IF n = 0 THEN <<>> ELSE Walk(es, i, of[n - 1])
           L == Len(c)
           first(n) == [k \in 1 .. (IF n < L THEN n ELSE L) |-> c[k]]
           walk == [n \in 0 .. N |-> first(n)]
           walked == CHOOSE f : f = [n \in 0 .. N |-> value(n, f)]
<1>1. c \in Seq(1 .. N) /\ L \in Nat /\ DOMAIN c = 1 .. L /\ \A k \in 1 .. L : c[k] \in 1 .. N
  <2>1. c \in Seq(1 .. N)
    BY DEF LinkedEntries
  <2>2. L \in Nat /\ DOMAIN c = 1 .. L
    BY <2>1, LenProperties
  <2>3. \A k \in 1 .. L : c[k] \in 1 .. N
    BY <2>1, <2>2, ElementOfSeq
  <2>4. QED
    BY <2>1, <2>2, <2>3
<1>2. L <= N
  <2>1. c \in Injection(1 .. L, 1 .. N)
    <3>1. c \in [1 .. L -> 1 .. N]
      BY <1>1, LenProperties
    <3>2. QED
      BY <3>1 DEF LinkedEntries, Injection
  <2>2. ASSUME NEW n \in Nat PROVE IsFiniteSet(1 .. n) /\ Cardinality(1 .. n) = n
    <3>1. n \in Int /\ 1 \in Int
      OBVIOUS
    <3>2. IsFiniteSet(1 .. n) /\ Cardinality(1 .. n) = IF 1 > n THEN 0 ELSE n - 1 + 1
      BY <3>1, FS_Interval
    <3>3. QED
      BY <3>2
  <2>3. Cardinality(1 .. L) <= Cardinality(1 .. N)
    BY <2>1, <2>2, FS_Injection
  <2>4. Cardinality(1 .. N) = N
    BY <2>2
  <2>5. Cardinality(1 .. L) = L
    BY <1>1, <2>2
  <2>6. QED
    BY <2>3, <2>4, <2>5, Zenon
<1>3. ASSUME NEW n \in 1 .. N
      PROVE  first(n) = Walk(es, i, first(n - 1))
  <2> DEFINE m == IF n - 1 < L THEN n - 1 ELSE L
             before == first(n - 1)
  <2>1. before = [k \in 1 .. m |-> c[k]] /\ m \in 0 .. L /\ m \in Nat
    BY <1>1
  <2>2. before \in Seq(1 .. N) /\ Len(before) = m /\ \A k \in 1 .. m : before[k] = c[k]
    BY <1>1, <2>1
  <2> HIDE DEF before
  <2>3. (before = <<>>) <=> (m = 0)
    BY <2>1, <2>2
  <2>4. next(before) = IF m = L THEN 0 ELSE c[m + 1]
    <3>1. CASE m = 0
      <4>1. (c = <<>>) <=> (L = 0)
        BY <1>1
      <4>2. next(before) = es[i].firstChild
        BY <2>3, <3>1 DEF After
      <4>3. es[i].firstChild = IF L = 0 THEN 0 ELSE c[1]
        BY <4>1 DEF LinkedEntries
      <4>4. QED
        BY <1>1, <3>1, <4>2, <4>3
    <3>2. CASE m # 0
      <4>1. Last(before) = c[m] /\ m \in 1 .. L
        BY <2>1, <2>2, <3>2 DEF Last
      <4>2. next(before) = es[c[m]].nextSibling
        BY <2>3, <3>2, <4>1 DEF After
      <4>3. es[c[m]].nextSibling = IF m = L THEN 0 ELSE c[m + 1]
        BY <4>1 DEF LinkedEntries
      <4>4. QED
        BY <4>2, <4>3
    <3>3. QED
      BY <3>1, <3>2
  <2>5. Walk(es, i, before) = IF next(before) = 0 THEN before ELSE Append(before, next(before))
    BY DEF Walk
  <2> HIDE DEF next
  <2>6. CASE m = L
    <3>1. first(n) = before
      BY <1>1, <2>6 DEF before
    <3>2. QED
      BY <2>5, <2>4, <2>6, <3>1 DEF before
  <2>7. CASE m # L
    <3>1. m = n - 1 /\ n \in 1 .. L /\ n = m + 1
      BY <1>1, <2>7
    <3>2. c[n] # 0
      BY <1>1, <3>1
    <3>3. first(n) = [k \in 1 .. n |-> c[k]]
      <4>0. L \in Nat /\ n \in Nat /\ n <= L
        BY <1>1, <3>1
      <4> HIDE DEF L
      <4>1. (IF n < L THEN n ELSE L) = n
        BY <4>0
      <4>2. QED
        BY <4>1
    <3> HIDE DEF m
    <3>4. Append(before, c[n]) = [k \in 1 .. n |-> c[k]]
      BY <1>1, <2>1, <2>2, <3>1
    <3>5. next(before) = c[n]
      BY <2>4, <2>7, <3>1
    <3>6. first(n) = Append(before, next(before)) /\ next(before) # 0
      BY <3>2, <3>3, <3>4, <3>5
    <3>7. QED
      BY <2>5, <3>6 DEF before
  <2>8. QED
    BY <2>6, <2>7
<1>4. first(0) = <<>> /\ first(N) = c
  <2>1. first(0) = <<>>
    BY <1>1
  <2>2. first(N) = [k \in 1 .. L |-> c[k]]
    <3>0. L \in Nat
      BY <1>1
    <3> HIDE DEF L
    <3>1. (IF N < L THEN N ELSE L) = L
      BY <1>2, <3>0
    <3>2. QED
      BY <3>1
  <2>3. QED
    BY <1>1, <2>1, <2>2
<1> HIDE DEF first, next
<1>5. \A n \in 0 .. N : walk[n] = value(n, walk)
  <2> SUFFICES ASSUME NEW n \in 0 .. N PROVE walk[n] = value(n, walk)
    OBVIOUS
  <2>1. CASE n = 0
    BY <1>4, <2>1
  <2>2. CASE n # 0
    <3>1. n \in 1 .. N /\ n - 1 \in 0 .. N
      BY <2>2
    <3>2. walk[n] = first(n) /\ walk[n - 1] = first(n - 1)
      BY <3>1
    <3>3. QED
      BY <1>3, <2>2, <3>1, <3>2
  <2>3. QED
    BY <2>1, <2>2
<1>6. walk = [n \in 0 .. N |-> value(n, walk)]
  <2> HIDE DEF value
  <2>1. QED
    BY <1>5
<1>7. walked = [n \in 0 .. N |-> value(n, walked)]
  BY <1>6, Zenon
<1>8. Children(es, i) = walked[N]
  BY DEF Children
<1>9. walk[0] = first(0) /\ walk[N] = first(N)
  OBVIOUS
<1> HIDE DEF walk, walked
<1>10. walked[0] = walk[0]
  BY <1>5, <1>7
<1>11. ASSUME NEW n \in 1 .. N, walked[n - 1] = walk[n - 1] PROVE walked[n] = walk[n]
  <2>1. n \in 0 .. N /\ n # 0
    OBVIOUS
  <2>2. walked[n] = value(n, walked) /\ walk[n] = value(n, walk)
    BY <1>5, <1>7, <2>1
  <2>3. QED
    BY <1>11, <2>1, <2>2
<1>12. walked[N] = walk[N]
  BY <1>10, <1>11, SameValues
<1>13. QED
  BY <1>4, <1>8, <1>9, <1>12

Kinds == {"folder", "file"}

EntrySet == [path : Seq(STRING), kind : Kinds, parent : Nat, firstChild : Nat, nextSibling : Nat]

\* All of an entry but its links to others.
SameEntry(a, b) == a.path = b.path /\ a.kind = b.kind /\ a.parent = b.parent

LEMMA EntryFields ==
    ASSUME NEW a \in EntrySet, NEW v \in Nat
    PROVE  /\ a.path \in Seq(STRING) /\ a.kind \in Kinds /\ a.parent \in Nat
           /\ a.firstChild \in Nat /\ a.nextSibling \in Nat
           /\ LET b == [a EXCEPT !.nextSibling = v]
              IN b \in EntrySet /\ SameEntry(a, b) /\ b.firstChild = a.firstChild /\ b.nextSibling = v
           /\ LET b == [a EXCEPT !.firstChild = v]
              IN b \in EntrySet /\ SameEntry(a, b) /\ b.nextSibling = a.nextSibling /\ b.firstChild = v
BY DEF EntrySet, SameEntry

IsEntry(e, path, kind, parent, next) ==
    /\ e \in EntrySet /\ e.path = path /\ e.kind = kind /\ e.parent = parent
    /\ e.firstChild = 0 /\ e.nextSibling = next

LEMMA NewEntry ==
    ASSUME NEW path \in Seq(STRING), NEW kind \in Kinds, NEW parent \in Nat, NEW next \in Nat
    PROVE  /\ IsEntry(Entry(path, kind, parent), path, kind, parent, 0)
           /\ IsEntry([Entry(path, kind, parent) EXCEPT !.nextSibling = next], path, kind, parent, next)
<1> DEFINE e == Entry(path, kind, parent)
<1>1. IsEntry(e, path, kind, parent, 0)
  BY DEF Entry, EntrySet, IsEntry
<1> HIDE DEF e
<1>2. [e EXCEPT !.nextSibling = next] \in EntrySet /\ SameEntry(e, [e EXCEPT !.nextSibling = next])
      /\ [e EXCEPT !.nextSibling = next].firstChild = e.firstChild
      /\ [e EXCEPT !.nextSibling = next].nextSibling = next
  BY <1>1, EntryFields DEF IsEntry
<1>3. IsEntry([e EXCEPT !.nextSibling = next], path, kind, parent, next)
  BY <1>1, <1>2 DEF IsEntry, SameEntry
<1>4. QED
  BY <1>1, <1>3 DEF e

WithNext(es, i, v) == [es EXCEPT ![i].nextSibling = v]

NextIs(es, i, v, r) ==
    /\ r \in Seq(EntrySet) /\ Len(r) = Len(es)
    /\ \A j \in DOMAIN es :
         /\ SameEntry(es[j], r[j]) /\ r[j].firstChild = es[j].firstChild
         /\ r[j].nextSibling = IF j = i THEN v ELSE es[j].nextSibling

LEMMA NextSet ==
    ASSUME NEW es \in Seq(EntrySet), NEW i \in DOMAIN es, NEW v \in Nat
    PROVE  NextIs(es, i, v, WithNext(es, i, v))
<1> DEFINE r == WithNext(es, i, v)
           b == [es[i] EXCEPT !.nextSibling = v]
<1>1. es[i] \in EntrySet
  BY ElementOfSeq, LenProperties
<1>2. b \in EntrySet /\ SameEntry(es[i], b) /\ b.firstChild = es[i].firstChild /\ b.nextSibling = v
  BY <1>1, EntryFields
<1>3. r = [es EXCEPT ![i] = b]
  BY DEF WithNext
<1> HIDE DEF b, r
<1>4. r \in Seq(EntrySet) /\ Len(r) = Len(es) /\ \A j \in DOMAIN es : r[j] = IF j = i THEN b ELSE es[j]
  BY <1>2, <1>3, LenProperties, ExceptSeq
<1>5. QED
  BY <1>2, <1>4 DEF SameEntry, NextIs, r

WithFirst(es, i, v) == [es EXCEPT ![i].firstChild = v]

FirstIs(es, i, v, r) ==
    /\ r \in Seq(EntrySet) /\ Len(r) = Len(es)
    /\ \A j \in DOMAIN es :
         /\ SameEntry(es[j], r[j]) /\ r[j].nextSibling = es[j].nextSibling
         /\ r[j].firstChild = IF j = i THEN v ELSE es[j].firstChild

LEMMA FirstSet ==
    ASSUME NEW es \in Seq(EntrySet), NEW i \in DOMAIN es, NEW v \in Nat
    PROVE  FirstIs(es, i, v, WithFirst(es, i, v))
<1> DEFINE r == WithFirst(es, i, v)
           b == [es[i] EXCEPT !.firstChild = v]
<1>1. es[i] \in EntrySet
  BY ElementOfSeq, LenProperties
<1>2. b \in EntrySet /\ SameEntry(es[i], b) /\ b.nextSibling = es[i].nextSibling /\ b.firstChild = v
  BY <1>1, EntryFields
<1>3. r = [es EXCEPT ![i] = b]
  BY DEF WithFirst
<1> HIDE DEF b, r
<1>4. r \in Seq(EntrySet) /\ Len(r) = Len(es) /\ \A j \in DOMAIN es : r[j] = IF j = i THEN b ELSE es[j]
  BY <1>2, <1>3, LenProperties, ExceptSeq
<1>5. QED
  BY <1>2, <1>4 DEF SameEntry, FirstIs, r

\* r is es with n, a new entry with the fields of e, the k-th of p's children c.
EntryPut(es, p, n, c, k, e, r) ==
    /\ n = Len(es) + 1 /\ r \in Seq(EntrySet) /\ DOMAIN r = DOMAIN es \cup {n}
    /\ \A j \in DOMAIN es :
         /\ SameEntry(es[j], r[j])
         /\ r[j].firstChild = IF k = 1 /\ j = p THEN n ELSE es[j].firstChild
         /\ r[j].nextSibling = IF k > 1 /\ j = c[k - 1] THEN n ELSE es[j].nextSibling
    /\ SameEntry(e, r[n]) /\ r[n].firstChild = e.firstChild /\ r[n].nextSibling = e.nextSibling

LEMMA PutEntry ==
    ASSUME NEW es \in Seq(EntrySet), NEW p \in DOMAIN es, NEW c \in Seq(DOMAIN es),
           NEW k \in 1 .. (Len(c) + 1), NEW e \in EntrySet, NEW n, n = Len(es) + 1,
           NEW r, r = IF k = 1 THEN WithFirst(Append(es, e), p, n) ELSE WithNext(Append(es, e), c[k - 1], n)
    PROVE  EntryPut(es, p, n, c, k, e, r) /\ n \in Nat /\ n \notin DOMAIN es
<1> DEFINE s == Append(es, e)
<1>1. /\ n \in Nat /\ n \notin DOMAIN es
      /\ s \in Seq(EntrySet) /\ Len(s) = n /\ DOMAIN s = DOMAIN es \cup {n}
      /\ s[n] = e /\ \A j \in DOMAIN es : s[j] = es[j]
  <2>1. Len(es) \in Nat /\ DOMAIN es = 1 .. Len(es)
    BY LenProperties
  <2>2. s \in Seq(EntrySet) /\ Len(s) = n /\ s[n] = e /\ \A j \in 1 .. Len(es) : s[j] = es[j]
    BY AppendProperties
  <2>3. DOMAIN s = 1 .. n
    BY <2>2, LenProperties
  <2>4. QED
    BY <2>1, <2>2, <2>3
<1>2. Len(c) \in Nat /\ \A m \in 1 .. Len(c) : c[m] \in DOMAIN es
  BY LenProperties, ElementOfSeq
<1>3. r = IF k = 1 THEN WithFirst(s, p, n) ELSE WithNext(s, c[k - 1], n)
  OBVIOUS
<1> HIDE DEF s
<1>4. ASSUME NEW j \in DOMAIN es PROVE j \in DOMAIN s /\ j # n /\ s[j] = es[j]
  BY <1>1
<1>5. CASE k = 1
  <2>1. FirstIs(s, p, n, r)
    BY <1>1, <1>3, <1>5, FirstSet
  <2>2. DOMAIN r = DOMAIN s /\ r \in Seq(EntrySet)
    BY <1>1, <2>1, LenProperties DEF FirstIs
  <2>3. ASSUME NEW j \in DOMAIN s
        PROVE  /\ SameEntry(s[j], r[j]) /\ r[j].nextSibling = s[j].nextSibling
               /\ r[j].firstChild = IF j = p THEN n ELSE s[j].firstChild
    BY <2>1 DEF FirstIs
  <2>4. SameEntry(e, r[n]) /\ r[n].firstChild = e.firstChild /\ r[n].nextSibling = e.nextSibling
    BY <1>1, <2>3
  <2>5. ASSUME NEW j \in DOMAIN es
        PROVE  /\ SameEntry(es[j], r[j])
               /\ r[j].firstChild = IF k = 1 /\ j = p THEN n ELSE es[j].firstChild
               /\ r[j].nextSibling = IF k > 1 /\ j = c[k - 1] THEN n ELSE es[j].nextSibling
    <3>1. ~(k > 1)
      BY <1>5
    <3>2. QED
      BY <1>4, <1>5, <2>3, <3>1
  <2>6. QED
    BY <1>1, <2>2, <2>4, <2>5 DEF EntryPut
<1>6. CASE k # 1
  <2> DEFINE q == c[k - 1]
  <2>1. k - 1 \in 1 .. Len(c) /\ k > 1
    BY <1>2, <1>6
  <2>2. q \in DOMAIN es /\ q \in DOMAIN s /\ q # n
    BY <1>1, <1>2, <2>1
  <2>3. r = WithNext(s, q, n)
    BY <1>3, <1>6
  <2> HIDE DEF q
  <2>4. NextIs(s, q, n, r)
    BY <1>1, <2>2, <2>3, NextSet
  <2>5. DOMAIN r = DOMAIN s /\ r \in Seq(EntrySet)
    BY <1>1, <2>4, LenProperties DEF NextIs
  <2>6. ASSUME NEW j \in DOMAIN s
        PROVE  /\ SameEntry(s[j], r[j]) /\ r[j].firstChild = s[j].firstChild
               /\ r[j].nextSibling = IF j = q THEN n ELSE s[j].nextSibling
    BY <2>4 DEF NextIs
  <2>7. SameEntry(e, r[n]) /\ r[n].firstChild = e.firstChild /\ r[n].nextSibling = e.nextSibling
    BY <1>1, <2>2, <2>6
  <2>8. ASSUME NEW j \in DOMAIN es
        PROVE  /\ SameEntry(es[j], r[j])
               /\ r[j].firstChild = IF k = 1 /\ j = p THEN n ELSE es[j].firstChild
               /\ r[j].nextSibling = IF k > 1 /\ j = q THEN n ELSE es[j].nextSibling
    BY <1>4, <1>6, <2>1, <2>6
  <2>9. QED
    BY <1>1, <2>5, <2>7, <2>8 DEF EntryPut, q
<1>7. QED
  BY <1>1, <1>5, <1>6

FoldersFirst(es, c) ==
    \A k, l \in DOMAIN c : es[c[k]].kind = "file" /\ es[c[l]].kind = "folder" => l < k

\* c is the children of i, in the order of their links.
EntriesOf(es, i, c) ==
    /\ LinkedEntries(es, i, c)
    /\ FoldersFirst(es, c)
    /\ \A j : j \in Range(c) <=> j \in DOMAIN es /\ es[j].parent = i

EntryTree(es) ==
    /\ es \in Seq(EntrySet)
    /\ 1 \in DOMAIN es /\ es[1].path = <<>> /\ es[1].kind = "folder" /\ es[1].parent = 0
    /\ \A j \in DOMAIN es \ {1} :
         /\ es[j].path # <<>> /\ es[j].parent \in DOMAIN es
         /\ es[es[j].parent].kind = "folder" /\ Front(es[j].path) = es[es[j].parent].path
    /\ \A i, j \in DOMAIN es : es[i].path = es[j].path /\ es[i].kind = es[j].kind => i = j
    /\ \A i \in DOMAIN es : \E c : EntriesOf(es, i, c)

HasEntry(es, path, kind) == \E i \in DOMAIN es : es[i].path = path /\ es[i].kind = kind

\* r is es and an entry of that path and kind.
OneMoreEntry(es, r, path, kind) ==
    \A q, d : HasEntry(r, q, d) <=> HasEntry(es, q, d) \/ (q = path /\ d = kind)

\* An entry of that kind may be the k-th of the children c: folders come first.
Fits(es, c, k, kind) ==
    \A m \in 1 .. Len(c) : /\ kind = "folder" /\ es[c[m]].kind = "file" => m >= k
                           /\ kind = "file" /\ es[c[m]].kind = "folder" => m < k

LEMMA OtherEntries ==
    ASSUME NEW es, NEW p \in DOMAIN es, NEW c, EntriesOf(es, p, c),
           NEW n, n \notin DOMAIN es, NEW k \in 1 .. (Len(c) + 1), NEW e, e.parent = p,
           NEW r, EntryPut(es, p, n, c, k, e, r),
           NEW i \in DOMAIN es, i # p, NEW d, EntriesOf(es, i, d)
    PROVE  EntriesOf(r, i, d)
<1>1. /\ Len(d) \in Nat /\ DOMAIN d = 1 .. Len(d) /\ \A m \in 1 .. Len(d) : d[m] \in DOMAIN es
      /\ Len(c) \in Nat /\ DOMAIN c = 1 .. Len(c)
  <2>1. d \in Seq(DOMAIN es) /\ c \in Seq(DOMAIN es)
    BY DEF EntriesOf, LinkedEntries
  <2>2. QED
    BY <2>1, LenProperties, ElementOfSeq
<1>2. \A m \in 1 .. Len(d) : d[m] \notin Range(c)
  <2> SUFFICES ASSUME NEW m \in 1 .. Len(d), d[m] \in Range(c) PROVE FALSE
    OBVIOUS
  <2>1. d[m] \in Range(d)
    BY <1>1 DEF Range
  <2>2. es[d[m]].parent = i /\ es[d[m]].parent = p
    BY <2>1 DEF EntriesOf
  <2>3. QED
    BY <2>2
<1>3. k > 1 => k - 1 \in 1 .. Len(c) /\ c[k - 1] \in Range(c)
  <2>1. k > 1 => k - 1 \in 1 .. Len(c)
    BY <1>1
  <2>2. QED
    BY <1>1, <2>1 DEF Range
<1>4. ASSUME NEW j \in DOMAIN es
      PROVE  /\ SameEntry(es[j], r[j])
             /\ r[j].firstChild = IF k = 1 /\ j = p THEN n ELSE es[j].firstChild
             /\ r[j].nextSibling = IF k > 1 /\ j = c[k - 1] THEN n ELSE es[j].nextSibling
  BY DEF EntryPut
<1>5. DOMAIN r = DOMAIN es \cup {n} /\ r[n].parent = p
  BY DEF EntryPut, SameEntry
<1>6. LinkedEntries(r, i, d)
  <2>1. d \in Seq(DOMAIN r)
    <3>1. d \in Seq(DOMAIN es) /\ DOMAIN es \subseteq DOMAIN r
      BY <1>5 DEF EntriesOf, LinkedEntries
    <3>2. QED
      BY <3>1
  <2>2. r[i].firstChild = es[i].firstChild
    BY <1>4
  <2>3. \A m \in 1 .. Len(d) : r[d[m]].nextSibling = es[d[m]].nextSibling
    BY <1>1, <1>2, <1>3, <1>4
  <2>4. QED
    BY <2>1, <2>2, <2>3 DEF EntriesOf, LinkedEntries
<1>7. FoldersFirst(r, d)
  <2>1. \A m \in DOMAIN d : r[d[m]].kind = es[d[m]].kind
    BY <1>1, <1>4 DEF SameEntry
  <2>2. QED
    BY <2>1 DEF EntriesOf, FoldersFirst
<1>8. ASSUME NEW j PROVE j \in Range(d) <=> j \in DOMAIN r /\ r[j].parent = i
  <2>1. CASE j = n
    <3>1. n \notin Range(d)
      BY DEF EntriesOf
    <3>2. QED
      BY <1>5, <2>1, <3>1
  <2>2. CASE j # n
    <3>1. (j \in DOMAIN r /\ r[j].parent = i) <=> (j \in DOMAIN es /\ es[j].parent = i)
      BY <1>4, <1>5, <2>2 DEF SameEntry
    <3>2. QED
      BY <3>1 DEF EntriesOf
  <2>3. QED
    BY <2>1, <2>2
<1>9. QED
  BY <1>6, <1>7, <1>8 DEF EntriesOf

LEMMA EntryLinks ==
    ASSUME NEW es \in Seq(EntrySet), NEW p \in DOMAIN es, NEW c, LinkedEntries(es, p, c),
           NEW n, n \notin DOMAIN es, NEW k \in 1 .. (Len(c) + 1),
           NEW e, e.nextSibling = IF k <= Len(c) THEN c[k] ELSE 0,
           NEW r, EntryPut(es, p, n, c, k, e, r)
    PROVE  LinkedEntries(r, p, Among(c, n, k))
<1> DEFINE L == Len(c)
           d == Among(c, n, k)
<1>1. c \in Seq(DOMAIN es) /\ L \in Nat /\ DOMAIN c = 1 .. L /\ \A m \in 1 .. L : c[m] \in DOMAIN es /\ c[m] # n
  <2>1. c \in Seq(DOMAIN es)
    BY DEF LinkedEntries
  <2>2. L \in Nat /\ DOMAIN c = 1 .. L /\ \A m \in 1 .. L : c[m] \in DOMAIN es
    BY <2>1, LenProperties, ElementOfSeq
  <2>3. QED
    BY <2>1, <2>2
<1>2. /\ DOMAIN r = DOMAIN es \cup {n}
      /\ r[p].firstChild = IF k = 1 THEN n ELSE es[p].firstChild
      /\ r[n].nextSibling = IF k <= L THEN c[k] ELSE 0
      /\ \A j \in DOMAIN es : r[j].nextSibling = IF k > 1 /\ j = c[k - 1] THEN n ELSE es[j].nextSibling
  BY DEF EntryPut
<1>3. /\ d \in Seq(DOMAIN r) /\ Len(d) = L + 1
      /\ \A m \in 1 .. (L + 1) : d[m] = IF m < k THEN c[m] ELSE IF m = k THEN n ELSE c[m - 1]
      /\ IsInjective(d)
  <2>1. d \in Seq(DOMAIN es \cup {n}) /\ Spliced(c, n, k, d)
    BY <1>1, AmongAt
  <2>2. QED
    BY <1>2, <2>1 DEF LinkedEntries, Spliced
<1>4. /\ es[p].firstChild = IF L = 0 THEN 0 ELSE c[1]
      /\ \A m \in 1 .. L : es[c[m]].nextSibling = IF m = L THEN 0 ELSE c[m + 1]
      /\ \A a, b \in 1 .. L : c[a] = c[b] => a = b
  <2>1. (c = <<>>) <=> (L = 0)
    BY <1>1, EmptySeq
  <2>2. QED
    BY <1>1, <2>1 DEF LinkedEntries, IsInjective
<1> HIDE DEF d, L
<1>5. k \in 1 .. (L + 1)
  BY DEF L
<1>6. d # <<>> /\ r[p].firstChild = d[1]
  <2>1. d # <<>>
    BY <1>1, <1>3
  <2>2. d[1] = IF 1 < k THEN c[1] ELSE n
    BY <1>1, <1>3, <1>5
  <2>3. k # 1 => L # 0
    BY <1>1, <1>5
  <2>4. QED
    BY <1>1, <1>2, <1>4, <1>5, <2>1, <2>2, <2>3
<1>7. ASSUME NEW m \in 1 .. (L + 1)
      PROVE  r[d[m]].nextSibling = IF m = L + 1 THEN 0 ELSE d[m + 1]
  <2>0. m = L + 1 \/ (m + 1 \in 1 .. (L + 1) /\ m # L + 1)
    BY <1>1
  <2>1. CASE m < k
    <3>1. m \in 1 .. L /\ d[m] = c[m] /\ m + 1 \in 1 .. (L + 1) /\ m # L + 1
      BY <1>1, <1>3, <1>5, <2>1
    <3>2. CASE m = k - 1
      <4>1. d[m + 1] = n
        BY <1>1, <1>3, <1>5, <3>1, <3>2
      <4>2. r[c[m]].nextSibling = n
        BY <1>1, <1>2, <1>5, <3>1, <3>2
      <4>3. QED
        BY <3>1, <4>1, <4>2
    <3>3. CASE m # k - 1
      <4>1. m + 1 < k /\ m # L
        <5>1. k \in Nat /\ L \in Nat /\ m \in Nat /\ k <= L + 1
          BY <1>1, <1>5, <3>1
        <5>2. QED
          BY <2>1, <3>3, <5>1
      <4>2. d[m + 1] = c[m + 1]
        BY <1>3, <3>1, <4>1
      <4>3. k > 1 => k - 1 \in 1 .. L
        BY <1>1, <1>5
      <4>4. r[c[m]].nextSibling = es[c[m]].nextSibling
        BY <1>1, <1>2, <1>4, <3>1, <3>3, <4>3
      <4>5. QED
        BY <1>4, <3>1, <4>1, <4>2, <4>4
    <3>4. QED
      BY <3>2, <3>3
  <2>2. CASE m = k
    <3>1. d[m] = n
      BY <1>1, <1>3, <1>5, <2>2
    <3>2. m # L + 1 => k <= L /\ d[m + 1] = c[k]
      BY <1>1, <1>3, <1>5, <2>0, <2>2
    <3>3. m = L + 1 => ~(k <= L)
      BY <1>1, <2>2
    <3>4. QED
      BY <1>2, <3>1, <3>2, <3>3
  <2>3. CASE m > k
    <3>1. m - 1 \in 1 .. L /\ m - 1 # k - 1 /\ (m - 1) + 1 = m /\ ~(m < k) /\ m # k
      BY <1>1, <1>5, <2>3
    <3>2. d[m] = c[m - 1]
      BY <1>3, <3>1
    <3>3. k > 1 => k - 1 \in 1 .. L
      BY <1>1, <1>5
    <3>4. r[c[m - 1]].nextSibling = es[c[m - 1]].nextSibling
      BY <1>1, <1>2, <1>4, <3>1, <3>3
    <3>5. es[c[m - 1]].nextSibling = IF m - 1 = L THEN 0 ELSE c[m]
      BY <1>4, <3>1
    <3>6. m # L + 1 => d[m + 1] = c[m]
      <4>1. ~(m + 1 < k) /\ m + 1 # k /\ (m + 1) - 1 = m
        BY <1>1, <1>5, <2>3
      <4>2. m + 1 \in 1 .. (L + 1) => d[m + 1] = c[(m + 1) - 1]
        BY <1>3, <4>1
      <4>3. QED
        BY <2>0, <4>1, <4>2
    <3>7. (m - 1 = L) <=> (m = L + 1)
      BY <1>1
    <3>8. QED
      BY <3>2, <3>4, <3>5, <3>6, <3>7
  <2>4. QED
    BY <1>1, <1>5, <2>1, <2>2, <2>3
<1>8. QED
  BY <1>3, <1>6, <1>7 DEF LinkedEntries, d

LEMMA FoldersStayFirst ==
    ASSUME NEW es, NEW c \in Seq(DOMAIN es), FoldersFirst(es, c),
           NEW n, n \notin DOMAIN es, NEW k \in 1 .. (Len(c) + 1), NEW kind \in Kinds, Fits(es, c, k, kind),
           NEW r, r[n].kind = kind, \A j \in DOMAIN es : r[j].kind = es[j].kind
    PROVE  FoldersFirst(r, Among(c, n, k))
<1> DEFINE L == Len(c)
           d == Among(c, n, k)
<1>1. L \in Nat /\ DOMAIN c = 1 .. L /\ \A m \in 1 .. L : c[m] \in DOMAIN es
  BY LenProperties, ElementOfSeq
<1>2. /\ d \in Seq(DOMAIN es \cup {n}) /\ Len(d) = L + 1
      /\ \A m \in 1 .. (L + 1) : d[m] = IF m < k THEN c[m] ELSE IF m = k THEN n ELSE c[m - 1]
  <2>1. d \in Seq(DOMAIN es \cup {n}) /\ Spliced(c, n, k, d)
    BY <1>1, AmongAt
  <2>2. QED
    BY <2>1 DEF Spliced
<1>3. DOMAIN d = 1 .. (L + 1)
  BY <1>2, LenProperties
<1> SUFFICES ASSUME NEW a \in 1 .. (L + 1), NEW b \in 1 .. (L + 1), r[d[a]].kind = "file", r[d[b]].kind = "folder"
             PROVE  b < a
  <2> HIDE DEF d, L
  <2>1. (\A a, b \in DOMAIN d : r[d[a]].kind = "file" /\ r[d[b]].kind = "folder" => b < a) => FoldersFirst(r, d)
    BY DEF FoldersFirst
  <2>2. QED
    BY <1>3, <2>1 DEF d
<1> HIDE DEF d
<1>4. \A m \in 1 .. L : r[c[m]].kind = es[c[m]].kind
  BY <1>1
<1>5. k \in 1 .. (L + 1)
  OBVIOUS
<1> HIDE DEF L
<1>6. /\ a < k => a \in 1 .. L /\ d[a] = c[a] /\ es[c[a]].kind = "file"
      /\ a = k => d[a] = n /\ kind = "file"
      /\ a > k => a - 1 \in 1 .. L /\ d[a] = c[a - 1] /\ es[c[a - 1]].kind = "file"
  BY <1>1, <1>2, <1>4, <1>5
<1>7. /\ b < k => b \in 1 .. L /\ d[b] = c[b] /\ es[c[b]].kind = "folder"
      /\ b = k => d[b] = n /\ kind = "folder"
      /\ b > k => b - 1 \in 1 .. L /\ d[b] = c[b - 1] /\ es[c[b - 1]].kind = "folder"
  BY <1>1, <1>2, <1>4, <1>5
<1>8. \A x, y \in 1 .. L : es[c[x]].kind = "file" /\ es[c[y]].kind = "folder" => y < x
  BY <1>1 DEF FoldersFirst
<1>9. \A m \in 1 .. L : /\ kind = "folder" /\ es[c[m]].kind = "file" => m >= k
                        /\ kind = "file" /\ es[c[m]].kind = "folder" => m < k
  BY DEF Fits, L
<1>10. a < k \/ a = k \/ a > k
  BY <1>1, <1>5
<1>11. b < k \/ b = k \/ b > k
  BY <1>1, <1>5
<1>12. CASE a = k
  BY <1>1, <1>5, <1>6, <1>7, <1>9, <1>11, <1>12
<1>13. CASE b = k
  BY <1>1, <1>5, <1>6, <1>7, <1>9, <1>10, <1>13
<1>14. CASE a < k /\ b < k
  BY <1>6, <1>7, <1>8, <1>14
<1>15. CASE a < k /\ b > k
  BY <1>1, <1>5, <1>6, <1>7, <1>8, <1>15
<1>16. CASE a > k /\ b < k
  BY <1>1, <1>5, <1>16
<1>17. CASE a > k /\ b > k
  BY <1>1, <1>5, <1>6, <1>7, <1>8, <1>17
<1>18. QED
  BY <1>10, <1>11, <1>12, <1>13, <1>14, <1>15, <1>16, <1>17

LEMMA LastOfNames ==
    ASSUME NEW S, NEW path \in Seq(S), path # <<>>
    PROVE  /\ Front(path) \in Seq(S) /\ Last(path) \in S /\ Append(Front(path), Last(path)) = path
           /\ Front(path) # path
<1> DEFINE N == Len(path)
           f == Front(path)
<1>1. N \in Nat /\ N # 0 /\ path = [m \in 1 .. N |-> path[m]] /\ \A m \in 1 .. N : path[m] \in S
  BY LenProperties, ElementOfSeq, EmptySeq
<1> HIDE DEF N
<1>2. f = [m \in 1 .. (N - 1) |-> path[m]] /\ N - 1 \in Nat
  BY <1>1 DEF Front, N
<1>3. f \in Seq(S) /\ Len(f) = N - 1
  <2> DEFINE M == N - 1
  <2>1. M \in Nat /\ f = [m \in 1 .. M |-> path[m]]
    BY <1>2
  <2>2. \A m \in 1 .. M : path[m] \in S
    BY <1>1
  <2> HIDE DEF M
  <2>3. f \in Seq(S) /\ Len(f) = M
    BY <2>1, <2>2
  <2>4. QED
    BY <2>3 DEF M
<1> HIDE DEF f
<1>4. Last(path) = path[N] /\ path[N] \in S
  BY <1>1 DEF Last, N
<1>5. Append(f, path[N]) = [m \in 1 .. N |-> IF m <= N - 1 THEN f[m] ELSE path[N]]
  BY <1>1, <1>2, <1>3
<1>6. \A m \in 1 .. N : (IF m <= N - 1 THEN f[m] ELSE path[N]) = path[m]
  <2> TAKE m \in 1 .. N
  <2>1. CASE m <= N - 1
    BY <1>1, <1>2, <2>1
  <2>2. CASE ~(m <= N - 1)
    <3>1. m = N
      BY <1>1, <2>2
    <3>2. QED
      BY <2>2, <3>1
  <2>3. QED
    BY <2>1, <2>2
<1>7. Append(f, path[N]) = path
  BY <1>1, <1>5, <1>6
<1>8. f # path
  BY <1>1, <1>3 DEF N
<1>9. QED
  BY <1>3, <1>4, <1>7, <1>8 DEF f

LEMMA EntryAdded ==
    ASSUME NEW es, EntryTree(es), NEW p \in DOMAIN es, es[p].kind = "folder", NEW c, EntriesOf(es, p, c),
           NEW k \in 1 .. (Len(c) + 1), NEW n, n = Len(es) + 1,
           NEW e \in EntrySet, e.path # <<>>, Front(e.path) = es[p].path, e.parent = p, Fits(es, c, k, e.kind),
           e.firstChild = 0, e.nextSibling = IF k <= Len(c) THEN c[k] ELSE 0, ~HasEntry(es, e.path, e.kind),
           NEW r, r = IF k = 1 THEN WithFirst(Append(es, e), p, n) ELSE WithNext(Append(es, e), c[k - 1], n)
    PROVE  /\ EntryTree(r) /\ OneMoreEntry(es, r, e.path, e.kind)
           /\ n \in DOMAIN r /\ r[n].path = e.path /\ r[n].kind = e.kind
<1>1. es \in Seq(EntrySet) /\ c \in Seq(DOMAIN es) /\ 1 \in DOMAIN es /\ DOMAIN es \subseteq Nat \ {0}
  <2>1. es \in Seq(EntrySet) /\ 1 \in DOMAIN es
    BY DEF EntryTree
  <2>2. Len(es) \in Nat /\ DOMAIN es = 1 .. Len(es)
    BY <2>1, LenProperties
  <2>3. QED
    BY <2>1, <2>2 DEF EntriesOf, LinkedEntries
<1>2. EntryPut(es, p, n, c, k, e, r) /\ n \in Nat /\ n \notin DOMAIN es
  BY <1>1, PutEntry
<1>3. /\ DOMAIN r = DOMAIN es \cup {n} /\ r \in Seq(EntrySet) /\ n # 1
      /\ r[n].path = e.path /\ r[n].kind = e.kind /\ r[n].parent = p /\ r[n].firstChild = 0
  BY <1>1, <1>2 DEF EntryPut, SameEntry
<1>4. \A j \in DOMAIN es : r[j].path = es[j].path /\ r[j].kind = es[j].kind /\ r[j].parent = es[j].parent
  BY <1>2 DEF EntryPut, SameEntry
<1>5. EntriesOf(r, p, Among(c, n, k))
  <2>1. LinkedEntries(r, p, Among(c, n, k))
    BY <1>1, <1>2, EntryLinks DEF EntriesOf
  <2>2. FoldersFirst(r, Among(c, n, k))
    <3>1. FoldersFirst(es, c) /\ e.kind \in Kinds
      BY EntryFields DEF EntriesOf
    <3>2. \A j \in DOMAIN es : r[j].kind = es[j].kind
      BY <1>4
    <3>3. c \in Seq(DOMAIN es) /\ n \notin DOMAIN es /\ r[n].kind = e.kind
      BY <1>1, <1>2, <1>3
    <3> DEFINE kind == e.kind
    <3>4. kind \in Kinds /\ Fits(es, c, k, kind) /\ r[n].kind = kind
      BY <3>1, <3>3
    <3> HIDE DEF kind
    <3>5. QED
      BY <3>1, <3>2, <3>3, <3>4, FoldersStayFirst
  <2>3. Range(Among(c, n, k)) = Range(c) \cup {n}
    <3>1. Spliced(c, n, k, Among(c, n, k))
      BY <1>1, <1>2, AmongAt
    <3>2. QED
      BY <3>1 DEF Spliced
  <2>4. ASSUME NEW j PROVE j \in Range(Among(c, n, k)) <=> j \in DOMAIN r /\ r[j].parent = p
    <3>1. CASE j = n
      BY <1>3, <2>3, <3>1
    <3>2. CASE j # n
      <4>1. (j \in DOMAIN r /\ r[j].parent = p) <=> (j \in DOMAIN es /\ es[j].parent = p)
        BY <1>3, <1>4, <3>2
      <4>2. j \in Range(c) <=> j \in DOMAIN es /\ es[j].parent = p
        BY DEF EntriesOf
      <4>3. QED
        BY <2>3, <3>2, <4>1, <4>2
    <3>3. QED
      BY <3>1, <3>2
  <2>5. QED
    BY <2>1, <2>2, <2>4 DEF EntriesOf
<1>6. \A i \in DOMAIN es : \E d : EntriesOf(r, i, d)
  <2> SUFFICES ASSUME NEW i \in DOMAIN es, i # p PROVE \E d : EntriesOf(r, i, d)
    BY <1>5
  <2>1. PICK d : EntriesOf(es, i, d)
    BY DEF EntryTree
  <2>2. EntriesOf(r, i, d)
    BY <1>2, <2>1, OtherEntries
  <2>3. QED
    BY <2>2
<1>7. EntriesOf(r, n, <<>>)
  <2>1. LinkedEntries(r, n, <<>>)
    BY <1>3 DEF LinkedEntries, IsInjective
  <2>2. FoldersFirst(r, <<>>)
    BY DEF FoldersFirst
  <2>3. \A j \in DOMAIN r : r[j].parent # n
    <3>1. r[n].parent # n
      BY <1>2, <1>3
    <3>2. \A j \in DOMAIN es : es[j].parent # n
      BY <1>1, <1>2 DEF EntryTree
    <3>3. QED
      BY <1>3, <1>4, <3>1, <3>2
  <2>4. Range(<<>>) = {}
    BY DEF Range
  <2>5. QED
    BY <2>1, <2>2, <2>3, <2>4 DEF EntriesOf
<1>8. EntryTree(r)
  <2>1. 1 \in DOMAIN r /\ r[1].path = <<>> /\ r[1].kind = "folder" /\ r[1].parent = 0
    BY <1>1, <1>3, <1>4 DEF EntryTree
  <2>2. ASSUME NEW j \in DOMAIN r \ {1}
        PROVE  /\ r[j].path # <<>> /\ r[j].parent \in DOMAIN r
               /\ r[r[j].parent].kind = "folder" /\ Front(r[j].path) = r[r[j].parent].path
    <3>1. CASE j = n
      BY <1>3, <1>4, <3>1
    <3>2. CASE j # n
      <4>1. j \in DOMAIN es \ {1}
        BY <1>3, <3>2
      <4>2. /\ es[j].path # <<>> /\ es[j].parent \in DOMAIN es
            /\ es[es[j].parent].kind = "folder" /\ Front(es[j].path) = es[es[j].parent].path
        BY <4>1 DEF EntryTree
      <4>3. QED
        BY <1>3, <1>4, <4>1, <4>2
    <3>3. QED
      BY <3>1, <3>2
  <2>3. ASSUME NEW i \in DOMAIN r, NEW j \in DOMAIN r, r[i].path = r[j].path, r[i].kind = r[j].kind PROVE i = j
    <3>1. \A l \in DOMAIN es : ~(r[l].path = r[n].path /\ r[l].kind = r[n].kind)
      BY <1>3, <1>4 DEF HasEntry
    <3>2. CASE i \in DOMAIN es /\ j \in DOMAIN es
      BY <1>4, <2>3, <3>2 DEF EntryTree
    <3>3. QED
      BY <1>3, <2>3, <3>1, <3>2
  <2>4. \A i \in DOMAIN r : \E d : EntriesOf(r, i, d)
    BY <1>3, <1>6, <1>7
  <2>5. QED
    BY <1>3, <2>1, <2>2, <2>3, <2>4 DEF EntryTree
<1>9. OneMoreEntry(es, r, e.path, e.kind)
  BY <1>3, <1>4 DEF OneMoreEntry, HasEntry
<1>10. QED
  BY <1>3, <1>8, <1>9

\* Of the children c, the first are folders, and the rest files.
LEMMA FoldersOf ==
    ASSUME NEW es \in Seq(EntrySet), NEW c \in Seq(DOMAIN es), FoldersFirst(es, c)
    PROVE  \E l \in 0 .. Len(c) :
              /\ Folders(es, c) = SubSeq(c, 1, l)
              /\ \A m \in 1 .. Len(c) : es[c[m]].kind = IF m <= l THEN "folder" ELSE "file"
<1> DEFINE L == Len(c)
           files == {k \in DOMAIN c : es[c[k]].kind = "file"}
<1>1. /\ L \in Nat /\ DOMAIN c = 1 .. L /\ SubSeq(c, 1, L) = c
      /\ \A m \in 1 .. L : c[m] \in DOMAIN es
  BY LenProperties, ElementOfSeq, WholePath
<1>2. \A m \in 1 .. L : es[c[m]].kind \in Kinds
  <2> SUFFICES ASSUME NEW m \in 1 .. L PROVE es[c[m]].kind \in Kinds
    OBVIOUS
  <2>1. c[m] \in DOMAIN es
    BY <1>1
  <2>2. es[c[m]] \in EntrySet
    BY <2>1, LenProperties, ElementOfSeq
  <2>3. QED
    BY <2>2, EntryFields
<1>3. \A a, b \in 1 .. L : es[c[a]].kind = "file" /\ es[c[b]].kind = "folder" => b < a
  BY <1>1 DEF FoldersFirst
<1>4. Folders(es, c) = IF files = {} THEN c ELSE SubSeq(c, 1, Min(files) - 1)
  BY DEF Folders
<1>5. CASE files = {}
  <2>1. \A m \in 1 .. L : es[c[m]].kind # "file"
    BY <1>1, <1>5
  <2>2. \A m \in 1 .. L : es[c[m]].kind = "folder"
    BY <1>2, <2>1 DEF Kinds
  <2>3. L \in 0 .. L /\ Folders(es, c) = SubSeq(c, 1, L)
    BY <1>1, <1>4, <1>5
  <2> HIDE DEF L
  <2>4. \A m \in 1 .. L : m <= L
    BY <1>1
  <2>5. QED
    BY <2>2, <2>3, <2>4 DEF L
<1>6. CASE files # {}
  <2>1. files \subseteq Nat
    BY <1>1
  <2>2. \E k \in files : \A m \in files : k <= m
    BY <1>6, <2>1, LeastNumber
  <2> DEFINE k == Min(files)
  <2>3. k \in files /\ \A m \in files : k <= m
    <3> HIDE DEF files
    <3>1. QED
      BY <2>2 DEF Min
  <2>4. k \in 1 .. L /\ es[c[k]].kind = "file"
    BY <1>1, <2>3
  <2>5. Folders(es, c) = SubSeq(c, 1, k - 1)
    BY <1>4, <1>6
  <2> HIDE DEF k
  <2>6. ASSUME NEW m \in 1 .. L PROVE es[c[m]].kind = IF m <= k - 1 THEN "folder" ELSE "file"
    <3>1. m <= k - 1 => m \notin files
      BY <1>1, <2>3, <2>4
    <3>2. ~(m <= k - 1) => ~(m < k)
      BY <1>1, <2>4
    <3>3. ~(m <= k - 1) => es[c[m]].kind # "folder"
      BY <1>3, <2>4, <3>2
    <3>4. m <= k - 1 => es[c[m]].kind # "file"
      BY <1>1, <3>1
    <3>5. QED
      BY <1>2, <3>3, <3>4 DEF Kinds
  <2>7. k - 1 \in 0 .. L
    BY <1>1, <2>4
  <2>8. QED
    BY <2>5, <2>6, <2>7
<1>7. QED
  BY <1>5, <1>6

\* s is the first l of p's children c.
LeadIs(es, p, c, l, s) ==
    /\ After(es, p, s) = IF l = Len(c) THEN 0 ELSE c[l + 1]
    /\ (s = <<>>) <=> (l = 0)
    /\ l # 0 => Last(s) = c[l]
    /\ DOMAIN s = 1 .. l /\ \A m \in 1 .. l : s[m] = c[m]

LEMMA AfterLead ==
    ASSUME NEW es \in Seq(EntrySet), NEW p \in DOMAIN es, NEW c, LinkedEntries(es, p, c), NEW l \in 0 .. Len(c)
    PROVE  LeadIs(es, p, c, l, SubSeq(c, 1, l))
<1> DEFINE L == Len(c)
           s == SubSeq(c, 1, l)
<1>1. c \in Seq(DOMAIN es) /\ L \in Nat /\ \A m \in 1 .. L : c[m] \in DOMAIN es
  <2>1. c \in Seq(DOMAIN es)
    BY DEF LinkedEntries
  <2>2. QED
    BY <2>1, LenProperties, ElementOfSeq
<1>2. /\ es[p].firstChild = IF L = 0 THEN 0 ELSE c[1]
      /\ \A m \in 1 .. L : es[c[m]].nextSibling = IF m = L THEN 0 ELSE c[m + 1]
  <2>1. (c = <<>>) <=> (L = 0)
    BY <1>1, EmptySeq
  <2>2. QED
    BY <1>1, <2>1 DEF LinkedEntries
<1> HIDE DEF L
<1>3. l \in 0 .. L
  BY DEF L
<1>4. s = [m \in 1 .. l |-> c[m]] /\ l \in Nat
  BY <1>1, <1>3 DEF L
<1>5. Len(s) = l /\ DOMAIN s = 1 .. l /\ \A m \in 1 .. l : s[m] = c[m]
  BY <1>4
<1> HIDE DEF s
<1>6. (s = <<>>) <=> (l = 0)
  BY <1>4, <1>5
<1>7. l # 0 => l \in 1 .. L /\ l \in 1 .. l /\ Last(s) = c[l]
  BY <1>1, <1>3, <1>5 DEF Last
<1>8. After(es, p, s) = IF l = L THEN 0 ELSE c[l + 1]
  <2>1. CASE l = 0
    BY <1>2, <1>6, <2>1 DEF After
  <2>2. CASE l # 0
    <3>1. After(es, p, s) = es[c[l]].nextSibling
      BY <1>6, <1>7, <2>2 DEF After
    <3>2. QED
      BY <1>2, <1>7, <2>2, <3>1
  <2>3. QED
    BY <2>1, <2>2
<1>9. QED
  BY <1>5, <1>6, <1>7, <1>8 DEF s, L, LeadIs

LEMMA ChildrenOfTree ==
    ASSUME NEW es, EntryTree(es), NEW i \in DOMAIN es
    PROVE  EntriesOf(es, i, Children(es, i))
<1>1. PICK c : EntriesOf(es, i, c)
  BY DEF EntryTree
<1>2. Len(es) \in Nat /\ DOMAIN es = 1 .. Len(es)
  <2>1. es \in Seq(EntrySet)
    BY DEF EntryTree
  <2>2. QED
    BY <2>1, LenProperties
<1>3. Children(es, i) = c
  BY <1>1, <1>2, ChildrenLinked DEF EntriesOf
<1>4. QED
  BY <1>1, <1>3

\* The tree r is es and n, an entry of that path and kind.
EntryIn(es, r, n, path, kind) ==
    /\ EntryTree(r) /\ OneMoreEntry(es, r, path, kind)
    /\ n \in DOMAIN r /\ r[n].path = path /\ r[n].kind = kind

LEMMA EntryLinked ==
    ASSUME NEW es, EntryTree(es), NEW p \in DOMAIN es, es[p].kind = "folder",
           NEW c, EntriesOf(es, p, c), NEW l \in 0 .. Len(c),
           NEW path, path # <<>>, Front(path) = es[p].path, NEW kind, ~HasEntry(es, path, kind),
           Fits(es, c, l + 1, kind),
           NEW e, IsEntry(e, path, kind, p, After(es, p, SubSeq(c, 1, l))),
           NEW r, r = Link(es, e, SubSeq(c, 1, l)), NEW n, n = Len(es) + 1
    PROVE  EntryIn(es, r, n, path, kind)
<1> DEFINE lead == SubSeq(c, 1, l)
           k == l + 1
<1>1. es \in Seq(EntrySet) /\ LinkedEntries(es, p, c) /\ c \in Seq(DOMAIN es) /\ Len(c) \in Nat
  <2>1. es \in Seq(EntrySet) /\ LinkedEntries(es, p, c) /\ c \in Seq(DOMAIN es)
    BY DEF EntryTree, EntriesOf, LinkedEntries
  <2>2. QED
    BY <2>1, LenProperties
<1>2. /\ After(es, p, lead) = IF l = Len(c) THEN 0 ELSE c[k]
      /\ (lead = <<>>) <=> (l = 0)
      /\ l # 0 => Last(lead) = c[l]
  <2>1. LeadIs(es, p, c, l, lead)
    BY <1>1, AfterLead
  <2> HIDE DEF lead
  <2>2. QED
    BY <2>1 DEF LeadIs
<1>3. e \in EntrySet /\ e.path = path /\ e.kind = kind /\ e.parent = p /\ e.firstChild = 0
      /\ e.nextSibling = After(es, p, lead)
  BY DEF IsEntry
<1>4. r = IF lead = <<>> THEN WithFirst(Append(es, e), p, n) ELSE WithNext(Append(es, e), Last(lead), n)
  BY <1>3 DEF Link, WithFirst, WithNext
<1> HIDE DEF lead
<1>5. /\ k \in 1 .. (Len(c) + 1) /\ (k = 1 <=> l = 0) /\ k - 1 = l /\ (l = Len(c) <=> ~(k <= Len(c)))
      /\ Fits(es, c, k, e.kind)
  BY <1>1, <1>3
<1> HIDE DEF k
<1>6. r = IF k = 1 THEN WithFirst(Append(es, e), p, n) ELSE WithNext(Append(es, e), c[k - 1], n)
  BY <1>2, <1>4, <1>5
<1>7. e.nextSibling = IF k <= Len(c) THEN c[k] ELSE 0
  BY <1>2, <1>3, <1>5
<1>8. /\ EntryTree(r) /\ OneMoreEntry(es, r, e.path, e.kind)
      /\ n \in DOMAIN r /\ r[n].path = e.path /\ r[n].kind = e.kind
  <2>1. e.path # <<>> /\ Front(e.path) = es[p].path /\ ~HasEntry(es, e.path, e.kind)
    BY <1>3
  <2>2. QED
    BY <1>3, <1>5, <1>6, <1>7, <2>1, EntryAdded
<1>9. QED
  BY <1>3, <1>8 DEF EntryIn

\* There is a folder of that path, at.
FolderAt(es, at, path) == at \in DOMAIN es /\ es[at].path = path /\ es[at].kind = "folder"

LEMMA FolderFound ==
    ASSUME NEW es, EntryTree(es), NEW p, NEW within \in Seq(STRING), FolderAt(es, p, within),
           NEW c, EntriesOf(es, p, c), NEW name \in STRING,
           NEW path \in Seq(STRING), path # <<>>, Front(path) = within, Last(path) = name, path = Append(within, name),
           NEW t, t = FolderAfter(es, p, Folders(es, c), name)
    PROVE  /\ EntryTree(t.entries) /\ FolderAt(t.entries, t.at, path)
           /\ OneMoreEntry(es, t.entries, path, "folder")
<1>1. es \in Seq(EntrySet) /\ p \in DOMAIN es /\ es[p].path = within /\ es[p].kind = "folder"
      /\ DOMAIN es = 1 .. Len(es) /\ Len(es) \in Nat
  <2>1. es \in Seq(EntrySet)
    BY DEF EntryTree
  <2>2. QED
    BY <2>1, LenProperties DEF FolderAt
<1>2. EntriesOf(es, p, c)
  OBVIOUS
<1>3. t = FolderAfter(es, p, Folders(es, c), name)
  OBVIOUS
<1>4. /\ LinkedEntries(es, p, c) /\ FoldersFirst(es, c)
      /\ c \in Seq(DOMAIN es) /\ Len(c) \in Nat /\ DOMAIN c = 1 .. Len(c) /\ \A m \in 1 .. Len(c) : c[m] \in DOMAIN es
  <2>1. LinkedEntries(es, p, c) /\ FoldersFirst(es, c) /\ c \in Seq(DOMAIN es)
    BY <1>2 DEF EntriesOf, LinkedEntries
  <2>2. QED
    BY <2>1, LenProperties, ElementOfSeq
<1>5. PICK l \in 0 .. Len(c) : /\ Folders(es, c) = SubSeq(c, 1, l)
                               /\ \A m \in 1 .. Len(c) : es[c[m]].kind = IF m <= l THEN "folder" ELSE "file"
  BY <1>1, <1>4, FoldersOf
<1>6. Len(c) \in Nat /\ l \in 0 .. Len(c) /\ (l = Len(c) \/ l + 1 \in 1 .. Len(c))
  <2> DEFINE L == Len(c)
  <2>1. L \in Nat /\ l \in 0 .. L
    BY <1>4
  <2> HIDE DEF L
  <2>2. l = L \/ l + 1 \in 1 .. L
    BY <2>1
  <2>3. QED
    BY <2>1, <2>2 DEF L
<1> DEFINE lead == SubSeq(c, 1, l)
           same == {k \in DOMAIN lead : Last(es[lead[k]].path) = name}
           next == After(es, p, lead)
           e == [Entry(path, "folder", p) EXCEPT !.nextSibling = next]
<1>7. /\ next = IF l = Len(c) THEN 0 ELSE c[l + 1]
      /\ DOMAIN lead = 1 .. l /\ \A m \in 1 .. l : lead[m] = c[m]
  <2>1. LeadIs(es, p, c, l, lead)
    BY <1>1, <1>4, AfterLead
  <2> HIDE DEF lead
  <2>2. QED
    BY <2>1 DEF LeadIs
<1>8. path \in Seq(STRING) /\ path # <<>> /\ Front(path) = within /\ Last(path) = name
  OBVIOUS
<1>9. t = IF same # {} THEN [entries |-> es, at |-> lead[Min(same)]]
          ELSE [entries |-> Link(es, e, lead), at |-> Len(es) + 1]
  BY <1>1, <1>3, <1>5 DEF FolderAfter
<1>10. ASSUME NEW j \in DOMAIN es, es[j].kind = "folder", es[j].path # <<>>
      PROVE  (es[j].path = path) <=> (es[j].parent = p /\ Last(es[j].path) = name)
  <2>1. es[j] \in EntrySet
    BY <1>1, ElementOfSeq
  <2>2. es[j].path \in Seq(STRING)
    BY <2>1, EntryFields
  <2>3. Append(Front(es[j].path), Last(es[j].path)) = es[j].path
    BY <1>10, <2>2, LastOfNames
  <2>4. j # 1
    BY <1>10 DEF EntryTree
  <2>5. /\ es[j].parent \in DOMAIN es /\ es[es[j].parent].kind = "folder"
        /\ Front(es[j].path) = es[es[j].parent].path
    BY <2>4 DEF EntryTree
  <2>6. Front(es[j].path) = within <=> es[j].parent = p
    BY <1>1, <2>5 DEF EntryTree
  <2>7. QED
    BY <1>8, <2>3, <2>6
<1>11. \A m \in 1 .. l : m \in 1 .. Len(c) /\ c[m] \in DOMAIN es /\ es[c[m]].parent = p /\ es[c[m]].kind = "folder"
                         /\ es[c[m]].path # <<>>
  <2> SUFFICES ASSUME NEW m \in 1 .. l
               PROVE  m \in 1 .. Len(c) /\ c[m] \in DOMAIN es /\ es[c[m]].parent = p /\ es[c[m]].kind = "folder"
                      /\ es[c[m]].path # <<>>
    OBVIOUS
  <2>1. m \in 1 .. Len(c) /\ m <= l
    BY <1>4, <1>5
  <2>2. c[m] \in Range(c)
    BY <1>4, <2>1 DEF Range
  <2>3. c[m] \in DOMAIN es /\ es[c[m]].parent = p
    BY <1>2, <2>2 DEF EntriesOf
  <2>4. c[m] # 1
    BY <1>1, <2>3 DEF EntryTree
  <2>5. es[c[m]].path # <<>>
    BY <2>3, <2>4 DEF EntryTree
  <2>6. QED
    BY <1>5, <2>1, <2>3, <2>5
<1> HIDE DEF lead, e, next
<1>12. CASE same # {}
  <2>1. same \subseteq Nat
    BY <1>5, <1>7
  <2>2. \E k \in same : \A m \in same : k <= m
    BY <1>12, <2>1, LeastNumber
  <2> DEFINE k == Min(same)
  <2>3. k \in same
    <3> HIDE DEF same
    <3>1. QED
      BY <2>2 DEF Min
  <2>4. k \in 1 .. l /\ Last(es[c[k]].path) = name /\ lead[k] = c[k]
    BY <1>7, <2>3
  <2>5. t = [entries |-> es, at |-> c[k]]
    BY <1>9, <1>12, <2>4
  <2> HIDE DEF k
  <2>6. FolderAt(es, c[k], path)
    BY <1>10, <1>11, <2>4 DEF FolderAt
  <2>7. OneMoreEntry(es, es, path, "folder")
    BY <2>6 DEF OneMoreEntry, HasEntry, FolderAt
  <2>8. t.entries = es /\ t.at = c[k]
    BY <2>5
  <2>9. QED
    BY <2>6, <2>7, <2>8
<1>13. CASE same = {}
  <2>1. ~HasEntry(es, path, "folder")
    <3> SUFFICES ASSUME NEW j \in DOMAIN es, es[j].path = path, es[j].kind = "folder" PROVE FALSE
      BY DEF HasEntry
    <3>1. es[j].parent = p /\ Last(es[j].path) = name
      BY <1>8, <1>10
    <3>2. j \in Range(c)
      BY <1>2, <3>1 DEF EntriesOf
    <3>3. PICK m \in 1 .. Len(c) : j = c[m]
      BY <1>4, <3>2 DEF Range
    <3>4. m <= l
      BY <1>5, <3>3
    <3>5. m \in 1 .. l
      BY <1>4, <1>5, <3>4
    <3>6. m \in same
      BY <1>7, <3>1, <3>3, <3>5
    <3>7. QED
      BY <1>13, <3>6
  <2>2. Fits(es, c, l + 1, "folder")
    BY <1>4, <1>5 DEF Fits
  <2>3. IsEntry(e, path, "folder", p, next)
    <3>1. l = Len(c) \/ l + 1 \in 1 .. Len(c)
      BY <1>6
    <3>2. next \in Nat
      <4>1. \A i \in DOMAIN es : i \in Nat
        BY <1>1
      <4>2. l # Len(c) => c[l + 1] \in DOMAIN es
        BY <1>4, <3>1
      <4>3. QED
        BY <1>7, <4>1, <4>2
    <3>3. p \in Nat /\ "folder" \in Kinds
      BY <1>1 DEF Kinds
    <3>4. QED
      BY <1>8, <3>2, <3>3, NewEntry DEF e
  <2> DEFINE n == Len(es) + 1
             r == Link(es, e, lead)
  <2>4. EntryIn(es, r, n, path, "folder")
    <3>1. r = Link(es, e, SubSeq(c, 1, l)) /\ n = Len(es) + 1
      BY DEF lead
    <3>2. IsEntry(e, path, "folder", p, After(es, p, SubSeq(c, 1, l)))
      BY <2>3 DEF next, lead
    <3> HIDE DEF r, n
    <3>3. es[p].kind = "folder" /\ Front(path) = es[p].path /\ l \in 0 .. Len(c)
      BY <1>1, <1>8, <1>6
    <3>4. QED
      BY <1>1, <1>2, <1>8, <2>1, <2>2, <3>3, <3>1, <3>2, EntryLinked
  <2> HIDE DEF r, n
  <2>5. t = [entries |-> r, at |-> n]
    BY <1>9, <1>13 DEF r, n
  <2>6. t.entries = r /\ t.at = n
    BY <2>5
  <2>7. QED
    BY <2>4, <2>6 DEF FolderAt, EntryIn
<1>14. QED
  BY <1>12, <1>13

LEMMA FolderAdded ==
    ASSUME NEW tree, EntryTree(tree.entries), NEW within \in Seq(STRING), FolderAt(tree.entries, tree.at, within),
           NEW name \in STRING, NEW path, path = Append(within, name)
    PROVE  /\ EntryTree(AddFolder(tree, name).entries)
           /\ FolderAt(AddFolder(tree, name).entries, AddFolder(tree, name).at, path)
           /\ OneMoreEntry(tree.entries, AddFolder(tree, name).entries, path, "folder")
<1> DEFINE es == tree.entries
           p == tree.at
           c == Children(es, p)
           t == AddFolder(tree, name)
<1>1. EntriesOf(es, p, c)
  BY ChildrenOfTree DEF FolderAt
<1>2. t = FolderAfter(es, p, Folders(es, c), name)
  BY DEF AddFolder, Leading
<1>3. path \in Seq(STRING) /\ path # <<>> /\ Front(path) = within /\ Last(path) = name
  <2>1. path \in Seq(STRING) /\ path # <<>> /\ Front(path) = within
    BY AppendedPath
  <2>2. Len(path) = Len(within) + 1 /\ path[Len(within) + 1] = name
    BY AppendProperties
  <2>3. QED
    BY <2>1, <2>2 DEF Last
<1>4. EntryTree(es) /\ FolderAt(es, p, within)
  OBVIOUS
<1> HIDE DEF t, c, p, es
<1>5. /\ EntryTree(t.entries) /\ FolderAt(t.entries, t.at, path)
      /\ OneMoreEntry(es, t.entries, path, "folder")
  BY <1>1, <1>2, <1>3, <1>4, FolderFound
<1>6. QED
  BY <1>5 DEF t, es

LEMMA LongerPath ==
    ASSUME NEW S, NEW path \in Seq(S), NEW n \in 1 .. Len(path)
    PROVE  SubSeq(path, 1, n) = Append(SubSeq(path, 1, n - 1), path[n]) /\ path[n] \in S
<1> DEFINE s == SubSeq(path, 1, n)
<1>1. Len(path) \in Nat /\ path[n] \in S
  BY LenProperties, ElementOfSeq
<1>2. s \in Seq(S) /\ s # <<>> /\ Front(s) = SubSeq(path, 1, n - 1)
  BY PathSteps
<1>3. Append(Front(s), Last(s)) = s
  BY <1>2, LastOfNames
<1>4. Last(s) = path[n]
  <2>1. s = [m \in 1 .. n |-> path[m]]
    BY <1>1
  <2>2. Len(s) = n /\ s[n] = path[n]
    BY <1>1, <2>1
  <2>3. QED
    BY <2>2 DEF Last
<1>5. QED
  BY <1>1, <1>2, <1>3, <1>4

\* r is es and the first n folders on the way to path.
WithFolders(es, r, path, n) ==
    \A q, d : HasEntry(r, q, d) <=>
                HasEntry(es, q, d) \/ (d = "folder" /\ \E m \in 1 .. n : q = SubSeq(path, 1, m))

LEMMA FoldersAdded ==
    ASSUME NEW es, EntryTree(es), NEW path \in Seq(STRING)
    PROVE  /\ EntryTree(AddFolders(es, path).entries)
           /\ FolderAt(AddFolders(es, path).entries, AddFolders(es, path).at, path)
           /\ WithFolders(es, AddFolders(es, path).entries, path, Len(path))
<1> DEFINE N == Len(path)
           start == [entries |-> es, at |-> 1]
           trees == CHOOSE f : StepsOf("folders", start, path, N, f)
<1>1. N \in Nat /\ SubSeq(path, 1, 0) = <<>> /\ SubSeq(path, 1, N) = path
  BY WholePath
<1>2. StepsOf("folders", start, path, N, trees)
  BY <1>1, StepsExist
<1>3. AddFolders(es, path) = trees[N]
  BY DEF AddFolders, StepsOf, NextItems
<1> HIDE DEF trees
<1>4. trees[0] = start /\ \A n \in 1 .. N : trees[n] = AddFolder(trees[n - 1], path[n])
  <2>1. \A n \in 0 .. N : trees[n] = IF n = 0 THEN start ELSE NextItems("folders", trees[n - 1], path, n)
    BY <1>2 DEF StepsOf
  <2> HIDE DEF N, start
  <2>2. 0 \in 0 .. N /\ \A n \in 1 .. N : n \in 0 .. N /\ n # 0
    BY <1>1
  <2>3. QED
    BY <2>1, <2>2 DEF NextItems
<1> DEFINE Right(n) == /\ EntryTree(trees[n].entries)
                       /\ FolderAt(trees[n].entries, trees[n].at, SubSeq(path, 1, n))
                       /\ WithFolders(es, trees[n].entries, path, n)
           bad == {n \in 0 .. N : ~Right(n)}
<1>5. Right(0)
  <2>1. trees[0].entries = es /\ trees[0].at = 1
    BY <1>4
  <2>2. FolderAt(es, 1, <<>>)
    BY DEF EntryTree, FolderAt
  <2>3. WithFolders(es, es, path, 0)
    BY DEF WithFolders
  <2>4. QED
    BY <1>1, <2>1, <2>2, <2>3
<1>6. ASSUME NEW n \in 1 .. N, Right(n - 1) PROVE Right(n)
  <2> DEFINE at == SubSeq(path, 1, n)
             within == SubSeq(path, 1, n - 1)
             tree == trees[n - 1]
             t == trees[n]
  <2>1. at = Append(within, path[n]) /\ path[n] \in STRING
    BY LongerPath
  <2>2. within \in Seq(STRING)
    <3>1. CASE n = 1
      BY <1>1, <3>1
    <3>2. CASE n # 1
      <4>1. n - 1 \in 1 .. Len(path)
        BY <1>1, <3>2
      <4>2. QED
        BY <4>1, PathSteps
    <3>3. QED
      BY <3>1, <3>2
  <2>3. t = AddFolder(tree, path[n])
    BY <1>4
  <2>4. EntryTree(tree.entries) /\ FolderAt(tree.entries, tree.at, within)
        /\ WithFolders(es, tree.entries, path, n - 1)
    BY <1>6
  <2> HIDE DEF at, within, tree, t
  <2>5. /\ EntryTree(t.entries) /\ FolderAt(t.entries, t.at, at)
        /\ OneMoreEntry(tree.entries, t.entries, at, "folder")
    BY <2>1, <2>2, <2>3, <2>4, FolderAdded
  <2>6. WithFolders(es, t.entries, path, n)
    <3> SUFFICES ASSUME NEW q, NEW d
                 PROVE  HasEntry(t.entries, q, d) <=>
                          HasEntry(es, q, d) \/ (d = "folder" /\ \E m \in 1 .. n : q = SubSeq(path, 1, m))
      BY DEF WithFolders
    <3>1. HasEntry(t.entries, q, d) <=> HasEntry(tree.entries, q, d) \/ (q = at /\ d = "folder")
      BY <2>5 DEF OneMoreEntry
    <3>2. HasEntry(tree.entries, q, d) <=>
            HasEntry(es, q, d) \/ (d = "folder" /\ \E m \in 1 .. (n - 1) : q = SubSeq(path, 1, m))
      BY <2>4 DEF WithFolders
    <3>3. (\E m \in 1 .. n : q = SubSeq(path, 1, m)) <=>
            (q = at \/ \E m \in 1 .. (n - 1) : q = SubSeq(path, 1, m))
      <4>1. \A m : m \in 1 .. n <=> (m = n \/ m \in 1 .. (n - 1))
        BY <1>1
      <4>2. QED
        BY <4>1 DEF at
    <3>4. QED
      BY <3>1, <3>2, <3>3
  <2>7. QED
    BY <2>5, <2>6 DEF t, at
<1> HIDE DEF Right
<1>7. bad = {}
  <2> SUFFICES ASSUME bad # {} PROVE FALSE
    OBVIOUS
  <2>1. PICK n \in bad : \A m \in bad : n <= m
    <3>1. bad \subseteq Nat
      OBVIOUS
    <3> HIDE DEF bad
    <3>2. QED
      BY <3>1, LeastNumber
  <2>2. n # 0 /\ n \in 1 .. N
    BY <1>1, <1>5, <2>1
  <2>3. n - 1 \in 0 .. N /\ ~(n <= n - 1)
    BY <1>1, <2>2
  <2>4. Right(n - 1)
    BY <2>1, <2>3
  <2>5. QED
    BY <1>6, <2>1, <2>2, <2>4
<1>8. Right(N)
  BY <1>1, <1>7
<1>9. QED
  BY <1>1, <1>3, <1>8 DEF Right

LEMMA FrontSteps ==
    ASSUME NEW S, NEW path \in Seq(S), path # <<>>
    PROVE  /\ Len(Front(path)) = Len(path) - 1
           /\ \A m \in 1 .. (Len(path) - 1) : SubSeq(Front(path), 1, m) = SubSeq(path, 1, m)
<1> DEFINE N == Len(path)
           f == Front(path)
<1>1. N \in Nat /\ N # 0
  BY LenProperties, EmptySeq
<1>2. f = [m \in 1 .. (N - 1) |-> path[m]]
  BY <1>1 DEF Front
<1> HIDE DEF f, N
<1>3. Len(f) = N - 1 /\ \A m \in 1 .. (N - 1) : f[m] = path[m]
  BY <1>1, <1>2
<1>4. ASSUME NEW m \in 1 .. (N - 1) PROVE SubSeq(f, 1, m) = SubSeq(path, 1, m)
  <2>1. SubSeq(f, 1, m) = [j \in 1 .. m |-> f[j]]
    BY <1>1
  <2>2. SubSeq(path, 1, m) = [j \in 1 .. m |-> path[j]]
    BY <1>1
  <2>3. \A j \in 1 .. m : f[j] = path[j]
    BY <1>1, <1>3
  <2>4. QED
    BY <2>1, <2>2, <2>3
<1>5. QED
  BY <1>3, <1>4 DEF f, N

\* r is es, the folders on the way to the file, and the file.
WithFile(es, r, path) ==
    \A q, d : HasEntry(r, q, d) <=>
                \/ HasEntry(es, q, d)
                \/ d = "folder" /\ \E m \in 1 .. (Len(path) - 1) : q = SubSeq(path, 1, m)
                \/ d = "file" /\ q = path

LEMMA FileAdded ==
    ASSUME NEW es, EntryTree(es), NEW path \in Seq(STRING), path # <<>>, ~HasEntry(es, path, "file")
    PROVE  EntryTree(AddFile(es, path)) /\ WithFile(es, AddFile(es, path), path)
<1> DEFINE front == Front(path)
           tree == AddFolders(es, front)
           so == tree.entries
           p == tree.at
           c == Children(so, p)
           n == Len(so) + 1
           e == Entry(path, "file", p)
           r == AddFile(es, path)
<1>1. r = Link(so, e, c)
  BY DEF AddFile, FileIn
<1>2. front \in Seq(STRING) /\ Len(front) = Len(path) - 1
      /\ \A m \in 1 .. (Len(path) - 1) : SubSeq(front, 1, m) = SubSeq(path, 1, m)
  BY LastOfNames, FrontSteps
<1> HIDE DEF front
<1>3. EntryTree(so) /\ FolderAt(so, p, front) /\ WithFolders(es, so, front, Len(front))
  BY <1>2, FoldersAdded
<1> HIDE DEF tree, so, p
<1>4. so \in Seq(EntrySet) /\ p \in DOMAIN so /\ p \in Nat /\ so[p].path = front /\ so[p].kind = "folder"
  <2>1. so \in Seq(EntrySet)
    BY <1>3 DEF EntryTree
  <2>2. DOMAIN so = 1 .. Len(so) /\ Len(so) \in Nat
    BY <2>1, LenProperties
  <2>3. QED
    BY <1>3, <2>1, <2>2 DEF FolderAt
<1>5. EntriesOf(so, p, c)
  BY <1>3, <1>4, ChildrenOfTree
<1> HIDE DEF c, r, e
<1>6. /\ LinkedEntries(so, p, c) /\ Len(c) \in Nat /\ Len(c) \in 0 .. Len(c) /\ SubSeq(c, 1, Len(c)) = c
      /\ DOMAIN c = 1 .. Len(c)
  <2>1. LinkedEntries(so, p, c) /\ c \in Seq(DOMAIN so)
    BY <1>5 DEF EntriesOf, LinkedEntries
  <2> DEFINE L == Len(c)
  <2>2. L \in Nat /\ SubSeq(c, 1, L) = c /\ DOMAIN c = 1 .. L
    BY <2>1, WholePath, LenProperties
  <2> HIDE DEF L
  <2>3. L \in 0 .. L
    BY <2>2
  <2>4. QED
    BY <2>1, <2>2, <2>3 DEF L
<1>7. After(so, p, c) = 0
  <2>1. LeadIs(so, p, c, Len(c), SubSeq(c, 1, Len(c)))
    BY <1>4, <1>6, AfterLead
  <2>2. QED
    BY <1>6, <2>1 DEF LeadIs
<1>8. IsEntry(e, path, "file", p, After(so, p, SubSeq(c, 1, Len(c))))
  <2>1. 0 \in Nat /\ "file" \in Kinds
    BY DEF Kinds
  <2>2. IsEntry(e, path, "file", p, 0)
    BY <1>4, <2>1, NewEntry DEF e
  <2>3. QED
    BY <1>6, <1>7, <2>2
<1>9. Fits(so, c, Len(c) + 1, "file")
  <2> SUFFICES ASSUME NEW m \in 1 .. Len(c) PROVE m < Len(c) + 1
    BY DEF Fits
  <2> DEFINE L == Len(c)
  <2>1. L \in Nat /\ m \in 1 .. L
    BY <1>6
  <2> HIDE DEF L
  <2>2. m < L + 1
    BY <2>1
  <2>3. QED
    BY <2>2 DEF L
<1>10. ~HasEntry(so, path, "file")
  BY <1>3 DEF WithFolders
<1>11. EntryIn(so, r, n, path, "file")
  <2>1. r = Link(so, e, SubSeq(c, 1, Len(c))) /\ n = Len(so) + 1 /\ Front(path) = so[p].path
    BY <1>1, <1>4, <1>6 DEF front
  <2> HIDE DEF n
  <2>2. QED
    BY <1>3, <1>4, <1>5, <1>6, <1>8, <1>9, <1>10, <2>1, EntryLinked
<1> HIDE DEF n
<1>12. WithFile(es, r, path)
  <2> SUFFICES ASSUME NEW q, NEW d
               PROVE  HasEntry(r, q, d) <=>
                        \/ HasEntry(es, q, d)
                        \/ d = "folder" /\ \E m \in 1 .. (Len(path) - 1) : q = SubSeq(path, 1, m)
                        \/ d = "file" /\ q = path
    BY DEF WithFile
  <2>1. HasEntry(r, q, d) <=> HasEntry(so, q, d) \/ (q = path /\ d = "file")
    BY <1>11 DEF EntryIn, OneMoreEntry
  <2>2. HasEntry(so, q, d) <=>
          HasEntry(es, q, d) \/ (d = "folder" /\ \E m \in 1 .. Len(front) : q = SubSeq(front, 1, m))
    BY <1>3 DEF WithFolders
  <2>3. (\E m \in 1 .. Len(front) : q = SubSeq(front, 1, m)) <=>
        (\E m \in 1 .. (Len(path) - 1) : q = SubSeq(path, 1, m))
    BY <1>2
  <2>4. QED
    BY <2>1, <2>2, <2>3
<1>13. QED
  BY <1>11, <1>12 DEF EntryIn, r

\* What a record adds to the tree.
FolderSteps(record) == 1 .. (Len(record.path) - IF record.kind = "file" THEN 1 ELSE 0)

Gives(record, q, d) ==
    /\ ~record.output
    /\ \/ d = "folder" /\ \E m \in FolderSteps(record) : q = SubSeq(record.path, 1, m)
       \/ d = "file" /\ record.kind = "file" /\ q = record.path

WithRecord(es, r, record) == \A q, d : HasEntry(r, q, d) <=> HasEntry(es, q, d) \/ Gives(record, q, d)

LEMMA RecordAdded ==
    ASSUME NEW es, EntryTree(es), NEW record \in RecordsOf,
           record.kind = "file" /\ ~record.output => ~HasEntry(es, record.path, "file")
    PROVE  EntryTree(AddRecord(es, record)) /\ WithRecord(es, AddRecord(es, record), record)
<1> DEFINE path == record.path
           r == AddRecord(es, record)
<1>1. path \in Seq(STRING) /\ path # <<>> /\ record.kind \in Kinds /\ record.output \in BOOLEAN
  BY BrowserAssumption DEF Kinds
<1>2. Len(path) \in Nat
  BY <1>1, LenProperties
<1> HIDE DEF path, r
<1>3. CASE record.output
  <2>1. r = es
    BY <1>3 DEF AddRecord, r
  <2>2. WithRecord(es, r, record)
    BY <1>3, <2>1 DEF WithRecord, Gives
  <2>3. QED
    BY <2>1, <2>2 DEF r
<1>4. CASE ~record.output /\ record.kind = "folder"
  <2>1. r = AddFolders(es, path).entries
    BY <1>4 DEF AddRecord, r, path
  <2>2. EntryTree(r) /\ WithFolders(es, r, path, Len(path))
    BY <1>1, <2>1, FoldersAdded
  <2>3. FolderSteps(record) = 1 .. Len(path)
    <3>1. FolderSteps(record) = 1 .. (Len(path) - 0)
      BY <1>4 DEF FolderSteps, path
    <3>2. Len(path) - 0 = Len(path)
      BY <1>2
    <3>3. QED
      BY <3>1, <3>2
  <2>4. WithRecord(es, r, record)
    <3> SUFFICES ASSUME NEW q, NEW d PROVE HasEntry(r, q, d) <=> HasEntry(es, q, d) \/ Gives(record, q, d)
      BY DEF WithRecord
    <3>1. Gives(record, q, d) <=> d = "folder" /\ \E m \in 1 .. Len(path) : q = SubSeq(path, 1, m)
      BY <1>4, <2>3 DEF Gives, path
    <3>2. HasEntry(r, q, d) <=>
            HasEntry(es, q, d) \/ (d = "folder" /\ \E m \in 1 .. Len(path) : q = SubSeq(path, 1, m))
      BY <2>2 DEF WithFolders
    <3>3. QED
      BY <3>1, <3>2
  <2>5. QED
    BY <2>2, <2>4 DEF r
<1>5. CASE ~record.output /\ record.kind # "folder"
  <2>1. record.kind = "file"
    BY <1>1, <1>5 DEF Kinds
  <2>2. r = AddFile(es, path)
    BY <1>5 DEF AddRecord, r, path
  <2>3. EntryTree(r) /\ WithFile(es, r, path)
    <3>1. ~HasEntry(es, path, "file")
      BY <1>5, <2>1 DEF path
    <3>2. QED
      BY <1>1, <2>2, <3>1, FileAdded
  <2>4. FolderSteps(record) = 1 .. (Len(path) - 1)
    BY <2>1 DEF FolderSteps, path
  <2>5. WithRecord(es, r, record)
    <3> SUFFICES ASSUME NEW q, NEW d PROVE HasEntry(r, q, d) <=> HasEntry(es, q, d) \/ Gives(record, q, d)
      BY DEF WithRecord
    <3>1. Gives(record, q, d) <=>
            \/ d = "folder" /\ \E m \in 1 .. (Len(path) - 1) : q = SubSeq(path, 1, m)
            \/ d = "file" /\ q = path
      BY <1>5, <2>1, <2>4 DEF Gives, path
    <3>2. HasEntry(r, q, d) <=>
            \/ HasEntry(es, q, d)
            \/ d = "folder" /\ \E m \in 1 .. (Len(path) - 1) : q = SubSeq(path, 1, m)
            \/ d = "file" /\ q = path
      BY <2>3 DEF WithFile
    <3>3. QED
      BY <3>1, <3>2
  <2>6. QED
    BY <2>3, <2>5 DEF r
<1>6. QED
  BY <1>1, <1>3, <1>4, <1>5

\* What is in the tree after the first n records.
BuiltEntries(r, given, n) ==
    \A q, d : HasEntry(r, q, d) <=> (q = <<>> /\ d = "folder") \/ \E m \in 1 .. n : Gives(given[m], q, d)

LEMMA RootEntries == EntryTree(<<Root>>) /\ \A given : BuiltEntries(<<Root>>, given, 0)
<1> DEFINE es == <<Root>>
<1>1. IsEntry(Root, <<>>, "folder", 0, 0)
  <2>1. <<>> \in Seq(STRING) /\ "folder" \in Kinds /\ 0 \in Nat
    BY DEF Kinds
  <2>2. QED
    BY <2>1, NewEntry DEF Root
<1>2. /\ es \in Seq(EntrySet) /\ DOMAIN es = {1} /\ es[1].path = <<>> /\ es[1].kind = "folder"
      /\ es[1].parent = 0 /\ es[1].firstChild = 0
  BY <1>1 DEF IsEntry
<1> HIDE DEF es
<1>3. EntriesOf(es, 1, <<>>)
  <2>1. LinkedEntries(es, 1, <<>>)
    BY <1>2 DEF LinkedEntries, IsInjective
  <2>2. FoldersFirst(es, <<>>)
    BY DEF FoldersFirst
  <2>3. Range(<<>>) = {}
    BY DEF Range
  <2>4. QED
    BY <1>2, <2>1, <2>2, <2>3 DEF EntriesOf
<1>4. EntryTree(es)
  BY <1>2, <1>3 DEF EntryTree
<1>5. \A given : BuiltEntries(es, given, 0)
  BY <1>2 DEF BuiltEntries, HasEntry
<1>6. QED
  BY <1>4, <1>5 DEF es

LEMMA EntriesBuilt ==
    ASSUME NEW given \in Seq(RecordsOf), IsInjective(given)
    PROVE  EntryTree(Built(given)) /\ BuiltEntries(Built(given), given, Len(given))
<1> DEFINE N == Len(given)
           start == <<Root>>
           built == CHOOSE f : StepsOf("records", start, given, N, f)
<1>1. N \in Nat /\ DOMAIN given = 1 .. N /\ \A n \in 1 .. N : given[n] \in RecordsOf
  BY LenProperties, ElementOfSeq
<1>2. StepsOf("records", start, given, N, built)
  BY <1>1, StepsExist
<1>3. Built(given) = built[N]
  BY DEF Built, StepsOf, NextItems
<1> HIDE DEF built, start
<1>4. built[0] = start /\ \A n \in 1 .. N : built[n] = AddRecord(built[n - 1], given[n])
  <2>1. \A n \in 0 .. N : built[n] = IF n = 0 THEN start ELSE NextItems("records", built[n - 1], given, n)
    BY <1>2 DEF StepsOf
  <2> HIDE DEF N
  <2>2. 0 \in 0 .. N /\ \A n \in 1 .. N : n \in 0 .. N /\ n # 0
    BY <1>1
  <2>3. QED
    BY <2>1, <2>2 DEF NextItems
<1> HIDE DEF N
<1> DEFINE Right(n) == EntryTree(built[n]) /\ BuiltEntries(built[n], given, n)
           bad == {n \in 0 .. N : ~Right(n)}
<1>5. Right(0)
  BY <1>4, RootEntries DEF start
<1>6. ASSUME NEW n \in 1 .. N, Right(n - 1) PROVE Right(n)
  <2> DEFINE record == given[n]
             es == built[n - 1]
             r == built[n]
  <2>1. record \in RecordsOf /\ r = AddRecord(es, record)
    BY <1>1, <1>4
  <2>2. EntryTree(es) /\ BuiltEntries(es, given, n - 1)
    BY <1>6
  <2>3. \A m \in 1 .. (n - 1) : given[m] # record /\ given[m] \in RecordsOf
    BY <1>1 DEF IsInjective
  <2> HIDE DEF record, es, r
  <2>4. ASSUME record.kind = "file", ~record.output, HasEntry(es, record.path, "file") PROVE FALSE
    <3>1. PICK m \in 1 .. (n - 1) : Gives(given[m], record.path, "file")
      BY <2>2, <2>4 DEF BuiltEntries
    <3> DEFINE other == given[m]
    <3>2. other # record /\ other \in RecordsOf
      BY <2>3
    <3>3. other.path = record.path /\ other.kind = record.kind /\ ~other.output
      BY <2>4, <3>1 DEF Gives
    <3> HIDE DEF other
    <3>4. other.output = record.output
      BY <2>1, <2>4, <3>2, <3>3, BrowserAssumption
    <3>5. other = record
      BY <2>1, <3>2, <3>3, <3>4, BrowserAssumption
    <3>6. QED
      BY <3>2, <3>5
  <2>5. EntryTree(r) /\ WithRecord(es, r, record)
    BY <2>1, <2>2, <2>4, RecordAdded
  <2>6. BuiltEntries(r, given, n)
    <3> SUFFICES ASSUME NEW q, NEW d
                 PROVE  HasEntry(r, q, d) <=>
                          (q = <<>> /\ d = "folder") \/ \E m \in 1 .. n : Gives(given[m], q, d)
      BY DEF BuiltEntries
    <3>1. HasEntry(r, q, d) <=> HasEntry(es, q, d) \/ Gives(given[n], q, d)
      BY <2>5 DEF WithRecord, record
    <3>2. HasEntry(es, q, d) <=>
            (q = <<>> /\ d = "folder") \/ \E m \in 1 .. (n - 1) : Gives(given[m], q, d)
      BY <2>2 DEF BuiltEntries
    <3>3. (\E m \in 1 .. n : Gives(given[m], q, d)) <=>
            (Gives(given[n], q, d) \/ \E m \in 1 .. (n - 1) : Gives(given[m], q, d))
      <4>1. \A m : m \in 1 .. n <=> (m = n \/ m \in 1 .. (n - 1))
        BY <1>1
      <4>2. QED
        BY <4>1
    <3>4. QED
      BY <3>1, <3>2, <3>3
  <2>7. QED
    BY <2>5, <2>6 DEF r
<1> HIDE DEF Right
<1>7. bad = {}
  <2> SUFFICES ASSUME bad # {} PROVE FALSE
    OBVIOUS
  <2>1. PICK n \in bad : \A m \in bad : n <= m
    <3>1. bad \subseteq Nat
      OBVIOUS
    <3> HIDE DEF bad
    <3>2. QED
      BY <3>1, LeastNumber
  <2>2. n # 0 /\ n \in 1 .. N
    BY <1>1, <1>5, <2>1
  <2>3. n - 1 \in 0 .. N /\ ~(n <= n - 1)
    BY <1>1, <2>2
  <2>4. Right(n - 1)
    BY <2>1, <2>3
  <2>5. QED
    BY <1>6, <2>1, <2>2, <2>4
<1>8. Right(N)
  BY <1>1, <1>7
<1>9. QED
  BY <1>3, <1>8 DEF Right, N

\* The tree is one of the records, however they came.
BrowserInv ==
    /\ manifestRecords \in Seq(RecordsOf) /\ IsInjective(manifestRecords)
    /\ EntryTree(entries) /\ BuiltEntries(entries, manifestRecords, Len(manifestRecords))
    /\ folderHistory \in Seq(Nat) /\ Len(folderHistory) <= MaxHistory
    /\ folderHistoryIndex \in 1 .. Len(folderHistory)

LEMMA BrowserStarts == BrowserInit => BrowserInv
<1> SUFFICES ASSUME BrowserInit PROVE BrowserInv
  OBVIOUS
<1>1. EntryTree(<<Root>>) /\ BuiltEntries(<<Root>>, <<>>, 0)
  BY RootEntries
<1> DEFINE root == <<Root>>
<1>2. entries = root /\ EntryTree(root) /\ BuiltEntries(root, <<>>, 0)
  BY <1>1 DEF BrowserInit
<1> HIDE DEF root
<1>3. manifestRecords = <<>> /\ Len(manifestRecords) = 0 /\ IsInjective(manifestRecords)
  BY DEF BrowserInit, IsInjective
<1>4. manifestRecords \in Seq(RecordsOf)
  BY <1>3
<1>5. folderHistory \in Seq(Nat) /\ Len(folderHistory) = 1 /\ folderHistoryIndex = 1 /\ 1 <= MaxHistory
  BY BrowserAssumption DEF BrowserInit
<1>6. folderHistoryIndex \in 1 .. Len(folderHistory)
  BY <1>5
<1>7. QED
  BY <1>2, <1>3, <1>4, <1>5, <1>6 DEF BrowserInv

LEMMA ManifestsAreRecords ==
    ASSUME BrowserInv, NEW given \in NextManifests
    PROVE  given \in Seq(RecordsOf) /\ IsInjective(given)
<1> DEFINE s == manifestRecords
           N == Len(s)
<1>1. s \in Seq(RecordsOf) /\ N \in Nat /\ DOMAIN s = 1 .. N /\ \A m \in 1 .. N : s[m] \in RecordsOf
  BY LenProperties, ElementOfSeq DEF BrowserInv
<1>2. IsInjective(given)
  BY DEF NextManifests
<1>3. \/ \E i \in 1 .. (N + 1), r \in RecordsOf : given = InsertAt(s, i, r)
      \/ \E i \in 1 .. N : given = RemoveAt(s, i)
  BY <1>1 DEF NextManifests
<1> HIDE DEF s, N
<1>4. \A m, n \in Nat \ {0} : n <= N => SubSeq(s, m, n) \in Seq(RecordsOf)
  <2> SUFFICES ASSUME NEW m \in Nat \ {0}, NEW n \in Nat \ {0}, n <= N PROVE SubSeq(s, m, n) \in Seq(RecordsOf)
    OBVIOUS
  <2>1. SubSeq(s, m, n) = [j \in 1 .. (n - m + 1) |-> s[m + j - 1]]
    OBVIOUS
  <2>2. ASSUME NEW j \in 1 .. (n - m + 1) PROVE s[m + j - 1] \in RecordsOf
    <3>1. m + j - 1 \in 1 .. N
      BY <1>1
    <3>2. QED
      BY <1>1, <3>1
  <2>3. CASE n - m + 1 \in Nat
    BY <2>1, <2>2, <2>3
  <2>4. CASE n - m + 1 \notin Nat
    <3>1. 1 .. (n - m + 1) = {}
      BY <2>4
    <3>2. SubSeq(s, m, n) = <<>>
      BY <2>1, <3>1
    <3>3. QED
      BY <3>2
  <2>5. QED
    BY <2>3, <2>4
<1>5. given \in Seq(RecordsOf)
  <2>1. \A m \in Nat : SubSeq(s, 1, 0) = <<>> /\ SubSeq(s, m + 1, m) = <<>>
    OBVIOUS
  <2>2. ASSUME NEW i \in 1 .. (N + 1), NEW r \in RecordsOf, given = InsertAt(s, i, r) PROVE given \in Seq(RecordsOf)
    <3>1. SubSeq(s, 1, i - 1) \in Seq(RecordsOf)
      BY <1>1, <1>4, <2>1
    <3>2. SubSeq(s, i, N) \in Seq(RecordsOf)
      <4>1. CASE N = 0
        BY <1>1, <2>1, <4>1
      <4>2. CASE N # 0
        BY <1>1, <1>4, <4>2
      <4>3. QED
        BY <4>1, <4>2
    <3>3. <<r>> \in Seq(RecordsOf)
      OBVIOUS
    <3>4. given = SubSeq(s, 1, i - 1) \o <<r>> \o SubSeq(s, i, N)
      BY <2>2 DEF InsertAt, N
    <3> DEFINE a == SubSeq(s, 1, i - 1)
               b == SubSeq(s, i, N)
    <3> HIDE DEF a, b
    <3>5. a \in Seq(RecordsOf) /\ b \in Seq(RecordsOf) /\ given = a \o <<r>> \o b
      BY <3>1, <3>2, <3>4 DEF a, b
    <3>6. QED
      BY <3>3, <3>5
  <2>3. ASSUME NEW i \in 1 .. N, given = RemoveAt(s, i) PROVE given \in Seq(RecordsOf)
    <3>1. SubSeq(s, 1, i - 1) \in Seq(RecordsOf)
      BY <1>1, <1>4, <2>1
    <3>2. SubSeq(s, i + 1, N) \in Seq(RecordsOf)
      BY <1>1, <1>4
    <3>3. given = SubSeq(s, 1, i - 1) \o SubSeq(s, i + 1, N)
      BY <2>3 DEF RemoveAt, N
    <3> DEFINE a == SubSeq(s, 1, i - 1)
               b == SubSeq(s, i + 1, N)
    <3> HIDE DEF a, b
    <3>4. a \in Seq(RecordsOf) /\ b \in Seq(RecordsOf) /\ given = a \o b
      BY <3>1, <3>2, <3>3 DEF a, b
    <3>5. QED
      BY <3>4
  <2>4. QED
    BY <1>3, <2>2, <2>3
<1>6. QED
  BY <1>2, <1>5

LEMMA RebuildKeeps == ASSUME BrowserInv, NEW given \in NextManifests, Rebuild(given) PROVE BrowserInv'
<1>1. given \in Seq(RecordsOf) /\ IsInjective(given)
  BY ManifestsAreRecords
<1>2. EntryTree(Built(given)) /\ BuiltEntries(Built(given), given, Len(given))
  BY <1>1, EntriesBuilt
<1> DEFINE made == Built(given)
<1>3. manifestRecords' = given /\ entries' = made /\ UNCHANGED <<folderHistory, folderHistoryIndex>>
  BY DEF Rebuild
<1> HIDE DEF made
<1>4. EntryTree(made) /\ BuiltEntries(made, given, Len(given))
  BY <1>2 DEF made
<1>5. QED
  BY <1>1, <1>3, <1>4 DEF BrowserInv

LEMMA OpenKeeps == ASSUME BrowserInv, NEW i \in Nat, OpenFolder(i) PROVE BrowserInv'
<1> DEFINE s == folderHistory
           x == folderHistoryIndex
           past == SubSeq(s, 1, x)
           kept == IF Len(past) >= MaxHistory THEN Tail(past) ELSE past
<1>1. s \in Seq(Nat) /\ Len(s) \in Nat /\ Len(s) <= MaxHistory /\ x \in 1 .. Len(s) /\ MaxHistory \in Nat \ {0}
  BY LenProperties, BrowserAssumption DEF BrowserInv
<1>2. past \in Seq(Nat) /\ past # <<>> /\ Len(past) = x
  <2>1. past \in Seq(Nat) /\ past # <<>>
    BY <1>1, PathSteps
  <2>2. Len(past) = x
    BY <1>1
  <2>3. QED
    BY <2>1, <2>2
<1>3. folderHistory' = Append(kept, i) /\ folderHistoryIndex' = Len(kept) + 1
  BY DEF OpenFolder
<1> HIDE DEF past
<1>4. kept \in Seq(Nat) /\ Len(kept) \in Nat /\ Len(kept) < MaxHistory
  <2>1. CASE Len(past) >= MaxHistory
    <3>1. Tail(past) \in Seq(Nat) /\ Len(Tail(past)) = Len(past) - 1
      BY <1>2, HeadTailProperties
    <3>2. kept = Tail(past)
      BY <2>1
    <3> HIDE DEF kept
    <3>3. QED
      BY <1>1, <1>2, <2>1, <3>1, <3>2
  <2>2. CASE ~(Len(past) >= MaxHistory)
    <3>1. kept = past
      BY <2>2
    <3> HIDE DEF kept
    <3>2. QED
      BY <1>1, <1>2, <2>2, <3>1
  <2>3. QED
    BY <2>1, <2>2
<1> HIDE DEF kept
<1>5. Append(kept, i) \in Seq(Nat) /\ Len(Append(kept, i)) = Len(kept) + 1
  BY <1>4, AppendProperties
<1>6. Len(kept) + 1 <= MaxHistory /\ Len(kept) + 1 \in 1 .. (Len(kept) + 1)
  BY <1>1, <1>4
<1>7. manifestRecords' = manifestRecords /\ entries' = entries
  BY DEF OpenFolder
<1>8. QED
  BY <1>3, <1>5, <1>6, <1>7 DEF BrowserInv

LEMMA TravelKeeps == ASSUME BrowserInv, Back \/ Forward PROVE BrowserInv'
<1>1. Len(folderHistory) \in Nat /\ folderHistoryIndex \in 1 .. Len(folderHistory)
  BY LenProperties DEF BrowserInv
<1>2. UNCHANGED <<manifestRecords, entries, folderHistory>>
  BY DEF Back, Forward, Travel
<1>3. folderHistoryIndex' \in 1 .. Len(folderHistory)
  BY <1>1 DEF Back, Forward, Travel
<1>4. QED
  BY <1>2, <1>3 DEF BrowserInv

LEMMA BrowserSteps == BrowserInv /\ [BrowserNext]_browserVars => BrowserInv'
<1> SUFFICES ASSUME BrowserInv, [BrowserNext]_browserVars PROVE BrowserInv'
  OBVIOUS
<1>1. DOMAIN entries \subseteq Nat
  <2>1. entries \in Seq(EntrySet)
    BY DEF BrowserInv, EntryTree
  <2>2. DOMAIN entries = 1 .. Len(entries) /\ Len(entries) \in Nat
    BY <2>1, LenProperties
  <2>3. QED
    BY <2>2
<1>2. CASE UNCHANGED browserVars
  BY <1>2 DEF BrowserInv, browserVars
<1>3. ASSUME NEW given \in NextManifests, Rebuild(given) PROVE BrowserInv'
  BY <1>3, RebuildKeeps
<1>4. ASSUME NEW i \in DOMAIN entries, Choose(i) PROVE BrowserInv'
  BY <1>1, <1>4, OpenKeeps DEF Choose
<1>5. ASSUME NEW i \in DOMAIN entries, NEW multiselect, NEW context, Click(i, multiselect, context) PROVE BrowserInv'
  BY <1>5 DEF Click, BrowserInv
<1>6. CASE OpenSelected
  <2> DEFINE folders == {i \in DOMAIN entries : entries[i].kind = "folder" /\ Id(entries[i]) \in selection}
  <2>1. folders # {} /\ OpenFolder(Min(folders))
    BY <1>6 DEF OpenSelected
  <2>2. folders \subseteq Nat
    BY <1>1
  <2> HIDE DEF folders
  <2>3. Min(folders) \in Nat
    <3>1. \E i \in folders : \A m \in folders : i <= m
      BY <2>1, <2>2, LeastNumber
    <3>2. QED
      BY <2>2, <3>1 DEF Min
  <2>4. QED
    BY <2>1, <2>3, OpenKeeps
<1>7. QED
  BY <1>2, <1>3, <1>4, <1>5, <1>6, TravelKeeps DEF BrowserNext

LEMMA FolderPathsGiven ==
    ASSUME BrowserInv, NEW q
    PROVE  q \in FolderPaths <=> HasEntry(entries, q, "folder")
<1> DEFINE s == manifestRecords
           N == Len(s)
<1>1. N \in Nat /\ DOMAIN s = 1 .. N
  BY LenProperties DEF BrowserInv
<1>2. HasEntry(entries, q, "folder") <=> q = <<>> \/ \E m \in 1 .. N : Gives(s[m], q, "folder")
  BY DEF BrowserInv, BuiltEntries
<1>3. q \in FolderPaths <=> q = <<>> \/ \E r \in Sources : \E n \in FolderSteps(r) : q = SubSeq(r.path, 1, n)
  BY DEF FolderPaths, FolderSteps
<1>4. \A r : r \in Sources <=> ~r.output /\ \E m \in 1 .. N : r = s[m]
  BY <1>1 DEF Sources, Range
<1>5. \A r : Gives(r, q, "folder") <=> ~r.output /\ \E n \in FolderSteps(r) : q = SubSeq(r.path, 1, n)
  BY DEF Gives
<1> HIDE DEF N, s
<1>6. QED
  BY <1>2, <1>3, <1>4, <1>5

LEMMA FilePathsGiven ==
    ASSUME BrowserInv, NEW q
    PROVE  (\E r \in Sources : r.kind = "file" /\ r.path = q) <=> HasEntry(entries, q, "file")
<1> DEFINE s == manifestRecords
           N == Len(s)
<1>1. N \in Nat /\ DOMAIN s = 1 .. N
  BY LenProperties DEF BrowserInv
<1>2. HasEntry(entries, q, "file") <=> \E m \in 1 .. N : Gives(s[m], q, "file")
  BY DEF BrowserInv, BuiltEntries
<1>3. \A r : r \in Sources <=> ~r.output /\ \E m \in 1 .. N : r = s[m]
  BY <1>1 DEF Sources, Range
<1>4. \A r : Gives(r, q, "file") <=> ~r.output /\ r.kind = "file" /\ q = r.path
  BY DEF Gives
<1> HIDE DEF N, s
<1>5. QED
  BY <1>2, <1>3, <1>4

LEMMA BrowserHolds == BrowserInv => BrowserRight
<1> SUFFICES ASSUME BrowserInv PROVE TreeRight
  <2>1. folderHistory \in Seq(Nat) => DOMAIN folderHistory = 1 .. Len(folderHistory)
    BY LenProperties
  <2>2. QED
    BY <2>1 DEF BrowserInv, BrowserRight
<1>0. EntryTree(entries)
  BY DEF BrowserInv
<1>1. \A i, j \in DOMAIN entries : Id(entries[i]) = Id(entries[j]) => i = j
  BY <1>0 DEF EntryTree, Id
<1>2. {entries[i].path : i \in {k \in DOMAIN entries : entries[k].kind = "folder"}} = FolderPaths
  <2>1. \A q : q \in FolderPaths <=> HasEntry(entries, q, "folder")
    BY FolderPathsGiven
  <2>2. QED
    BY <2>1 DEF HasEntry
<1>3. {entries[i].path : i \in {k \in DOMAIN entries : entries[k].kind = "file"}}
        = {r.path : r \in {s \in Sources : s.kind = "file"}}
  <2>1. \A q : (\E r \in Sources : r.kind = "file" /\ r.path = q) <=> HasEntry(entries, q, "file")
    BY FilePathsGiven
  <2>2. QED
    BY <2>1 DEF HasEntry
<1>4. \A i \in DOMAIN entries \ {1} : Front(entries[i].path) = entries[entries[i].parent].path
  BY <1>0 DEF EntryTree
<1>5. ASSUME NEW p \in DOMAIN entries
      PROVE  LET row == Children(entries, p)
             IN /\ IsInjective(row)
                /\ Range(row) = {i \in DOMAIN entries : entries[i].parent = p}
                /\ \A k, l \in DOMAIN row :
                     entries[row[k]].kind = "file" /\ entries[row[l]].kind = "folder" => l < k
  <2> DEFINE row == Children(entries, p)
  <2>1. EntriesOf(entries, p, row)
    BY <1>0, ChildrenOfTree
  <2> HIDE DEF row
  <2>2. IsInjective(row) /\ FoldersFirst(entries, row)
    BY <2>1 DEF EntriesOf, LinkedEntries
  <2>3. Range(row) = {i \in DOMAIN entries : entries[i].parent = p}
    BY <2>1 DEF EntriesOf
  <2>4. QED
    BY <2>2, <2>3 DEF FoldersFirst, row
<1>6. QED
  BY <1>1, <1>2, <1>3, <1>4, <1>5, Zenon DEF TreeRight

\* The asset browser's tree is right: whatever order the records of a manifest
\* come in, the entries are the assets and the folders on the way to them, each
\* once and under its own folder, which lists its folders before its files
\* (AssetEditor::_rebuild, _addFolder); and the history has a current position.
THEOREM BrowserStaysRight == BrowserSpec => []BrowserRight
<1>1. BrowserSpec => []BrowserInv
  BY BrowserStarts, BrowserSteps, PTL DEF BrowserSpec
<1>2. QED
  BY <1>1, BrowserHolds, PTL
=============================================================================
