---------------------------- MODULE SceneProofs ----------------------------
(***************************************************************************)
(* Two parts of a scene: what the user does in it (Interaction) and the    *)
(* index of its objects (Octree), proved for every scene and every tree.   *)
(*                                                                         *)
(* Interaction: for every order of its passes and any number of dummies.   *)
(* All follows from one inductive invariant; its third part carries        *)
(* CreatedWhereShown, the fourth PathHasItsEntity.                         *)
(*                                                                         *)
(* Octree: for every depth, number of children, set of chunks, boxes and   *)
(* frusta.  A call of AddObject or RemoveObject at a node changes nothing   *)
(* but the nodes below it; what it does there is proved for one level from *)
(* what it does for the level under it (Added, Removed).  Seen says what   *)
(* the stack of a query still has to visit, and what it has reported.      *)
(***************************************************************************)
EXTENDS Interaction, Octree, FiniteSetTheorems, WellFoundedInduction,
        SequenceTheorems, TLAPS

\* The flag that ProcessPendingAction reads before the picker of its own frame
\* has run belongs to the last base pass that was drawn.
PickIsShown == onWater => cursor = shown /\ shown \in Water

\* The entity selected while a path is pending was clicked for this path.
SelectionIsOfThisPath == pending = "PATH_CREATE" /\ selected # Nobody => chosen

IInv == TypeOK /\ PickingMatchesPending /\ PickIsShown /\ SelectionIsOfThisPath

\* What one callback leaves true.  The conclusion is stated over the variables
\* a callback may change; Dispatch leaves the others alone.
CallbackTypes ==
  /\ mode' \in {"RUNNING", "QUIT", "CRASHED"}
  /\ callbacks' \subseteq Actions
  /\ pending' \in CreateActions \cup {"UNKNOWN"}
  /\ active' \in BOOLEAN
  /\ dummies' \in Seq(Water)
  /\ Len(dummies) <= Len(dummies')
  /\ selected' \in 0 .. Len(dummies')
  /\ chosen' \in BOOLEAN

CallbackEffect ==
  /\ CallbackTypes
  /\ active' <=> pending' # "UNKNOWN"
  /\ pending' \notin callbacks'
  /\ pending' = "PATH_CREATE" /\ selected' # Nobody => chosen'

\* Every callback, and the absence of one, keeps the modes consistent.
LEMMA CallbackKeepsModes ==
  ASSUME IInv, NEW a \in Actions, ProcessActions(a) \/ Ignore
  PROVE  CallbackEffect
<1> USE DEF Nobody
<1>n. Len(dummies) \in Nat  BY LenProperties DEF IInv, TypeOK
<1>1. CASE Ignore
  <2>1. CallbackTypes  BY <1>1, <1>n DEF Ignore, IInv, TypeOK, CallbackTypes
  <2> QED BY <1>1, <2>1 DEF Ignore, IInv, PickingMatchesPending, SelectionIsOfThisPath, CallbackEffect
<1>2. CASE a = "PATH_CREATE" /\ PathCreate
  <2>1. CallbackTypes
    <3>1. active' \in BOOLEAN /\ chosen' \in BOOLEAN  BY <1>2, Zenon DEF PathCreate
    <3>2. selected' = 0 /\ dummies' = dummies /\ pending' = "PATH_CREATE"
      BY <1>2 DEF PathCreate
    <3>3. callbacks' \subseteq Actions /\ mode' \in {"RUNNING", "QUIT", "CRASHED"}
      BY <1>2 DEF PathCreate, EraseWhileWalking, IInv, TypeOK
    <3> QED BY <3>1, <3>2, <3>3, <1>n DEF IInv, TypeOK, CallbackTypes, CreateActions
  <2>2. active' /\ pending' = "PATH_CREATE"  BY <1>2 DEF PathCreate
  <2>3. pending' \notin callbacks'
    BY <1>2 DEF PathCreate, EraseWhileWalking
  <2>4. selected' = Nobody  BY <1>2 DEF PathCreate
  <2> QED BY <2>1, <2>2, <2>3, <2>4 DEF CallbackEffect
<1>3. CASE a = "ENTITY_CREATE" /\ EntityCreate
  <2>1. CallbackTypes
    BY <1>3, <1>n DEF EntityCreate, EraseWhileWalking, IInv, TypeOK, CallbackTypes, CreateActions
  <2>2. active' /\ pending' = "ENTITY_CREATE"  BY <1>3 DEF EntityCreate
  <2>3. pending' \notin callbacks'
    BY <1>3 DEF EntityCreate, EraseWhileWalking
  <2> QED BY <2>1, <2>2, <2>3 DEF CallbackEffect
<1>e. ASSUME EndPending, pending # "UNKNOWN"
      PROVE  /\ mode' = mode /\ callbacks' \subseteq Actions
             /\ pending' = "UNKNOWN" /\ active' = FALSE
             /\ pending' \notin callbacks'
  BY <1>e DEF EndPending, IInv, TypeOK, Actions, CreateActions
<1>4. CASE a = "CANCEL" /\ Cancel
  <2>1. CASE pending = "UNKNOWN"
    <3>1. CallbackTypes
      <4>1. mode' = "QUIT" /\ UNCHANGED <<callbacks, pending, active, selected, dummies, chosen>>
        BY <1>4, <2>1 DEF Cancel
      <4> QED BY <4>1, <1>n DEF IInv, TypeOK, CallbackTypes
    <3> QED BY <1>4, <2>1, <3>1 DEF Cancel, IInv, PickingMatchesPending,
               SelectionIsOfThisPath, CallbackEffect
  <2>2. CASE pending # "UNKNOWN"
    <3>1. EndPending /\ UNCHANGED <<selected, dummies, chosen>>
      BY <1>4, <2>2 DEF Cancel
    <3>2. CallbackTypes
      BY <2>2, <3>1, <1>e, <1>n DEF IInv, TypeOK, CallbackTypes
    <3> QED BY <2>2, <3>1, <3>2, <1>e DEF CallbackEffect
  <2> QED BY <2>1, <2>2
<1>5. CASE pending = "ENTITY_CREATE" /\ ClickEntity
  <2>1. CASE onWater
    <3>1. /\ cursor \in Water
          /\ dummies' = Append(dummies, cursor)
          /\ UNCHANGED <<selected, chosen>>
          /\ EndPending
      BY <1>5, <2>1 DEF ClickEntity, IInv, PickIsShown
    <3>2. dummies' \in Seq(Water) /\ Len(dummies') = Len(dummies) + 1
      BY <3>1, AppendProperties DEF IInv, TypeOK
    <3>3. CallbackTypes
      BY <1>5, <3>1, <3>2, <1>e, <1>n DEF IInv, TypeOK, CallbackTypes
    <3> QED BY <1>5, <3>1, <3>3, <1>e DEF CallbackEffect
  <2>2. CASE ~ onWater
    BY <1>5, <2>2, <1>1 DEF ClickEntity
  <2> QED BY <2>1, <2>2
<1>6. CASE pending = "PATH_CREATE" /\ ClickPath
  <2>1. CASE selected = Nobody
    <3>1. /\ selected' = picked /\ chosen' = (picked # Nobody)
          /\ UNCHANGED <<mode, callbacks, pending, active, dummies>>
      BY <1>6, <2>1 DEF ClickPath
    <3>2. CallbackTypes
      BY <3>1, <1>n DEF IInv, TypeOK, CallbackTypes
    <3> QED BY <3>1, <3>2 DEF IInv, PickingMatchesPending, CallbackEffect
  <2>2. CASE selected # Nobody /\ onWater
    <3>1. EndPending /\ UNCHANGED <<selected, dummies, chosen>>
      BY <1>6, <2>2 DEF ClickPath
    <3>2. CallbackTypes
      BY <1>6, <3>1, <1>e, <1>n DEF IInv, TypeOK, CallbackTypes
    <3> QED BY <1>6, <3>1, <3>2, <1>e DEF CallbackEffect
  <2>3. CASE selected # Nobody /\ ~ onWater
    BY <1>6, <2>3, <1>1 DEF ClickPath
  <2> QED BY <2>1, <2>2, <2>3
<1>7. CASE a = "POINTERCLICK1" /\ Click
  BY <1>7, <1>1, <1>5, <1>6 DEF Click
<1> QED BY <1>1, <1>2, <1>3, <1>4, <1>7 DEF ProcessActions, Actions, CreateActions

LEMMA InitIInv == Init => IInv
<1> SUFFICES ASSUME Init PROVE IInv
  OBVIOUS
<1> USE DEF Init
<1>1. TypeOK
  <2>1. <<>> \in Seq(Water) /\ Len(<<>>) = 0  BY EmptySeq
  <2>2. Len(Processes) \in Nat  BY ScenePasses, LenProperties
  <2>3. active \in BOOLEAN /\ onWater \in BOOLEAN /\ chosen \in BOOLEAN
    BY Zenon
  <2>4. dummies \in Seq(Water) /\ picked \in 0 .. Len(dummies) /\ selected \in 0 .. Len(dummies)
    BY <2>1 DEF Nobody
  <2> QED BY <2>2, <2>3, <2>4 DEF TypeOK, Actions, CreateActions
<1>2. PickingMatchesPending /\ PickIsShown /\ SelectionIsOfThisPath
  BY DEF PickingMatchesPending, PickIsShown, SelectionIsOfThisPath, Actions, CreateActions
<1> QED BY <1>1, <1>2 DEF IInv

LEMMA NextIInv == IInv /\ [Next]_vars => IInv'
<1> SUFFICES ASSUME IInv, [Next]_vars PROVE IInv'
  OBVIOUS
<1> USE DEF IInv, PickingMatchesPending, PickIsShown, SelectionIsOfThisPath
<1>n. Len(Processes) \in Nat /\ Len(dummies) \in Nat
  BY ScenePasses, LenProperties DEF TypeOK
<1>1. CASE QuitMessage
  BY <1>1 DEF QuitMessage, TypeOK, input, picker
<1>2. CASE UpdateInput
  <2>1. keys' \subseteq Inputs /\ queue' \subseteq Actions
    BY <1>2 DEF UpdateInput, ActiveActions
  <2>2. phase' \in 0 .. Len(Processes)
    BY <1>2, <1>n, ScenePasses DEF UpdateInput
  <2> QED BY <1>2, <2>1, <2>2 DEF UpdateInput, TypeOK, picker
<1>3. CASE Dispatch
  <2>1. PICK a \in queue : /\ IF a \in callbacks THEN ProcessActions(a) ELSE Ignore
                           /\ queue' = queue \ {a}
    BY <1>3 DEF Dispatch
  <2>2. CallbackEffect
    BY <2>1, CallbackKeepsModes DEF TypeOK
  <2>3. Len(dummies') \in Nat
    BY <2>2, LenProperties DEF CallbackEffect, CallbackTypes
  <2>4. picked \in 0 .. Len(dummies')
    BY <2>2, <2>3, <1>n DEF CallbackEffect, CallbackTypes, TypeOK
  <2>5. TypeOK'
    BY <1>3, <2>1, <2>2, <2>4 DEF Dispatch, CallbackEffect, CallbackTypes, TypeOK
  <2> QED BY <1>3, <2>2, <2>5 DEF Dispatch, CallbackEffect
<1>4. CASE DrawPass
  <2>1. PICK place \in Water \cup {Ground, Nowhere}, entity \in {Nobody} \cup Pickable :
          /\ PickerUpdate(Processes[phase], place, entity)
          /\ shown' = IF Processes[phase] # "base" THEN shown
                      ELSE IF active /\ place \in Water THEN place ELSE Nowhere
    BY <1>4 DEF DrawPass
  <2>2. entity \in 0 .. Len(dummies)
    BY <1>n, LenProperties DEF Pickable, Nobody, TypeOK
  <2>3. phase' \in 0 .. Len(Processes)
    BY <1>4, <1>n DEF DrawPass, TypeOK
  <2>4. /\ picked' \in 0 .. Len(dummies)
        /\ onWater' \in BOOLEAN
        /\ cursor' \in Water \cup {Ground}
        /\ shown' \in Water \cup {Nowhere}
        /\ PickIsShown'
    <3>1. CASE active /\ Processes[phase] = "base"
      <4>1. /\ picked' = entity
            /\ onWater' = (place \in Water)
            /\ cursor' = IF place = Nowhere THEN cursor ELSE place
            /\ shown' = IF place \in Water THEN place ELSE Nowhere
        BY <2>1, <3>1 DEF PickerUpdate
      <4>2. cursor' \in Water \cup {Ground} /\ shown' \in Water \cup {Nowhere}
        BY <4>1 DEF TypeOK
      <4>3. PickIsShown'
        BY <4>1, Places
      <4> QED BY <2>2, <4>1, <4>2, <4>3
    <3>2. CASE ~ (active /\ Processes[phase] = "base")
      <4>1. /\ picked' = Nobody /\ onWater' = FALSE /\ cursor' = cursor
            /\ shown' \in {shown, Nowhere}
        BY <2>1, <3>2 DEF PickerUpdate
      <4>2. onWater' \in BOOLEAN /\ ~ onWater'  BY <4>1, Zenon
      <4> QED BY <4>1, <4>2, <1>n DEF TypeOK, Nobody
    <3> QED BY <3>1, <3>2
  <2> QED BY <1>4, <2>3, <2>4 DEF DrawPass, TypeOK
<1>5. CASE UNCHANGED vars
  BY <1>5 DEF vars, input, picker, TypeOK
<1> QED BY <1>1, <1>2, <1>3, <1>4, <1>5 DEF Next

THEOREM InteractionInvariant == Spec => []IInv
BY InitIInv, NextIInv, PTL DEF Spec

\* Every variable keeps its type, for every scene: in particular entities are
\* picked and selected only if they exist, and the dispatcher never gets a
\* callback for the action UNKNOWN.
THEOREM InteractionTypes == Spec => []TypeOK
<1>1. IInv => TypeOK  BY DEF IInv
<1> QED BY <1>1, InteractionInvariant, PTL

\* The picker works exactly while a creation action is pending, and that action
\* is then without a callback.
THEOREM PickingFollowsPending == Spec => []PickingMatchesPending
<1>1. IInv => PickingMatchesPending  BY DEF IInv
<1> QED BY <1>1, InteractionInvariant, PTL

-----------------------------------------------------------------------------
\* Only Dispatch changes what the action properties are about, ...
LEMMA OnlyDispatch ==
  ASSUME [Next]_vars, ~ UNCHANGED <<callbacks, pending, dummies>>
  PROVE  \E a \in queue : /\ IF a \in callbacks THEN ProcessActions(a) ELSE Ignore
                          /\ queue' = queue \ {a}
BY DEF Next, QuitMessage, UpdateInput, Dispatch, DrawPass, vars

\* ... and it does so by starting a creation action, ending one, or ending one
\* with a new dummy.
LEMMA StartsOrEnds ==
  ASSUME TypeOK, [Next]_vars, ~ UNCHANGED <<callbacks, pending, dummies>>
  PROVE  \/ /\ callbacks' = callbacks \ {pending'} /\ pending' \in CreateActions
            /\ UNCHANGED dummies
         \/ EndPending /\ UNCHANGED dummies
         \/ EndPending /\ onWater /\ dummies' = Append(dummies, cursor)
<1>1. PICK a \in queue : IF a \in callbacks THEN ProcessActions(a) ELSE Ignore
  BY OnlyDispatch
<1>a. a \in Actions  BY DEF TypeOK
<1>2. ~ Ignore  BY DEF Ignore
<1>3. CASE a = "PATH_CREATE" /\ PathCreate
  BY <1>3 DEF PathCreate, EraseWhileWalking, CreateActions
<1>4. CASE a = "ENTITY_CREATE" /\ EntityCreate
  BY <1>4 DEF EntityCreate, EraseWhileWalking, CreateActions
<1>5. CASE a = "CANCEL" /\ Cancel
  BY <1>5 DEF Cancel
<1>6. CASE a = "POINTERCLICK1" /\ Click
  <2>1. CASE ClickEntity  BY <2>1, <1>2 DEF ClickEntity
  <2>2. CASE ClickPath  BY <2>2, <1>2 DEF ClickPath
  <2> QED BY <1>2, <1>6, <2>1, <2>2 DEF Click
<1> QED BY <1>1, <1>a, <1>2, <1>3, <1>4, <1>5, <1>6 DEF ProcessActions, Actions, CreateActions

\* A creation action is lost only to the other one (see Interaction).
THEOREM ActionsLostOnlyToTheOther == Spec => LostOnlyToTheOther
<1> DEFINE Keeps == \A a \in CreateActions : Available(a) /\ ~ Available(a)' =>
                      pending = a /\ pending' \in CreateActions \ {a}
<1>1. ASSUME IInv, [Next]_vars PROVE Keeps
  <2> SUFFICES ASSUME NEW a \in CreateActions, Available(a), ~ Available(a)'
               PROVE  pending = a /\ pending' \in CreateActions \ {a}
    OBVIOUS
  <2>1. ~ UNCHANGED <<callbacks, pending, dummies>>
    BY DEF Available
  <2>2. \/ callbacks' = callbacks \ {pending'} /\ pending' \in CreateActions
        \/ EndPending
    BY <1>1, <2>1, StartsOrEnds DEF IInv
  <2> QED BY <2>2 DEF Available, EndPending
<1>2. IInv /\ [Next]_vars => [Keeps]_vars
  BY <1>1
<1> QED BY <1>2, InteractionInvariant, PTL DEF Spec, LostOnlyToTheOther

\* An entity is created only where the last drawn picture had the pointer on
\* the water, for any order and number of passes.
THEOREM EntityCreatedWhereShown == Spec => CreatedWhereShown
<1> DEFINE AtShown == dummies' # dummies => dummies' = Append(dummies, shown) /\ shown \in Water
<1>1. ASSUME IInv, [Next]_vars PROVE AtShown
  <2> SUFFICES ASSUME dummies' # dummies
               PROVE  dummies' = Append(dummies, shown) /\ shown \in Water
    OBVIOUS
  <2>1. onWater /\ dummies' = Append(dummies, cursor)
    BY <1>1, StartsOrEnds DEF IInv
  <2> QED BY <1>1, <2>1 DEF IInv, PickIsShown
<1>2. IInv /\ [Next]_vars => [AtShown]_vars
  BY <1>1
<1> QED BY <1>2, InteractionInvariant, PTL DEF Spec, CreatedWhereShown

\* A click completes a path only with an entity clicked for that path.
THEOREM PathCompletedWithItsEntity == Spec => PathHasItsEntity
<1> DEFINE Chosen == pending = "PATH_CREATE" /\ pending' = "UNKNOWN"
                       /\ "POINTERCLICK1" \in queue \ queue' => chosen
<1>1. ASSUME IInv, [Next]_vars PROVE Chosen
  <2> SUFFICES ASSUME pending = "PATH_CREATE", pending' = "UNKNOWN",
                      "POINTERCLICK1" \in queue \ queue'
               PROVE  chosen
    OBVIOUS
  <2>1. PICK b \in queue : /\ IF b \in callbacks THEN ProcessActions(b) ELSE Ignore
                           /\ queue' = queue \ {b}
    BY <1>1, OnlyDispatch
  <2>2. ClickPath
    BY <2>1 DEF ProcessActions, Ignore, Click
  <2>3. selected # Nobody
    BY <2>2 DEF ClickPath
  <2> QED BY <1>1, <2>3 DEF IInv, SelectionIsOfThisPath
<1>2. IInv /\ [Next]_vars => [Chosen]_vars
  BY <1>1
<1> QED BY <1>2, InteractionInvariant, PTL DEF Spec, PathHasItsEntity

-----------------------------------------------------------------------------
(* From here on, the octree.  First the two inductions it needs, made from *)
(* the order of the natural numbers.                                       *)
LEMMA Least ==
  ASSUME NEW T, T \subseteq Nat, T # {}
  PROVE  \E x \in T : \A y \in T : x <= y
<1> DEFINE Less == OpToRel(<, Nat)
<1>1. IsWellFoundedOn(Less, Nat)  BY NatLessThanWellFounded
<1>2. \A x, y \in Nat : <<x, y>> \in Less <=> x < y  BY DEF OpToRel
<1> HIDE DEF Less
<1>3. PICK x \in T : \A y \in T : <<y, x>> \notin Less  BY <1>1, WFMin
<1>4. \A y \in T : x \in Nat /\ y \in Nat /\ ~ (y < x)  BY <1>2, <1>3
<1>5. QED  BY <1>4

(* Induction up to a bound.                                                *)
LEMMA TurnByTurn ==
  ASSUME NEW n \in Nat, NEW S, 0 \in S, \A k \in 1 .. n : k - 1 \in S => k \in S
  PROVE  \A k \in 0 .. n : k \in S
<1> DEFINE T == (0 .. n) \ S
<1>1. SUFFICES ASSUME T # {} PROVE FALSE  OBVIOUS
<1>0. T \subseteq Nat  OBVIOUS
<1>2. PICK x \in T : \A y \in T : x <= y
  <2> HIDE DEF T
  <2>1. QED  BY <1>0, <1>1, Least
<1>3. x \in 1 .. n /\ x - 1 \in 0 .. n /\ ~ (x <= x - 1)  BY <1>2
<1>4. x - 1 \notin T  BY <1>2, <1>3
<1>5. QED  BY <1>2, <1>3, <1>4

-----------------------------------------------------------------------------
(* The loops of the code, turn by turn: the functions that stand for them  *)
(* exist, as each is extended by one turn at a time.                       *)
LEMMA DropLoop ==
  ASSUME NEW t, NEW children, Len(children) \in Nat
  PROVE  \E f : /\ f[0] = t
                /\ \A n \in 1 .. Len(children) : f[n] = IF children[n] = 0 THEN f[n - 1] ELSE DeleteNode(f[n - 1], children[n])
                /\ DropChildren(t, children) = f[Len(children)]
<1> DEFINE first == t
           Step(x, n) == IF children[n] = 0 THEN x ELSE DeleteNode(x, children[n])
           Turns(g, m) == [n \in 0 .. m |-> IF n = 0 THEN first ELSE Step(g[n - 1], n)]
           T == {m \in 0 .. Len(children) : \E g : g = Turns(g, m)}
           F == CHOOSE g : g = Turns(g, Len(children))
<1>0. Len(children) \in Nat  OBVIOUS
<1>1. DropChildren(t, children) = F[Len(children)]  BY DEF DropChildren
<1> HIDE DEF first, Step
<1>2. 0 \in T
  <2>1. PICK g : g = [n \in 0 .. 0 |-> first]  OBVIOUS
  <2>2. g = Turns(g, 0)  BY <2>1
  <2>3. 0 \in 0 .. Len(children)  BY <1>0
  <2>4. QED  BY <2>2, <2>3
<1>3. ASSUME NEW m \in 1 .. Len(children), m - 1 \in T PROVE m \in T
  <2>1. PICK g : g = Turns(g, m - 1)  BY <1>3
  <2> DEFINE last == Step(g[m - 1], m)
             h == [n \in 0 .. m |-> IF n \in 0 .. m - 1 THEN g[n] ELSE last]
  <2>2. \A n \in 0 .. m - 1 : h[n] = g[n] /\ g[n] = IF n = 0 THEN first ELSE Step(g[n - 1], n)
    BY <2>1
  <2>3. h[m] = last  OBVIOUS
  <2> HIDE DEF last
  <2>4. h = [n \in 0 .. m |-> h[n]]  OBVIOUS
  <2> HIDE DEF h
  <2>5. ASSUME NEW n \in 0 .. m PROVE h[n] = IF n = 0 THEN first ELSE Step(h[n - 1], n)
    <3>1. CASE n = m
      <4>1. h[n - 1] = g[m - 1]  BY <2>2, <3>1
      <4>2. QED  BY <2>3, <3>1, <4>1 DEF last
    <3>2. CASE n # m
      <4>1. n \in 0 .. m - 1 /\ (n # 0 => n - 1 \in 0 .. m - 1)  BY <3>2
      <4>2. QED  BY <2>2, <4>1
    <3>3. QED  BY <3>1, <3>2
  <2>6. h = Turns(h, m)  BY <2>4, <2>5
  <2>7. QED  BY <1>0, <2>6
<1>4. Len(children) \in T
  <2>1. \A n \in 0 .. Len(children) : n \in T
    <3> HIDE DEF T
    <3>1. QED  BY <1>0, <1>2, <1>3, TurnByTurn
  <2>2. QED  BY <1>0, <2>1
<1>5. F = Turns(F, Len(children))  BY <1>4
<1> HIDE DEF F
<1>6. F[0] = first /\ \A n \in 1 .. Len(children) : F[n] = Step(F[n - 1], n)  BY <1>0, <1>5
<1>7. QED  BY <1>1, <1>6 DEF first, Step

LEMMA AddLoop ==
  ASSUME NEW t, NEW i, NEW b, NEW below
  PROVE  \E f : /\ f[0] = [tree |-> t, ok |-> FALSE, failed |-> FALSE]
                /\ \A k \in 1 .. Arity : f[k] = AddToChild(f[k - 1], i, k, b, below)
                /\ AddToChildren(t, i, b, below) = f[Arity]
<1> DEFINE first == [tree |-> t, ok |-> FALSE, failed |-> FALSE]
           Step(x, k) == AddToChild(x, i, k, b, below)
           Turns(g, m) == [k \in 0 .. m |-> IF k = 0 THEN first ELSE Step(g[k - 1], k)]
           T == {m \in 0 .. Arity : \E g : g = Turns(g, m)}
           F == CHOOSE g : g = Turns(g, Arity)
<1>0. Arity \in Nat  BY ShapeAssumption
<1>1. AddToChildren(t, i, b, below) = F[Arity]  BY DEF AddToChildren
<1> HIDE DEF first, Step
<1>2. 0 \in T
  <2>1. PICK g : g = [k \in 0 .. 0 |-> first]  OBVIOUS
  <2>2. g = Turns(g, 0)  BY <2>1
  <2>3. 0 \in 0 .. Arity  BY <1>0
  <2>4. QED  BY <2>2, <2>3
<1>3. ASSUME NEW m \in 1 .. Arity, m - 1 \in T PROVE m \in T
  <2>1. PICK g : g = Turns(g, m - 1)  BY <1>3
  <2> DEFINE last == Step(g[m - 1], m)
             h == [k \in 0 .. m |-> IF k \in 0 .. m - 1 THEN g[k] ELSE last]
  <2>2. \A k \in 0 .. m - 1 : h[k] = g[k] /\ g[k] = IF k = 0 THEN first ELSE Step(g[k - 1], k)
    BY <2>1
  <2>3. h[m] = last  OBVIOUS
  <2> HIDE DEF last
  <2>4. h = [k \in 0 .. m |-> h[k]]  OBVIOUS
  <2> HIDE DEF h
  <2>5. ASSUME NEW k \in 0 .. m PROVE h[k] = IF k = 0 THEN first ELSE Step(h[k - 1], k)
    <3>1. CASE k = m
      <4>1. h[k - 1] = g[m - 1]  BY <2>2, <3>1
      <4>2. QED  BY <2>3, <3>1, <4>1 DEF last
    <3>2. CASE k # m
      <4>1. k \in 0 .. m - 1 /\ (k # 0 => k - 1 \in 0 .. m - 1)  BY <3>2
      <4>2. QED  BY <2>2, <4>1
    <3>3. QED  BY <3>1, <3>2
  <2>6. h = Turns(h, m)  BY <2>4, <2>5
  <2>7. QED  BY <1>0, <2>6
<1>4. Arity \in T
  <2>1. \A k \in 0 .. Arity : k \in T
    <3> HIDE DEF T
    <3>1. QED  BY <1>0, <1>2, <1>3, TurnByTurn
  <2>2. QED  BY <1>0, <2>1
<1>5. F = Turns(F, Arity)  BY <1>4
<1> HIDE DEF F
<1>6. F[0] = first /\ \A k \in 1 .. Arity : F[k] = Step(F[k - 1], k)  BY <1>0, <1>5
<1>7. QED  BY <1>1, <1>6 DEF first, Step

LEMMA AddCalls ==
  ASSUME NEW t, NEW c, NEW b
  PROVE  \E f : /\ f[0] = AddAtLeaf(c)
                /\ \A level \in 1 .. Depth : f[level] = AddAbove(c, b, f[level - 1])
                /\ AddObject(t, c, b) = f[Depth][<<t, 0>>].tree
<1> DEFINE first == AddAtLeaf(c)
           Step(x, level) == AddAbove(c, b, x)
           Turns(g, m) == [level \in 0 .. m |-> IF level = 0 THEN first ELSE Step(g[level - 1], level)]
           T == {m \in 0 .. Depth : \E g : g = Turns(g, m)}
           F == CHOOSE g : g = Turns(g, Depth)
<1>0. Depth \in Nat  BY ShapeAssumption
<1>1. AddObject(t, c, b) = F[Depth][<<t, 0>>].tree  BY DEF AddObject
<1> HIDE DEF first, Step
<1>2. 0 \in T
  <2>1. PICK g : g = [level \in 0 .. 0 |-> first]  OBVIOUS
  <2>2. g = Turns(g, 0)  BY <2>1
  <2>3. 0 \in 0 .. Depth  BY <1>0
  <2>4. QED  BY <2>2, <2>3
<1>3. ASSUME NEW m \in 1 .. Depth, m - 1 \in T PROVE m \in T
  <2>1. PICK g : g = Turns(g, m - 1)  BY <1>3
  <2> DEFINE last == Step(g[m - 1], m)
             h == [level \in 0 .. m |-> IF level \in 0 .. m - 1 THEN g[level] ELSE last]
  <2>2. \A level \in 0 .. m - 1 : h[level] = g[level] /\ g[level] = IF level = 0 THEN first ELSE Step(g[level - 1], level)
    BY <2>1
  <2>3. h[m] = last  OBVIOUS
  <2> HIDE DEF last
  <2>4. h = [level \in 0 .. m |-> h[level]]  OBVIOUS
  <2> HIDE DEF h
  <2>5. ASSUME NEW level \in 0 .. m PROVE h[level] = IF level = 0 THEN first ELSE Step(h[level - 1], level)
    <3>1. CASE level = m
      <4>1. h[level - 1] = g[m - 1]  BY <2>2, <3>1
      <4>2. QED  BY <2>3, <3>1, <4>1 DEF last
    <3>2. CASE level # m
      <4>1. level \in 0 .. m - 1 /\ (level # 0 => level - 1 \in 0 .. m - 1)  BY <3>2
      <4>2. QED  BY <2>2, <4>1
    <3>3. QED  BY <3>1, <3>2
  <2>6. h = Turns(h, m)  BY <2>4, <2>5
  <2>7. QED  BY <1>0, <2>6
<1>4. Depth \in T
  <2>1. \A level \in 0 .. Depth : level \in T
    <3> HIDE DEF T
    <3>1. QED  BY <1>0, <1>2, <1>3, TurnByTurn
  <2>2. QED  BY <1>0, <2>1
<1>5. F = Turns(F, Depth)  BY <1>4
<1> HIDE DEF F
<1>6. F[0] = first /\ \A level \in 1 .. Depth : F[level] = Step(F[level - 1], level)  BY <1>0, <1>5
<1>7. QED  BY <1>1, <1>6 DEF first, Step

LEMMA RemoveLoop ==
  ASSUME NEW e, NEW i, NEW b, NEW below
  PROVE  \E f : /\ f[0] = [tree |-> e.tree, ok |-> e.ok, failed |-> FALSE]
                /\ \A k \in 1 .. Arity : f[k] = RemoveFromChild(f[k - 1], i, k, b, below)
                /\ RemoveFromChildren(e, i, b, below) = f[Arity]
<1> DEFINE first == [tree |-> e.tree, ok |-> e.ok, failed |-> FALSE]
           Step(x, k) == RemoveFromChild(x, i, k, b, below)
           Turns(g, m) == [k \in 0 .. m |-> IF k = 0 THEN first ELSE Step(g[k - 1], k)]
           T == {m \in 0 .. Arity : \E g : g = Turns(g, m)}
           F == CHOOSE g : g = Turns(g, Arity)
<1>0. Arity \in Nat  BY ShapeAssumption
<1>1. RemoveFromChildren(e, i, b, below) = F[Arity]  BY DEF RemoveFromChildren
<1> HIDE DEF first, Step
<1>2. 0 \in T
  <2>1. PICK g : g = [k \in 0 .. 0 |-> first]  OBVIOUS
  <2>2. g = Turns(g, 0)  BY <2>1
  <2>3. 0 \in 0 .. Arity  BY <1>0
  <2>4. QED  BY <2>2, <2>3
<1>3. ASSUME NEW m \in 1 .. Arity, m - 1 \in T PROVE m \in T
  <2>1. PICK g : g = Turns(g, m - 1)  BY <1>3
  <2> DEFINE last == Step(g[m - 1], m)
             h == [k \in 0 .. m |-> IF k \in 0 .. m - 1 THEN g[k] ELSE last]
  <2>2. \A k \in 0 .. m - 1 : h[k] = g[k] /\ g[k] = IF k = 0 THEN first ELSE Step(g[k - 1], k)
    BY <2>1
  <2>3. h[m] = last  OBVIOUS
  <2> HIDE DEF last
  <2>4. h = [k \in 0 .. m |-> h[k]]  OBVIOUS
  <2> HIDE DEF h
  <2>5. ASSUME NEW k \in 0 .. m PROVE h[k] = IF k = 0 THEN first ELSE Step(h[k - 1], k)
    <3>1. CASE k = m
      <4>1. h[k - 1] = g[m - 1]  BY <2>2, <3>1
      <4>2. QED  BY <2>3, <3>1, <4>1 DEF last
    <3>2. CASE k # m
      <4>1. k \in 0 .. m - 1 /\ (k # 0 => k - 1 \in 0 .. m - 1)  BY <3>2
      <4>2. QED  BY <2>2, <4>1
    <3>3. QED  BY <3>1, <3>2
  <2>6. h = Turns(h, m)  BY <2>4, <2>5
  <2>7. QED  BY <1>0, <2>6
<1>4. Arity \in T
  <2>1. \A k \in 0 .. Arity : k \in T
    <3> HIDE DEF T
    <3>1. QED  BY <1>0, <1>2, <1>3, TurnByTurn
  <2>2. QED  BY <1>0, <2>1
<1>5. F = Turns(F, Arity)  BY <1>4
<1> HIDE DEF F
<1>6. F[0] = first /\ \A k \in 1 .. Arity : F[k] = Step(F[k - 1], k)  BY <1>0, <1>5
<1>7. QED  BY <1>1, <1>6 DEF first, Step

LEMMA RemoveCalls ==
  ASSUME NEW t, NEW c, NEW b
  PROVE  \E f : /\ f[0] = RemoveAtLeaf(c)
                /\ \A level \in 1 .. Depth : f[level] = RemoveAbove(c, b, f[level - 1])
                /\ RemoveObject(t, c, b) = f[Depth][<<t, 0>>].tree
<1> DEFINE first == RemoveAtLeaf(c)
           Step(x, level) == RemoveAbove(c, b, x)
           Turns(g, m) == [level \in 0 .. m |-> IF level = 0 THEN first ELSE Step(g[level - 1], level)]
           T == {m \in 0 .. Depth : \E g : g = Turns(g, m)}
           F == CHOOSE g : g = Turns(g, Depth)
<1>0. Depth \in Nat  BY ShapeAssumption
<1>1. RemoveObject(t, c, b) = F[Depth][<<t, 0>>].tree  BY DEF RemoveObject
<1> HIDE DEF first, Step
<1>2. 0 \in T
  <2>1. PICK g : g = [level \in 0 .. 0 |-> first]  OBVIOUS
  <2>2. g = Turns(g, 0)  BY <2>1
  <2>3. 0 \in 0 .. Depth  BY <1>0
  <2>4. QED  BY <2>2, <2>3
<1>3. ASSUME NEW m \in 1 .. Depth, m - 1 \in T PROVE m \in T
  <2>1. PICK g : g = Turns(g, m - 1)  BY <1>3
  <2> DEFINE last == Step(g[m - 1], m)
             h == [level \in 0 .. m |-> IF level \in 0 .. m - 1 THEN g[level] ELSE last]
  <2>2. \A level \in 0 .. m - 1 : h[level] = g[level] /\ g[level] = IF level = 0 THEN first ELSE Step(g[level - 1], level)
    BY <2>1
  <2>3. h[m] = last  OBVIOUS
  <2> HIDE DEF last
  <2>4. h = [level \in 0 .. m |-> h[level]]  OBVIOUS
  <2> HIDE DEF h
  <2>5. ASSUME NEW level \in 0 .. m PROVE h[level] = IF level = 0 THEN first ELSE Step(h[level - 1], level)
    <3>1. CASE level = m
      <4>1. h[level - 1] = g[m - 1]  BY <2>2, <3>1
      <4>2. QED  BY <2>3, <3>1, <4>1 DEF last
    <3>2. CASE level # m
      <4>1. level \in 0 .. m - 1 /\ (level # 0 => level - 1 \in 0 .. m - 1)  BY <3>2
      <4>2. QED  BY <2>2, <4>1
    <3>3. QED  BY <3>1, <3>2
  <2>6. h = Turns(h, m)  BY <2>4, <2>5
  <2>7. QED  BY <1>0, <2>6
<1>4. Depth \in T
  <2>1. \A level \in 0 .. Depth : level \in T
    <3> HIDE DEF T
    <3>1. QED  BY <1>0, <1>2, <1>3, TurnByTurn
  <2>2. QED  BY <1>0, <2>1
<1>5. F = Turns(F, Depth)  BY <1>4
<1> HIDE DEF F
<1>6. F[0] = first /\ \A level \in 1 .. Depth : F[level] = Step(F[level - 1], level)  BY <1>0, <1>5
<1>7. QED  BY <1>1, <1>6 DEF first, Step

LEMMA PushLoop ==
  ASSUME NEW children
  PROVE  \E f : /\ f[0] = <<>>
                /\ \A k \in 1 .. Arity : f[k] = IF children[k] = 0 THEN f[k - 1] ELSE Append(f[k - 1], children[k])
                /\ Existing(children) = f[Arity]
<1> DEFINE first == <<>>
           Step(x, k) == IF children[k] = 0 THEN x ELSE Append(x, children[k])
           Turns(g, m) == [k \in 0 .. m |-> IF k = 0 THEN first ELSE Step(g[k - 1], k)]
           T == {m \in 0 .. Arity : \E g : g = Turns(g, m)}
           F == CHOOSE g : g = Turns(g, Arity)
<1>0. Arity \in Nat  BY ShapeAssumption
<1>1. Existing(children) = F[Arity]  BY DEF Existing
<1> HIDE DEF first, Step
<1>2. 0 \in T
  <2>1. PICK g : g = [k \in 0 .. 0 |-> first]  OBVIOUS
  <2>2. g = Turns(g, 0)  BY <2>1
  <2>3. 0 \in 0 .. Arity  BY <1>0
  <2>4. QED  BY <2>2, <2>3
<1>3. ASSUME NEW m \in 1 .. Arity, m - 1 \in T PROVE m \in T
  <2>1. PICK g : g = Turns(g, m - 1)  BY <1>3
  <2> DEFINE last == Step(g[m - 1], m)
             h == [k \in 0 .. m |-> IF k \in 0 .. m - 1 THEN g[k] ELSE last]
  <2>2. \A k \in 0 .. m - 1 : h[k] = g[k] /\ g[k] = IF k = 0 THEN first ELSE Step(g[k - 1], k)
    BY <2>1
  <2>3. h[m] = last  OBVIOUS
  <2> HIDE DEF last
  <2>4. h = [k \in 0 .. m |-> h[k]]  OBVIOUS
  <2> HIDE DEF h
  <2>5. ASSUME NEW k \in 0 .. m PROVE h[k] = IF k = 0 THEN first ELSE Step(h[k - 1], k)
    <3>1. CASE k = m
      <4>1. h[k - 1] = g[m - 1]  BY <2>2, <3>1
      <4>2. QED  BY <2>3, <3>1, <4>1 DEF last
    <3>2. CASE k # m
      <4>1. k \in 0 .. m - 1 /\ (k # 0 => k - 1 \in 0 .. m - 1)  BY <3>2
      <4>2. QED  BY <2>2, <4>1
    <3>3. QED  BY <3>1, <3>2
  <2>6. h = Turns(h, m)  BY <2>4, <2>5
  <2>7. QED  BY <1>0, <2>6
<1>4. Arity \in T
  <2>1. \A k \in 0 .. Arity : k \in T
    <3> HIDE DEF T
    <3>1. QED  BY <1>0, <1>2, <1>3, TurnByTurn
  <2>2. QED  BY <1>0, <2>1
<1>5. F = Turns(F, Arity)  BY <1>4
<1> HIDE DEF F
<1>6. F[0] = first /\ \A k \in 1 .. Arity : F[k] = Step(F[k - 1], k)  BY <1>0, <1>5
<1>7. QED  BY <1>1, <1>6 DEF first, Step

LEMMA QueryLoop ==
  ASSUME NEW t, NEW f, Len(t.pool) \in Nat
  PROVE  \E g : /\ g[0] = [stack |-> <<0>>, objects |-> {}]
                /\ \A n \in 1 .. Len(t.pool) : g[n] = Turn(t, f, g[n - 1])
                /\ Traverse(t, f) = g[Len(t.pool)]
<1> DEFINE first == [stack |-> <<0>>, objects |-> {}]
           Step(x, n) == Turn(t, f, x)
           Turns(g, m) == [n \in 0 .. m |-> IF n = 0 THEN first ELSE Step(g[n - 1], n)]
           T == {m \in 0 .. Len(t.pool) : \E g : g = Turns(g, m)}
           F == CHOOSE g : g = Turns(g, Len(t.pool))
<1>0. Len(t.pool) \in Nat  OBVIOUS
<1>1. Traverse(t, f) = F[Len(t.pool)]  BY DEF Traverse
<1> HIDE DEF first, Step
<1>2. 0 \in T
  <2>1. PICK g : g = [n \in 0 .. 0 |-> first]  OBVIOUS
  <2>2. g = Turns(g, 0)  BY <2>1
  <2>3. 0 \in 0 .. Len(t.pool)  BY <1>0
  <2>4. QED  BY <2>2, <2>3
<1>3. ASSUME NEW m \in 1 .. Len(t.pool), m - 1 \in T PROVE m \in T
  <2>1. PICK g : g = Turns(g, m - 1)  BY <1>3
  <2> DEFINE last == Step(g[m - 1], m)
             h == [n \in 0 .. m |-> IF n \in 0 .. m - 1 THEN g[n] ELSE last]
  <2>2. \A n \in 0 .. m - 1 : h[n] = g[n] /\ g[n] = IF n = 0 THEN first ELSE Step(g[n - 1], n)
    BY <2>1
  <2>3. h[m] = last  OBVIOUS
  <2> HIDE DEF last
  <2>4. h = [n \in 0 .. m |-> h[n]]  OBVIOUS
  <2> HIDE DEF h
  <2>5. ASSUME NEW n \in 0 .. m PROVE h[n] = IF n = 0 THEN first ELSE Step(h[n - 1], n)
    <3>1. CASE n = m
      <4>1. h[n - 1] = g[m - 1]  BY <2>2, <3>1
      <4>2. QED  BY <2>3, <3>1, <4>1 DEF last
    <3>2. CASE n # m
      <4>1. n \in 0 .. m - 1 /\ (n # 0 => n - 1 \in 0 .. m - 1)  BY <3>2
      <4>2. QED  BY <2>2, <4>1
    <3>3. QED  BY <3>1, <3>2
  <2>6. h = Turns(h, m)  BY <2>4, <2>5
  <2>7. QED  BY <1>0, <2>6
<1>4. Len(t.pool) \in T
  <2>1. \A n \in 0 .. Len(t.pool) : n \in T
    <3> HIDE DEF T
    <3>1. QED  BY <1>0, <1>2, <1>3, TurnByTurn
  <2>2. QED  BY <1>0, <2>1
<1>5. F = Turns(F, Len(t.pool))  BY <1>4
<1> HIDE DEF F
<1>6. F[0] = first /\ \A n \in 1 .. Len(t.pool) : F[n] = Step(F[n - 1], n)
  <2> DEFINE N == Len(t.pool)
  <2>1. N \in Nat /\ F = Turns(F, N)  BY <1>0, <1>5
  <2> HIDE DEF N
  <2>2. F[0] = first /\ \A n \in 1 .. N : F[n] = Step(F[n - 1], n)  BY <2>1
  <2>3. QED  BY <2>2 DEF N
<1>7. QED  BY <1>1, <1>6 DEF first, Step

-----------------------------------------------------------------------------
(* Regions and boxes.                                                      *)
LEMMA RegionIs ==
  \A p : p \in Regions <=> p \in Seq(Octants) /\ Len(p) <= Depth
<1> SUFFICES ASSUME NEW p PROVE p \in Regions <=> p \in Seq(Octants) /\ Len(p) <= Depth
  OBVIOUS
<1>1. Depth \in Nat  BY ShapeAssumption
<1>2. ASSUME p \in Regions PROVE p \in Seq(Octants) /\ Len(p) <= Depth
  <2>1. PICK n \in 0 .. Depth : p \in [1 .. n -> Octants]  BY <1>2 DEF Regions
  <2>2. QED  BY <1>1, <2>1
<1>3. ASSUME p \in Seq(Octants), Len(p) <= Depth PROVE p \in Regions
  <2>1. Len(p) \in 0 .. Depth /\ p \in [1 .. Len(p) -> Octants]  BY <1>1, <1>3
  <2>2. QED  BY <2>1 DEF Regions
<1>4. QED  BY <1>2, <1>3

(* One region lies in another: the path of the larger begins the other's.  *)
LEMMA PrefixIs ==
  ASSUME NEW p \in Regions, NEW q \in Regions
  PROVE  IsPrefix(p, q) <=> Len(p) <= Len(q) /\ \A m \in 1 .. Len(p) : p[m] = q[m]
<1>1. p \in Seq(Octants) /\ q \in Seq(Octants)  BY RegionIs
<1>2. SubSeq(p, 1, Len(p)) = p  BY <1>1
<1>3. ASSUME Len(p) <= Len(q)
      PROVE  SubSeq(q, 1, Len(p)) = p <=> \A m \in 1 .. Len(p) : p[m] = q[m]
  <2>1. /\ SubSeq(q, 1, Len(p)) \in Seq(Octants)
        /\ Len(SubSeq(q, 1, Len(p))) = Len(p)
        /\ \A m \in 1 .. Len(p) : SubSeq(q, 1, Len(p))[m] = q[m]
    BY <1>1, <1>3
  <2>2. QED  BY <1>1, <2>1
<1>4. QED  BY <1>2, <1>3 DEF IsPrefix

LEMMA PrefixOrder ==
  ASSUME NEW p \in Regions, NEW q \in Regions
  PROVE  /\ <<>> \in Regions /\ Len(<<>>) = 0 /\ IsPrefix(<<>>, p) /\ IsPrefix(p, p)
         /\ IsPrefix(p, q) /\ IsPrefix(q, p) => p = q
         /\ \A r \in Regions : IsPrefix(p, q) /\ IsPrefix(q, r) => IsPrefix(p, r)
         /\ \A r \in Regions : IsPrefix(p, r) /\ IsPrefix(q, r) => IsPrefix(p, q) \/ IsPrefix(q, p)
<1>1. Depth \in Nat  BY ShapeAssumption
<1>2. p \in Seq(Octants) /\ q \in Seq(Octants)  BY RegionIs
<1>3. <<>> \in Regions /\ Len(<<>>) = 0
  <2>1. <<>> \in Seq(Octants) /\ Len(<<>>) = 0  OBVIOUS
  <2>2. Len(<<>>) <= Depth  BY <1>1, <2>1
  <2>3. QED  BY <2>1, <2>2, RegionIs
<1>4. IsPrefix(<<>>, p) /\ IsPrefix(p, p)  BY <1>2, <1>3, PrefixIs
<1>5. ASSUME IsPrefix(p, q), IsPrefix(q, p) PROVE p = q
  <2>1. Len(p) = Len(q) /\ \A m \in 1 .. Len(p) : p[m] = q[m]  BY <1>2, <1>5, PrefixIs
  <2>2. QED  BY <1>2, <2>1
<1>6. ASSUME NEW r \in Regions, IsPrefix(p, q), IsPrefix(q, r) PROVE IsPrefix(p, r)
  <2>1. r \in Seq(Octants)  BY RegionIs
  <2>2. /\ Len(p) <= Len(q) /\ \A m \in 1 .. Len(p) : p[m] = q[m]
        /\ Len(q) <= Len(r) /\ \A m \in 1 .. Len(q) : q[m] = r[m]
    BY <1>6, PrefixIs
  <2>3. ASSUME NEW m \in 1 .. Len(p) PROVE p[m] = r[m]
    <3>1. m \in 1 .. Len(q)  BY <1>2, <2>2
    <3>2. QED  BY <2>2, <3>1
  <2>4. Len(p) <= Len(r)  BY <1>2, <2>1, <2>2
  <2>5. QED  BY <2>3, <2>4, PrefixIs
<1>7. ASSUME NEW r \in Regions, IsPrefix(p, r), IsPrefix(q, r)
      PROVE  IsPrefix(p, q) \/ IsPrefix(q, p)
  <2>1. r \in Seq(Octants)  BY RegionIs
  <2>2. /\ Len(p) <= Len(r) /\ \A m \in 1 .. Len(p) : p[m] = r[m]
        /\ Len(q) <= Len(r) /\ \A m \in 1 .. Len(q) : q[m] = r[m]
    BY <1>7, PrefixIs
  <2>3. QED  BY <1>2, <2>1, <2>2, PrefixIs
<1>8. QED  BY <1>3, <1>4, <1>5, <1>6, <1>7

LEMMA ChildPath ==
  ASSUME NEW p \in Regions, NEW k \in Octants, Len(p) < Depth
  PROVE  /\ Append(p, k) \in Regions /\ Len(Append(p, k)) = Len(p) + 1
         /\ IsPrefix(p, Append(p, k)) /\ ~IsPrefix(Append(p, k), p) /\ Append(p, k) # <<>>
         /\ \A q \in Regions : IsPrefix(q, Append(p, k)) => IsPrefix(q, p) \/ q = Append(p, k)
         /\ \A q \in Regions, m \in Octants : Append(p, k) = Append(q, m) => p = q /\ k = m
<1>1. Depth \in Nat  BY ShapeAssumption
<1>2. p \in Seq(Octants)  BY RegionIs
<1> DEFINE a == Append(p, k)
<1>3. /\ a \in Seq(Octants) /\ Len(a) = Len(p) + 1 /\ a # <<>>
      /\ (\A m \in 1 .. Len(p) : a[m] = p[m]) /\ a[Len(p) + 1] = k
  BY <1>2
<1> HIDE DEF a
<1>4. a \in Regions
  <2>1. Len(a) <= Depth  BY <1>1, <1>2, <1>3
  <2>2. QED  BY <1>3, <2>1, RegionIs
<1>5. IsPrefix(p, a) /\ ~IsPrefix(a, p)  BY <1>2, <1>3, <1>4, PrefixIs
<1>6. ASSUME NEW q \in Regions, IsPrefix(q, a) PROVE IsPrefix(q, p) \/ q = a
  <2>1. q \in Seq(Octants)  BY RegionIs
  <2>2. Len(q) <= Len(a) /\ \A m \in 1 .. Len(q) : q[m] = a[m]  BY <1>4, <1>6, PrefixIs
  <2>3. CASE Len(q) <= Len(p)
    <3>1. ASSUME NEW m \in 1 .. Len(q) PROVE q[m] = p[m]
      <4>1. m \in 1 .. Len(p)  BY <1>2, <2>1, <2>3
      <4>2. QED  BY <1>3, <2>2, <4>1
    <3>2. QED  BY <2>3, <3>1, PrefixIs
  <2>4. CASE ~(Len(q) <= Len(p))
    <3>1. Len(q) = Len(a)  BY <1>2, <1>3, <2>1, <2>2, <2>4
    <3>2. QED  BY <1>3, <2>1, <2>2, <3>1
  <2>5. QED  BY <2>3, <2>4
<1>7. ASSUME NEW q \in Regions, NEW m \in Octants, a = Append(q, m) PROVE p = q /\ k = m
  <2>1. q \in Seq(Octants)  BY RegionIs
  <2>2. /\ Len(a) = Len(q) + 1 /\ (\A n \in 1 .. Len(q) : a[n] = q[n]) /\ a[Len(q) + 1] = m
    BY <1>7, <2>1
  <2>3. Len(q) = Len(p)  BY <1>2, <1>3, <2>1, <2>2
  <2>4. \A n \in 1 .. Len(p) : p[n] = q[n]  BY <1>3, <2>2, <2>3
  <2>5. p = q  BY <1>2, <2>1, <2>3, <2>4
  <2>6. QED  BY <1>3, <2>2, <2>3, <2>5
<1>8. QED  BY <1>3, <1>4, <1>5, <1>6, <1>7 DEF a

(* What lies in a region is the region or lies in one of its octants.      *)
LEMMA OctantOf ==
  ASSUME NEW p \in Regions, NEW q \in Regions, IsPrefix(p, q)
  PROVE  \/ p = q
         \/ Len(p) < Depth /\ \E k \in Octants :
              /\ IsPrefix(Append(p, k), q)
              /\ \A m \in Octants : IsPrefix(Append(p, m), q) => m = k
<1>1. Depth \in Nat  BY ShapeAssumption
<1>2. p \in Seq(Octants) /\ q \in Seq(Octants) /\ Len(q) <= Depth  BY RegionIs
<1>3. Len(p) <= Len(q) /\ \A m \in 1 .. Len(p) : p[m] = q[m]  BY PrefixIs
<1>4. CASE Len(p) = Len(q)
  <2>1. p = q  BY <1>2, <1>3, <1>4
  <2>2. QED  BY <2>1
<1>5. CASE Len(p) # Len(q)
  <2>1. Len(p) < Len(q) /\ Len(p) < Depth  BY <1>1, <1>2, <1>3, <1>5
  <2>2. PICK k \in Octants : k = q[Len(p) + 1]  BY <1>2, <2>1
  <2>3. ASSUME NEW m \in Octants
        PROVE  /\ Append(p, m) \in Regions /\ Len(Append(p, m)) = Len(p) + 1
               /\ \A n \in 1 .. Len(p) : Append(p, m)[n] = p[n]
               /\ Append(p, m)[Len(p) + 1] = m
    BY <1>2, <2>1, ChildPath
  <2>4. \A m \in Octants : IsPrefix(Append(p, m), q) <=> m = k
    <3>1. SUFFICES ASSUME NEW m \in Octants
                   PROVE  IsPrefix(Append(p, m), q) <=> m = k
      OBVIOUS
    <3>2. /\ Len(Append(p, m)) <= Len(q)
          /\ \A n \in 1 .. Len(Append(p, m)) : n \in 1 .. Len(p) \/ n = Len(p) + 1
      BY <1>2, <2>1, <2>3
    <3>3. IsPrefix(Append(p, m), q) <=>
            \A n \in 1 .. Len(p) + 1 : Append(p, m)[n] = q[n]
      <4> DEFINE a == Append(p, m)
      <4>1. a \in Regions /\ Len(a) = Len(p) + 1 /\ Len(a) <= Len(q)  BY <2>3, <3>2
      <4> HIDE DEF a
      <4>2. IsPrefix(a, q) <=> \A n \in 1 .. Len(p) + 1 : a[n] = q[n]  BY <4>1, PrefixIs
      <4>3. QED  BY <4>2 DEF a
    <3>4. Len(p) + 1 \in 1 .. Len(p) + 1  BY <1>2
    <3>5. IsPrefix(Append(p, m), q) => m = k  BY <2>2, <2>3, <3>3, <3>4
    <3>6. ASSUME m = k PROVE \A n \in 1 .. Len(p) + 1 : Append(p, m)[n] = q[n]
      <4>1. SUFFICES ASSUME NEW n \in 1 .. Len(p) + 1 PROVE Append(p, m)[n] = q[n]
        OBVIOUS
      <4>2. CASE n = Len(p) + 1  BY <2>2, <2>3, <3>6, <4>2
      <4>3. CASE n # Len(p) + 1
        <5>1. n \in 1 .. Len(p)  BY <1>2, <4>3
        <5>2. QED  BY <1>3, <2>3, <5>1
      <4>4. QED  BY <4>2, <4>3
    <3>7. QED  BY <3>3, <3>5, <3>6
  <2>5. QED  BY <2>1, <2>4
<1>6. QED  BY <1>4, <1>5

LEMMA TouchUp ==
  ASSUME NEW b, b \subseteq Leaves, NEW p \in Regions, NEW q \in Regions,
         IsPrefix(p, q), Touches(b, q)
  PROVE  Touches(b, p)
<1>1. Leaves \subseteq Regions
  <2>1. Depth \in 0 .. Depth  BY ShapeAssumption
  <2>2. QED  BY <2>1 DEF Leaves, Regions
<1>2. QED  BY <1>1, PrefixOrder DEF Touches

LEMMA LeavesAre ==
  ASSUME NEW p \in Regions
  PROVE  /\ Leaves \subseteq Regions
         /\ p \in Leaves <=> Len(p) = Depth
         /\ \A q \in Leaves : IsPrefix(q, p) => q = p
<1>0. Depth \in Nat  BY ShapeAssumption
<1>1. Leaves \subseteq Regions
  <2>1. Depth \in 0 .. Depth  BY ShapeAssumption
  <2>2. QED  BY <2>1 DEF Leaves, Regions
<1>2. p \in Seq(Octants) /\ Len(p) <= Depth  BY RegionIs
<1>3. p \in Leaves <=> Len(p) = Depth  BY <1>0, <1>2 DEF Leaves
<1>4. ASSUME NEW q \in Leaves, IsPrefix(q, p) PROVE q = p
  <2>1. q \in Regions /\ q \in Seq(Octants) /\ Len(q) = Depth  BY <1>0, <1>1, RegionIs DEF Leaves
  <2>2. Len(q) <= Len(p) /\ \A m \in 1 .. Len(q) : q[m] = p[m]  BY <1>4, <2>1, PrefixIs
  <2>3. QED  BY <1>0, <1>2, <2>1, <2>2
<1>5. QED  BY <1>1, <1>3, <1>4

LEMMA TouchDown ==
  ASSUME NEW b, b \subseteq Leaves, NEW p \in Regions, Len(p) < Depth, Touches(b, p)
  PROVE  \E k \in Octants : Touches(b, Append(p, k))
<1>1. PICK leaf \in b : IsPrefix(p, leaf)  BY DEF Touches
<1>2. leaf \in Leaves /\ leaf \in Regions  BY LeavesAre
<1>3. Len(p) # Len(leaf)  BY <1>2, LeavesAre, ShapeAssumption
<1>4. QED  BY <1>1, <1>2, <1>3, OctantOf DEF Touches

-----------------------------------------------------------------------------
(* The pool: who is in use, who is available, and who links to whom.       *)
Kept(t) ==
  /\ t \in Trees
  /\ t.inUse \cap ToSet(t.available) = {}
  /\ t.inUse \cup ToSet(t.available) = 0 .. Len(t.pool) - 1
  /\ IsInjective(t.available)
  /\ 0 \in t.inUse
  /\ \A i \in ToSet(t.available) : Children(t, i) \in {<<>>, NoChildren}

Linked(t) ==
  /\ Path(t, 0) = <<>>
  /\ \A i, j \in t.inUse : Path(t, i) = Path(t, j) => i = j
  /\ \A i \in t.inUse : Children(t, i) \in [Octants -> Nat]
  /\ \A i \in t.inUse, k \in Octants :
       LET j == Children(t, i)[k]
       IN j # 0 => j \in t.inUse /\ Len(Path(t, i)) < Depth /\ Path(t, j) = Append(Path(t, i), k)
  /\ \A j \in t.inUse \ {0} : \E i \in t.inUse, k \in Octants : Children(t, i)[k] = j

Sound(t) == Kept(t) /\ Linked(t)

LEMMA ListIs ==
  ASSUME NEW s \in Seq(Nat)
  PROVE  /\ ToSet(s) = {s[i] : i \in 1 .. Len(s)} /\ Len(s) \in Nat
         /\ IsInjective(s) <=> \A i, j \in 1 .. Len(s) : s[i] = s[j] => i = j
<1>1. DOMAIN s = 1 .. Len(s) /\ Len(s) \in Nat  OBVIOUS
<1>2. QED  BY <1>1 DEF ToSet, IsInjective

(* A list of numbers without repetition, and its last one taken or one     *)
(* more put there.                                                         *)
LEMMA PopIs ==
  ASSUME NEW s \in Seq(Nat), s # <<>>, IsInjective(s)
  PROVE  /\ Front(s) \in Seq(Nat) /\ IsInjective(Front(s)) /\ Last(s) \in ToSet(s)
         /\ Last(s) \in Nat /\ Len(Front(s)) = Len(s) - 1
         /\ \A i \in 1 .. Len(s) - 1 : Front(s)[i] = s[i]
         /\ ToSet(Front(s)) = ToSet(s) \ {Last(s)}
<1>1. Len(s) \in Nat \ {0}  OBVIOUS
<1> DEFINE f == Front(s)
           m == Len(s) - 1
<1>2. f \in Seq(Nat) /\ Len(f) = m /\ \A i \in 1 .. m : f[i] = s[i]
  <2>1. m \in Nat /\ m <= Len(s) /\ m - 1 + 1 = m /\ (1 <= m \/ m = 0)
    <3>1. PICK n \in Nat \ {0} : n = Len(s)  BY <1>1
    <3>2. n - 1 \in Nat /\ n - 1 <= n /\ n - 1 - 1 + 1 = n - 1 /\ (1 <= n - 1 \/ n - 1 = 0)  OBVIOUS
    <3>3. QED  BY <3>1, <3>2
  <2>2. f = SubSeq(s, 1, m)  BY DEF Front
  <2> HIDE DEF f, m
  <2>3. \A i \in 1 .. m : i \in 1 .. m - 1 + 1 /\ 1 + i - 1 = i /\ i \in 1 .. Len(s)  BY <1>1, <2>1
  <2>4. 1 \in 1 .. Len(s) + 1 /\ m \in 0 .. Len(s)  BY <1>1, <2>1
  <2>5. /\ SubSeq(s, 1, m) \in Seq(Nat)
        /\ Len(SubSeq(s, 1, m)) = IF 1 <= m THEN m - 1 + 1 ELSE 0
        /\ \A i \in 1 .. m - 1 + 1 : SubSeq(s, 1, m)[i] = s[1 + i - 1]
    BY <2>4, SubSeqProperties
  <2>6. QED  BY <2>1, <2>2, <2>3, <2>5
<1>3. \A i, j \in 1 .. Len(s) : s[i] = s[j] => i = j  BY ListIs
<1>4. Last(s) = s[Len(s)] /\ Len(s) \in 1 .. Len(s)  BY <1>1 DEF Last
<1> HIDE DEF f
<1>5. IsInjective(f)
  <2>0. \A i \in 1 .. m : i \in 1 .. Len(s)  BY <1>1
  <2>1. \A i, j \in 1 .. m : f[i] = f[j] => i = j
    <3> HIDE DEF m
    <3>1. QED  BY <1>2, <1>3, <2>0
  <2>2. QED  BY <1>2, <2>1, ListIs
<1>6. ToSet(s) = {s[i] : i \in 1 .. Len(s)}  BY ListIs
<1>7. ToSet(f) = {f[i] : i \in 1 .. m}  BY <1>2, ListIs
<1>8. ToSet(f) = ToSet(s) \ {Last(s)}
  <2>1. \A i \in 1 .. Len(s) : i = Len(s) \/ i \in 1 .. m  BY <1>1
  <2>2. \A i \in 1 .. m : i \in 1 .. Len(s) /\ i # Len(s)  BY <1>1
  <2>3. \A i \in 1 .. m : f[i] \in ToSet(s) /\ f[i] # Last(s)  BY <1>2, <1>3, <1>4, <1>6, <2>2
  <2>4. \A i \in 1 .. Len(s) : s[i] # Last(s) => s[i] \in ToSet(f)  BY <1>2, <1>4, <1>7, <2>1
  <2>5. QED  BY <1>6, <1>7, <2>3, <2>4
<1>9. Last(s) \in Nat /\ Last(s) \in ToSet(s)  BY <1>4, <1>6
<1>10. QED  BY <1>1, <1>2, <1>5, <1>8, <1>9 DEF f

LEMMA PushIs ==
  ASSUME NEW s \in Seq(Nat), IsInjective(s), NEW x \in Nat, x \notin ToSet(s)
  PROVE  /\ Append(s, x) \in Seq(Nat) /\ IsInjective(Append(s, x)) /\ Append(s, x) # <<>>
         /\ ToSet(Append(s, x)) = ToSet(s) \cup {x} /\ Last(Append(s, x)) = x
<1> DEFINE a == Append(s, x)
<1>0. Len(s) \in Nat  OBVIOUS
<1>1. /\ a \in Seq(Nat) /\ Len(a) = Len(s) + 1 /\ a # <<>>
      /\ (\A i \in 1 .. Len(s) : a[i] = s[i]) /\ a[Len(s) + 1] = x
  BY AppendProperties
<1> HIDE DEF a
<1>2. \A i, j \in 1 .. Len(s) : s[i] = s[j] => i = j  BY ListIs
<1>3. \A i \in 1 .. Len(s) : s[i] # x  BY ListIs
<1>4. ToSet(s) = {s[i] : i \in 1 .. Len(s)}  BY ListIs
<1>5. ToSet(a) = {a[i] : i \in 1 .. Len(s) + 1}  BY <1>1, ListIs
<1>6. \A i \in 1 .. Len(s) + 1 : i \in 1 .. Len(s) \/ i = Len(s) + 1  BY <1>0
<1>7. \A i \in 1 .. Len(s) : i \in 1 .. Len(s) + 1  BY <1>0
<1>8. Len(s) + 1 \in 1 .. Len(s) + 1  BY <1>0
<1>9. IsInjective(a)
  <2>1. ASSUME NEW i \in 1 .. Len(s) + 1, NEW j \in 1 .. Len(s) + 1, a[i] = a[j] PROVE i = j
    <3>1. CASE i \in 1 .. Len(s) /\ j \in 1 .. Len(s)  BY <1>1, <1>2, <2>1, <3>1
    <3>2. CASE i = Len(s) + 1 /\ j \in 1 .. Len(s)  BY <1>1, <1>3, <2>1, <3>2
    <3>3. CASE j = Len(s) + 1 /\ i \in 1 .. Len(s)  BY <1>1, <1>3, <2>1, <3>3
    <3>4. QED  BY <1>6, <3>1, <3>2, <3>3
  <2>2. QED  BY <1>1, <2>1, ListIs
<1>10. ToSet(a) = ToSet(s) \cup {x}
  <2>1. \A i \in 1 .. Len(s) + 1 : a[i] \in ToSet(s) \cup {x}  BY <1>1, <1>4, <1>6
  <2>2. x \in ToSet(a)  BY <1>1, <1>5, <1>8
  <2>3. \A i \in 1 .. Len(s) : s[i] \in ToSet(a)  BY <1>1, <1>5, <1>7
  <2>4. QED  BY <1>4, <1>5, <2>1, <2>2, <2>3
<1>11. Last(a) = x  BY <1>1 DEF Last
<1>12. QED  BY <1>1, <1>9, <1>10, <1>11 DEF a

(* A node of the pool, and a node written.                                 *)
LEMMA NodeIs ==
  ASSUME NEW t, t \in Trees, NEW i \in 0 .. Len(t.pool) - 1
  PROVE  /\ i + 1 \in 1 .. Len(t.pool) /\ t.pool[i + 1] \in Node /\ i \in Nat
         /\ Path(t, i) \in Regions /\ Objects(t, i) \subseteq Chunks
         /\ Children(t, i) \in [Octants -> Nat] \cup {<<>>}
         /\ Len(t.pool) \in Nat
<1>1. t.pool \in Seq(Node)  BY DEF Trees
<1>2. i + 1 \in 1 .. Len(t.pool) /\ Len(t.pool) \in Nat  BY <1>1
<1>3. t.pool[i + 1] \in Node  BY <1>1, <1>2
<1>4. QED  BY <1>2, <1>3 DEF Node, Path, Objects, Children

LEMMA Written ==
  ASSUME NEW t, t \in Trees, NEW i \in 0 .. Len(t.pool) - 1, NEW n \in Node,
         NEW u, u = [t EXCEPT !.pool[i + 1] = n]
  PROVE  /\ u \in Trees /\ u.inUse = t.inUse /\ u.available = t.available
         /\ Len(u.pool) = Len(t.pool) /\ u.pool[i + 1] = n
         /\ \A j \in 0 .. Len(t.pool) - 1 : j # i => u.pool[j + 1] = t.pool[j + 1]
<1>1. t.pool \in Seq(Node) /\ t.inUse \in SUBSET Nat /\ t.available \in Seq(Nat)  BY DEF Trees
<1>2. i + 1 \in 1 .. Len(t.pool)  BY <1>1
<1> DEFINE p == [t.pool EXCEPT ![i + 1] = n]
<1>3. u = [pool |-> p, inUse |-> t.inUse, available |-> t.available]  BY DEF Trees
<1>4. /\ p \in Seq(Node) /\ Len(p) = Len(t.pool) /\ p[i + 1] = n
      /\ \A m \in 1 .. Len(t.pool) : m # i + 1 => p[m] = t.pool[m]
  BY <1>1, <1>2
<1> HIDE DEF p
<1>5. u \in Trees
  <2>1. p \in Seq(Node)  BY <1>4
  <2>2. [pool |-> p, inUse |-> t.inUse, available |-> t.available] \in Trees
    BY <1>1, <2>1 DEF Trees
  <2>3. QED  BY <1>3, <2>2
<1>6. \A j \in 0 .. Len(t.pool) - 1 : j + 1 \in 1 .. Len(t.pool) /\ (j # i => j + 1 # i + 1)  BY <1>1
<1>7. QED  BY <1>3, <1>4, <1>5, <1>6

(* What NewNode hands out was not in use; everything else stays.           *)
LEMMA NewNodeIs ==
  ASSUME NEW t, Kept(t), NEW n, NEW u, n = NewNode(t).index, u = NewNode(t).tree
  PROVE  /\ n \in Nat /\ n \notin t.inUse /\ n # 0
         /\ Kept(u) /\ u.inUse = t.inUse \cup {n}
         /\ Children(u, n) \in {<<>>, NoChildren}
         /\ \A i \in t.inUse : u.pool[i + 1] = t.pool[i + 1]
<1>1. /\ t.pool \in Seq(Node) /\ t.inUse \in SUBSET Nat /\ t.available \in Seq(Nat)
      /\ t = [pool |-> t.pool, inUse |-> t.inUse, available |-> t.available]
  BY DEF Kept, Trees
<1> DEFINE s == IF t.available = <<>> THEN Grow(t) ELSE t
<1>2. /\ s.pool \in Seq(Node) /\ s.inUse = t.inUse /\ s.available \in Seq(Nat) /\ s \in Trees
      /\ s.available # <<>> /\ IsInjective(s.available)
      /\ s.inUse \cap ToSet(s.available) = {}
      /\ s.inUse \cup ToSet(s.available) = 0 .. Len(s.pool) - 1
      /\ \A i \in ToSet(s.available) : Children(s, i) \in {<<>>, NoChildren}
      /\ \A i \in t.inUse : s.pool[i + 1] = t.pool[i + 1]
  <2>1. CASE t.available # <<>>  BY <1>1, <2>1 DEF Kept
  <2>2. CASE t.available = <<>>
    <3> DEFINE L == Len(t.pool)
    <3>1. L \in Nat /\ t.inUse = 0 .. L - 1
      <4>1. ToSet(t.available) = {}  BY <2>2 DEF ToSet
      <4>2. QED  BY <1>1, <4>1 DEF Kept
    <3>2. EmptyNode \in Node
      <4>1. NoChildren \in [Octants -> Nat]  BY DEF NoChildren
      <4>2. <<>> \in Regions
        <5>1. <<>> \in Seq(Octants) /\ Len(<<>>) = 0 /\ Depth \in Nat  BY ShapeAssumption
        <5>2. 0 <= Depth  BY <5>1
        <5>3. QED  BY <5>1, <5>2, RegionIs
      <4>3. QED  BY <4>1, <4>2 DEF EmptyNode, Node
    <3>3. s = [pool |-> Append(t.pool, EmptyNode), inUse |-> t.inUse, available |-> <<L>>]
      <4>1. s = [t EXCEPT !.pool = Append(@, EmptyNode), !.available = Append(@, L)]
        BY <2>2 DEF Grow
      <4>2. Append(t.available, L) = <<L>>  BY <2>2
      <4> HIDE DEF s, L
      <4>3. QED  BY <1>1, <4>1, <4>2
    <3> DEFINE p == Append(t.pool, EmptyNode)
    <3>4. /\ p \in Seq(Node) /\ Len(p) = L + 1 /\ p[L + 1] = EmptyNode
          /\ \A i \in 1 .. L : p[i] = t.pool[i]
      BY <1>1, <3>2
    <3> HIDE DEF p, s, L
    <3>5. ToSet(s.available) = {L} /\ IsInjective(s.available) /\ s.available \in Seq(Nat)
          /\ s.available # <<>>
      BY <3>1, <3>3 DEF ToSet, IsInjective
    <3>6. s.pool = p /\ s.inUse = t.inUse  BY <3>3 DEF p
    <3>7. s \in Trees  BY <1>1, <3>1, <3>3, <3>4 DEF Trees, p
    <3>8. \A i \in ToSet(s.available) : Children(s, i) \in {<<>>, NoChildren}
      BY <3>4, <3>5, <3>6 DEF Children, EmptyNode
    <3>9. s.inUse \cap ToSet(s.available) = {} /\ s.inUse \cup ToSet(s.available) = 0 .. Len(s.pool) - 1
      BY <3>1, <3>4, <3>5, <3>6
    <3>10. \A i \in t.inUse : s.pool[i + 1] = t.pool[i + 1]
      <4>1. \A i \in t.inUse : i + 1 \in 1 .. L  BY <3>1
      <4>2. QED  BY <3>4, <3>6, <4>1
    <3>11. QED  BY <3>4, <3>5, <3>6, <3>7, <3>8, <3>9, <3>10
  <2>3. QED  BY <2>1, <2>2
<1>3. n = Last(s.available) /\ u = [s EXCEPT !.inUse = @ \cup {n}, !.available = Front(@)]
  BY DEF NewNode
<1> HIDE DEF s
<1>4. /\ Front(s.available) \in Seq(Nat) /\ IsInjective(Front(s.available))
      /\ n \in ToSet(s.available) /\ n \in Nat
      /\ ToSet(Front(s.available)) = ToSet(s.available) \ {n}
  BY <1>2, <1>3, PopIs
<1>5. u = [pool |-> s.pool, inUse |-> t.inUse \cup {n}, available |-> Front(s.available)]
  BY <1>2, <1>3 DEF Trees
<1>6. u \in Trees  BY <1>1, <1>2, <1>4, <1>5 DEF Trees
<1>7. n \notin t.inUse  BY <1>2, <1>4
<1>8. 0 \in t.inUse  BY DEF Kept
<1>9. \A i : Children(u, i) = Children(s, i)  BY <1>5 DEF Children
<1>10. Kept(u)
  <2>1. u.inUse \cap ToSet(u.available) = {}  BY <1>2, <1>4, <1>5
  <2>2. u.inUse \cup ToSet(u.available) = 0 .. Len(u.pool) - 1  BY <1>2, <1>4, <1>5
  <2>3. IsInjective(u.available) /\ 0 \in u.inUse  BY <1>4, <1>5, <1>8
  <2>4. \A i \in ToSet(u.available) : Children(u, i) \in {<<>>, NoChildren}
    <3>1. ToSet(u.available) \subseteq ToSet(s.available)  BY <1>4, <1>5
    <3>2. QED  BY <1>2, <1>9, <3>1
  <2>5. QED  BY <1>6, <2>1, <2>2, <2>3, <2>4 DEF Kept
<1>11. Children(u, n) \in {<<>>, NoChildren}  BY <1>2, <1>4, <1>9
<1>12. u.inUse = t.inUse \cup {n} /\ \A i \in t.inUse : u.pool[i + 1] = t.pool[i + 1]  BY <1>2, <1>5
<1>13. n # 0  BY <1>7, <1>8
<1>14. QED  BY <1>4, <1>7, <1>10, <1>11, <1>12, <1>13

-----------------------------------------------------------------------------
(* Adding.  u is t with nodes for the regions N, and c in the nodes of S.   *)
Added(t, u, c, N, S) ==
  /\ Sound(u)
  /\ t.inUse \subseteq u.inUse
  /\ \A i \in t.inUse : Path(u, i) = Path(t, i)
  /\ \A i \in t.inUse : Objects(u, i) = Objects(t, i) \cup {x \in {c} : Path(t, i) \in S}
  /\ \A i \in u.inUse \ t.inUse : Path(u, i) \in N /\ Objects(u, i) = {x \in {c} : Path(u, i) \in S}
  /\ \A p \in N \cup S : \E i \in u.inUse : Path(u, i) = p

(* The regions in p that a box touches.                                    *)
Within(b, p) == {q \in Regions : IsPrefix(p, q) /\ Touches(b, q)}

LEMMA InUse ==
  ASSUME NEW t, Kept(t), NEW i \in t.inUse
  PROVE  i \in 0 .. Len(t.pool) - 1 /\ i \in Nat /\ i + 1 \in 1 .. Len(t.pool)
<1>1. i \in 0 .. Len(t.pool) - 1  BY DEF Kept
<1>2. t \in Trees  BY DEF Kept
<1>3. QED  BY <1>1, <1>2, NodeIs

LEMMA NothingToDrop ==
  ASSUME NEW t, NEW children \in {<<>>, NoChildren}
  PROVE  DropChildren(t, children) = t
<1>1. Len(children) \in Nat /\ \A n \in 1 .. Len(children) : children[n] = 0
  <2>1. CASE children = <<>>  BY <2>1
  <2>2. CASE children = NoChildren
    <3>1. Arity \in Nat  BY ShapeAssumption
    <3>2. NoChildren \in Seq(Nat) /\ Len(NoChildren) = Arity  BY <3>1 DEF NoChildren, Octants
    <3>3. QED  BY <2>2, <3>1, <3>2 DEF NoChildren, Octants
  <2>3. QED  BY <2>1, <2>2
<1>2. PICK f : /\ f[0] = t
               /\ \A n \in 1 .. Len(children) :
                    f[n] = IF children[n] = 0 THEN f[n - 1] ELSE DeleteNode(f[n - 1], children[n])
               /\ DropChildren(t, children) = f[Len(children)]
  BY <1>1, DropLoop
<1> DEFINE T == {n \in 0 .. Len(children) : f[n] = t}
<1>3. 0 \in T  BY <1>1, <1>2
<1>4. ASSUME NEW n \in 1 .. Len(children), n - 1 \in T PROVE n \in T  BY <1>1, <1>2, <1>4
<1>5. \A n \in 0 .. Len(children) : n \in T
  <2> HIDE DEF T
  <2>1. QED  BY <1>1, <1>3, <1>4, TurnByTurn
<1>6. QED  BY <1>1, <1>2, <1>5

LEMMA EmptyNodeIs ==
  ASSUME NEW p \in Regions
  PROVE  /\ [EmptyNode EXCEPT !.path = p] = [path |-> p, children |-> NoChildren, objects |-> {}]
         /\ [EmptyNode EXCEPT !.path = p] \in Node
         /\ [EmptyNode EXCEPT !.children = <<>>] = [path |-> <<>>, children |-> <<>>, objects |-> {}]
         /\ [EmptyNode EXCEPT !.children = <<>>] \in Node
<1>1. NoChildren \in [Octants -> Nat]  BY DEF NoChildren
<1>2. <<>> \in Regions  BY PrefixOrder
<1>3. /\ [EmptyNode EXCEPT !.path = p] = [path |-> p, children |-> NoChildren, objects |-> {}]
      /\ [EmptyNode EXCEPT !.children = <<>>] = [path |-> <<>>, children |-> <<>>, objects |-> {}]
  <2>1. \A a, n, o : /\ [[path |-> a, children |-> n, objects |-> o] EXCEPT !.path = p] =
                          [path |-> p, children |-> n, objects |-> o]
                     /\ [[path |-> a, children |-> n, objects |-> o] EXCEPT !.children = a] =
                          [path |-> a, children |-> a, objects |-> o]
    OBVIOUS
  <2>2. QED  BY <2>1 DEF EmptyNode
<1>4. /\ [path |-> p, children |-> NoChildren, objects |-> {}] \in Node
      /\ [path |-> <<>>, children |-> <<>>, objects |-> {}] \in Node
  BY <1>1, <1>2 DEF Node
<1>5. QED  BY <1>3, <1>4

(* A node without children written anew.                                   *)
LEMMA CreateIs ==
  ASSUME NEW t, t \in Trees, NEW i \in 0 .. Len(t.pool) - 1, NEW p \in Regions,
         Children(t, i) \in {<<>>, NoChildren}
  PROVE  CreateNode(t, i, p) = [t EXCEPT !.pool[i + 1] = [EmptyNode EXCEPT !.path = p]]
<1>1. DropChildren(t, Children(t, i)) = t  BY NothingToDrop
<1> DEFINE X == [EmptyNode EXCEPT !.children = <<>>]
           Y == [EmptyNode EXCEPT !.path = p]
<1>2. CreateNode(t, i, p) = [[t EXCEPT !.pool[i + 1] = X] EXCEPT !.pool[i + 1] = Y]
  BY <1>1 DEF CreateNode, ReleaseNode
<1> HIDE DEF X, Y
<1>3. t = [pool |-> t.pool, inUse |-> t.inUse, available |-> t.available] /\ t.pool \in Seq(Node)
  BY DEF Trees
<1>4. i + 1 \in 1 .. Len(t.pool)  BY NodeIs
<1>5. [[t.pool EXCEPT ![i + 1] = X] EXCEPT ![i + 1] = Y] = [t.pool EXCEPT ![i + 1] = Y]
  BY <1>3, <1>4
<1>6. [t EXCEPT !.pool[i + 1] = X] =
        [pool |-> [t.pool EXCEPT ![i + 1] = X], inUse |-> t.inUse, available |-> t.available]
  BY <1>3
<1>7. [t EXCEPT !.pool[i + 1] = Y] =
        [pool |-> [t.pool EXCEPT ![i + 1] = Y], inUse |-> t.inUse, available |-> t.available]
  BY <1>3
<1>8. [[t EXCEPT !.pool[i + 1] = X] EXCEPT !.pool[i + 1] = Y] =
        [pool |-> [[t.pool EXCEPT ![i + 1] = X] EXCEPT ![i + 1] = Y],
         inUse |-> t.inUse, available |-> t.available]
  <2> DEFINE q == [t.pool EXCEPT ![i + 1] = X]
             u == [t EXCEPT !.pool[i + 1] = X]
  <2>1. u = [pool |-> q, inUse |-> t.inUse, available |-> t.available]  BY <1>6
  <2> HIDE DEF q, u
  <2>2. [u EXCEPT !.pool[i + 1] = Y] =
          [pool |-> [q EXCEPT ![i + 1] = Y], inUse |-> t.inUse, available |-> t.available]
    BY <2>1
  <2>3. QED  BY <2>2 DEF q, u
<1>9. QED  BY <1>2, <1>5, <1>7, <1>8 DEF Y

(* The node for an octant, if there is one, is the child there.            *)
LEMMA ChildAt ==
  ASSUME NEW t, Sound(t), NEW i \in t.inUse, NEW k \in Octants, Len(Path(t, i)) < Depth,
         NEW j \in t.inUse, Path(t, j) = Append(Path(t, i), k)
  PROVE  Children(t, i)[k] = j /\ j # 0
<1>1. \A m \in t.inUse : Path(t, m) \in Regions  BY InUse, NodeIs DEF Sound, Kept
<1>2. j # 0  BY <1>1, ChildPath DEF Sound, Linked
<1>3. PICK m \in t.inUse, n \in Octants : Children(t, m)[n] = j  BY <1>2 DEF Sound, Linked
<1>4. Len(Path(t, m)) < Depth /\ Path(t, j) = Append(Path(t, m), n)  BY <1>2, <1>3 DEF Sound, Linked
<1>5. Path(t, m) = Path(t, i) /\ n = k
  <2> DEFINE p == Path(t, i)
             q == Path(t, m)
  <2>1. p \in Regions /\ q \in Regions /\ Len(p) < Depth /\ Append(p, k) = Append(q, n)
    BY <1>1, <1>4
  <2> HIDE DEF p, q
  <2>2. p = q /\ k = n  BY <2>1, ChildPath
  <2>3. QED  BY <2>2 DEF p, q
<1>6. m = i  BY <1>5 DEF Sound, Linked
<1>7. QED  BY <1>2, <1>3, <1>5, <1>6

LEMMA AddedNone ==
  ASSUME NEW t, Sound(t), NEW c
  PROVE  Added(t, t, c, {}, {})
BY DEF Added

LEMMA AddedBoth ==
  ASSUME NEW t, NEW u, NEW v, NEW c, NEW N, NEW S, NEW M, NEW R,
         Added(t, u, c, N, S), Added(u, v, c, M, R)
  PROVE  Added(t, v, c, N \cup M, S \cup R)
<1>1. \A i \in t.inUse : i \in u.inUse /\ i \in v.inUse  BY DEF Added
<1>2. \A i \in u.inUse : i \in v.inUse /\ Path(v, i) = Path(u, i)  BY DEF Added
<1>3. ASSUME NEW i \in t.inUse
      PROVE  /\ Path(v, i) = Path(t, i)
             /\ Objects(v, i) = Objects(t, i) \cup {x \in {c} : Path(t, i) \in S \cup R}
  <2>1. Path(u, i) = Path(t, i) /\ Path(v, i) = Path(t, i)  BY <1>1, <1>2 DEF Added
  <2>2. Objects(u, i) = Objects(t, i) \cup {x \in {c} : Path(t, i) \in S}  BY DEF Added
  <2>3. Objects(v, i) = Objects(u, i) \cup {x \in {c} : Path(t, i) \in R}  BY <1>1, <2>1 DEF Added
  <2>4. QED  BY <2>1, <2>2, <2>3
<1>4. ASSUME NEW i \in v.inUse \ t.inUse
      PROVE  /\ Path(v, i) \in N \cup M
             /\ Objects(v, i) = {x \in {c} : Path(v, i) \in S \cup R}
  <2>1. CASE i \in u.inUse
    <3>1. Path(u, i) \in N /\ Objects(u, i) = {x \in {c} : Path(u, i) \in S} /\ Path(v, i) = Path(u, i)
      BY <1>2, <2>1 DEF Added
    <3>2. Objects(v, i) = Objects(u, i) \cup {x \in {c} : Path(u, i) \in R}  BY <2>1 DEF Added
    <3>3. QED  BY <3>1, <3>2
  <2>2. CASE i \notin u.inUse
    <3>1. i \in t.inUse => i \in u.inUse  BY <1>1
    <3>2. Path(v, i) \in M /\ Objects(v, i) = {x \in {c} : Path(v, i) \in R}  BY <2>2 DEF Added
    <3>3. ASSUME Path(v, i) \in S PROVE FALSE
      <4>1. PICK j \in u.inUse : Path(u, j) = Path(v, i)  BY <3>3 DEF Added
      <4>2. j \in v.inUse /\ Path(v, j) = Path(v, i)  BY <1>2, <4>1
      <4>3. j = i  BY <4>2 DEF Added, Sound, Linked
      <4>4. QED  BY <2>2, <4>3
    <3>4. QED  BY <3>2, <3>3
  <2>3. QED  BY <2>1, <2>2
<1>5. ASSUME NEW p \in (N \cup M) \cup (S \cup R) PROVE \E i \in v.inUse : Path(v, i) = p
  BY <1>2 DEF Added
<1>6. QED  BY <1>1, <1>3, <1>4, <1>5 DEF Added


(* The two writings of a node that is in use.                              *)
LEMMA InsertIs ==
  ASSUME NEW t, Sound(t), NEW i \in t.inUse, NEW c \in Chunks
  PROVE  Added(t, Insert(t, i, c), c, {}, {Path(t, i)})
<1> DEFINE old == t.pool[i + 1]
           n == [old EXCEPT !.objects = @ \cup {c}]
           u == Insert(t, i, c)
<1>1. t \in Trees /\ i \in 0 .. Len(t.pool) - 1  BY InUse DEF Sound, Kept
<1>2. old \in Node  BY <1>1, NodeIs
<1>3. /\ n \in Node /\ n.path = old.path /\ n.children = old.children
      /\ n.objects = old.objects \cup {c}
  BY <1>2 DEF Node
<1>4. u = [t EXCEPT !.pool[i + 1] = n]  BY DEF Insert
<1> HIDE DEF n, u
<1>5. /\ u \in Trees /\ u.inUse = t.inUse /\ u.available = t.available
      /\ Len(u.pool) = Len(t.pool) /\ u.pool[i + 1] = n
      /\ \A j \in 0 .. Len(t.pool) - 1 : j # i => u.pool[j + 1] = t.pool[j + 1]
  BY <1>1, <1>3, <1>4, Written
<1>6. \A j \in 0 .. Len(t.pool) - 1 : Path(u, j) = Path(t, j) /\ Children(u, j) = Children(t, j)
  BY <1>3, <1>5 DEF Path, Children
<1>7. \A j \in t.inUse : j \in 0 .. Len(t.pool) - 1  BY InUse DEF Sound
<1>8. Kept(u)
  <2>1. \A j \in ToSet(t.available) : j \in 0 .. Len(t.pool) - 1  BY DEF Sound, Kept
  <2>2. \A j \in ToSet(u.available) : Children(u, j) \in {<<>>, NoChildren}
    BY <1>5, <1>6, <2>1 DEF Sound, Kept
  <2>3. QED  BY <1>5, <2>2 DEF Sound, Kept
<1>9. Linked(u)
  <2>1. 0 \in t.inUse  BY DEF Sound, Kept
  <2>2. \A j \in u.inUse : j \in t.inUse /\ Path(u, j) = Path(t, j) /\ Children(u, j) = Children(t, j)
    BY <1>5, <1>6, <1>7
  <2>3. \A j \in t.inUse : j \in u.inUse  BY <1>5
  <2>4. QED  BY <2>1, <2>2, <2>3 DEF Sound, Linked
<1>10. \A j \in t.inUse : j # i => Path(t, j) # Path(t, i)  BY DEF Sound, Linked
<1>11. ASSUME NEW j \in t.inUse
       PROVE  Objects(u, j) = Objects(t, j) \cup {x \in {c} : Path(t, j) \in {Path(t, i)}}
  <2>1. CASE j = i  BY <1>3, <1>5, <2>1 DEF Objects
  <2>2. CASE j # i
    <3>1. Objects(u, j) = Objects(t, j)  BY <1>5, <1>7, <2>2 DEF Objects
    <3>2. QED  BY <1>10, <2>2, <3>1
  <2>3. QED  BY <2>1, <2>2
<1>12. u.inUse \ t.inUse = {} /\ t.inUse \subseteq u.inUse  BY <1>5
<1>13. \A j \in t.inUse : Path(u, j) = Path(t, j)  BY <1>6, <1>7
<1>14. \A p \in {} \cup {Path(t, i)} : \E j \in u.inUse : Path(u, j) = p  BY <1>12, <1>13
<1>15. Added(t, u, c, {}, {Path(t, i)})
  BY <1>8, <1>9, <1>11, <1>12, <1>13, <1>14 DEF Added, Sound
<1>16. QED  BY <1>15 DEF u

(* After EnsureChild there is a child for the octant; nothing else is new. *)
LEMMA EnsureIs ==
  ASSUME NEW t, Sound(t), NEW i \in t.inUse, NEW k \in Octants, Len(Path(t, i)) < Depth,
         NEW s, s = EnsureChild(t, i, k), NEW c
  PROVE  /\ Children(s, i)[k] \in s.inUse
         /\ Path(s, Children(s, i)[k]) = Append(Path(t, i), k)
         /\ Added(t, s, c, {Append(Path(t, i), k)}, {})
<1> DEFINE a == Append(Path(t, i), k)
<1>1. t \in Trees /\ i \in 0 .. Len(t.pool) - 1 /\ Path(t, i) \in Regions
  BY InUse, NodeIs DEF Sound, Kept
<1>2. a \in Regions /\ a # <<>>  BY <1>1, ChildPath
<1>3. CASE Children(t, i)[k] # 0
  <2>1. s = t  BY <1>3 DEF EnsureChild
  <2>2. Children(t, i)[k] \in t.inUse /\ Path(t, Children(t, i)[k]) = a  BY <1>3 DEF Sound, Linked
  <2>3. Added(t, t, c, {a}, {})  BY <2>2 DEF Added
  <2>4. QED  BY <2>1, <2>2, <2>3
<1>4. CASE Children(t, i)[k] = 0
  <2>1. PICK n, u : n = NewNode(t).index /\ u = NewNode(t).tree  OBVIOUS
  <2>2. /\ n \in Nat /\ n \notin t.inUse /\ n # 0
        /\ Kept(u) /\ u.inUse = t.inUse \cup {n}
        /\ Children(u, n) \in {<<>>, NoChildren}
        /\ \A j \in t.inUse : u.pool[j + 1] = t.pool[j + 1]
    BY <2>1, NewNodeIs DEF Sound
  <2>3. i \in u.inUse /\ n \in u.inUse /\ n # i  BY <2>2
  <2>4. u \in Trees /\ i \in 0 .. Len(u.pool) - 1 /\ n \in 0 .. Len(u.pool) - 1
    BY <2>2, <2>3, InUse DEF Kept
  <2> DEFINE old == u.pool[i + 1]
             N == [old EXCEPT !.children[k] = n]
             v == [u EXCEPT !.pool[i + 1].children[k] = n]
             M == [EmptyNode EXCEPT !.path = a]
  <2>5. old = t.pool[i + 1] /\ old \in Node /\ old.children \in [Octants -> Nat]
    BY <2>2, <2>4, NodeIs DEF Sound, Linked, Children
  <2>6. /\ N \in Node /\ N.path = old.path /\ N.objects = old.objects
        /\ N.children = [old.children EXCEPT ![k] = n]
    <3>1. [old.children EXCEPT ![k] = n] \in [Octants -> Nat]  BY <2>2, <2>5
    <3>2. N = [path |-> old.path, children |-> [old.children EXCEPT ![k] = n], objects |-> old.objects]
      BY <2>5 DEF Node
    <3> HIDE DEF N, old
    <3>3. QED  BY <2>5, <3>1, <3>2 DEF Node
  <2>7. v = [u EXCEPT !.pool[i + 1] = N]  OBVIOUS
  <2>8. s = CreateNode(v, n, a)  BY <1>4, <2>1 DEF EnsureChild
  <2> HIDE DEF v, N
  <2>9. /\ v \in Trees /\ v.inUse = u.inUse /\ v.available = u.available
        /\ Len(v.pool) = Len(u.pool) /\ v.pool[i + 1] = N
        /\ \A j \in 0 .. Len(u.pool) - 1 : j # i => v.pool[j + 1] = u.pool[j + 1]
    BY <2>4, <2>6, <2>7, Written
  <2>10. Children(v, n) \in {<<>>, NoChildren}  BY <2>2, <2>3, <2>4, <2>9 DEF Children
  <2>11. s = [v EXCEPT !.pool[n + 1] = M]  
    <3>1. v \in Trees /\ n \in 0 .. Len(v.pool) - 1  BY <2>4, <2>9
    <3> HIDE DEF a
    <3>2. CreateNode(v, n, a) = [v EXCEPT !.pool[n + 1] = M]  BY <1>2, <2>10, <3>1, CreateIs
    <3>3. QED  BY <2>8, <3>2
  <2>12. M \in Node /\ M = [path |-> a, children |-> NoChildren, objects |-> {}]  BY <1>2, EmptyNodeIs
  <2> HIDE DEF M
  <2>13. /\ s \in Trees /\ s.inUse = v.inUse /\ s.available = v.available
         /\ Len(s.pool) = Len(v.pool) /\ s.pool[n + 1] = M
         /\ \A j \in 0 .. Len(v.pool) - 1 : j # n => s.pool[j + 1] = v.pool[j + 1]
    <3>1. n \in 0 .. Len(v.pool) - 1  BY <2>4, <2>9
    <3>2. v \in Trees /\ M \in Node  BY <2>9, <2>12
    <3>3. QED  BY <2>11, <3>1, <3>2, Written
  <2>14. /\ s.inUse = t.inUse \cup {n} /\ s.available = u.available /\ Len(s.pool) = Len(u.pool)
         /\ s.pool[i + 1] = N
         /\ \A j \in 0 .. Len(u.pool) - 1 : j # n /\ j # i => s.pool[j + 1] = u.pool[j + 1]
    BY <2>2, <2>3, <2>4, <2>9, <2>13
  <2>15. \A j \in t.inUse : j \in 0 .. Len(u.pool) - 1 /\ j # n  BY <2>2, InUse
  <2>16. /\ Path(s, n) = a /\ Objects(s, n) = {} /\ Children(s, n) = NoChildren
         /\ Path(s, i) = Path(t, i) /\ Objects(s, i) = Objects(t, i)
         /\ Children(s, i) = [Children(t, i) EXCEPT ![k] = n]
         /\ \A j \in t.inUse : j # i => s.pool[j + 1] = t.pool[j + 1]
    <3>1. /\ Path(s, n) = a /\ Objects(s, n) = {} /\ Children(s, n) = NoChildren
      BY <2>12, <2>13 DEF Path, Objects, Children
    <3>2. Path(s, i) = Path(t, i) /\ Objects(s, i) = Objects(t, i)
          /\ Children(s, i) = [Children(t, i) EXCEPT ![k] = n]
      BY <2>5, <2>6, <2>14 DEF Path, Objects, Children
    <3>3. \A j \in t.inUse : j # i => s.pool[j + 1] = t.pool[j + 1]  BY <2>2, <2>14, <2>15
    <3>4. QED  BY <3>1, <3>2, <3>3
  <2>17. \A j \in t.inUse : /\ Path(s, j) = Path(t, j) /\ Objects(s, j) = Objects(t, j)
                            /\ j # i => Children(s, j) = Children(t, j)
    BY <2>16 DEF Path, Objects, Children
  <2>18. Kept(s)
    <3>1. ToSet(s.available) = ToSet(u.available)  BY <2>14
    <3>2. \A j \in ToSet(u.available) : j \notin u.inUse /\ j \in 0 .. Len(u.pool) - 1  BY <2>2 DEF Kept
    <3>3. \A j \in ToSet(u.available) : s.pool[j + 1] = u.pool[j + 1]  BY <2>3, <2>14, <3>2
    <3>4. \A j \in ToSet(s.available) : Children(s, j) \in {<<>>, NoChildren}
      BY <2>2, <3>1, <3>3 DEF Kept, Children
    <3>5. QED  BY <2>2, <2>13, <2>14, <3>1, <3>4 DEF Kept
  <2>19. \A j \in t.inUse : Path(t, j) # a
    <3>1. ASSUME NEW j \in t.inUse, Path(t, j) = a PROVE FALSE  BY <1>4, <3>1, ChildAt
    <3>2. QED  BY <3>1
  <2>20. Linked(s)
    <3>1. Path(s, 0) = <<>>  BY <2>17 DEF Sound, Kept, Linked
    <3>2. ASSUME NEW x \in s.inUse, NEW y \in s.inUse, Path(s, x) = Path(s, y)
          PROVE  x = y
      <4>1. \A p, q \in t.inUse : Path(t, p) = Path(t, q) => p = q  BY DEF Sound, Linked
      <4>2. CASE x \in t.inUse /\ y \in t.inUse
        <5>1. Path(t, x) = Path(t, y)  BY <2>17, <3>2, <4>2
        <5>2. QED  BY <4>1, <4>2, <5>1
      <4>3. CASE x \in t.inUse /\ y = n
        <5>1. Path(t, x) = a  BY <2>16, <2>17, <3>2, <4>3
        <5>2. QED  BY <2>19, <4>3, <5>1
      <4>4. CASE x = n /\ y \in t.inUse
        <5>1. Path(t, y) = a  BY <2>16, <2>17, <3>2, <4>4
        <5>2. QED  BY <2>19, <4>4, <5>1
      <4>5. CASE x = n /\ y = n  BY <4>5
      <4>6. QED  BY <2>14, <4>2, <4>3, <4>4, <4>5
    <3>3. Children(t, i) \in [Octants -> Nat]  BY DEF Sound, Linked
    <3>4. Children(s, i)[k] = n /\ \A m \in Octants : m # k => Children(s, i)[m] = Children(t, i)[m]
      BY <2>16, <3>3
    <3>5. \A x \in s.inUse : Children(s, x) \in [Octants -> Nat]
      <4>1. NoChildren \in [Octants -> Nat] /\ Children(s, i) \in [Octants -> Nat]
        BY <2>2, <2>16, <3>3 DEF NoChildren
      <4>2. QED  BY <2>14, <2>16, <2>17, <4>1 DEF Sound, Linked
    <3>6. ASSUME NEW x \in s.inUse, NEW m \in Octants, Children(s, x)[m] # 0
          PROVE  /\ Children(s, x)[m] \in s.inUse /\ Len(Path(s, x)) < Depth
                 /\ Path(s, Children(s, x)[m]) = Append(Path(s, x), m)
      <4>1. CASE x = n  BY <2>16, <3>6, <4>1 DEF NoChildren
      <4>2. CASE x = i /\ m = k  BY <2>14, <2>16, <3>4, <4>2
      <4>3. CASE x \in t.inUse /\ ~(x = i /\ m = k)
        <5>1. Children(s, x)[m] = Children(t, x)[m]  BY <2>17, <3>4, <4>3
        <5>2. /\ Children(t, x)[m] \in t.inUse /\ Len(Path(t, x)) < Depth
              /\ Path(t, Children(t, x)[m]) = Append(Path(t, x), m)
          BY <3>6, <4>3, <5>1 DEF Sound, Linked
        <5>3. QED  BY <2>14, <2>17, <4>3, <5>1, <5>2
      <4>4. QED  BY <2>14, <4>1, <4>2, <4>3
    <3>7. ASSUME NEW j \in s.inUse \ {0}
          PROVE  \E x \in s.inUse, m \in Octants : Children(s, x)[m] = j
      <4>1. CASE j = n  BY <2>14, <3>4, <4>1
      <4>2. CASE j # n
        <5>1. PICK x \in t.inUse, m \in Octants : Children(t, x)[m] = j
          BY <2>14, <4>2 DEF Sound, Linked
        <5>2. x # i \/ m # k  BY <1>4, <5>1
        <5>3. Children(s, x)[m] = j  BY <2>17, <3>4, <5>1, <5>2
        <5>4. QED  BY <2>14, <5>1, <5>3
      <4>3. QED  BY <4>1, <4>2
    <3>8. QED  BY <3>1, <3>2, <3>5, <3>6, <3>7 DEF Linked
  <2>21. Children(s, i)[k] = n
    <3>1. Children(t, i) \in [Octants -> Nat]  BY DEF Sound, Linked
    <3>2. QED  BY <2>16, <3>1
  <2>22. Added(t, s, c, {a}, {})  BY <2>14, <2>16, <2>17, <2>18, <2>20 DEF Added, Sound
  <2>23. QED  BY <2>14, <2>16, <2>21, <2>22
<1>5. QED  BY <1>3, <1>4


(* The regions in p are p and those in its octants, here in the first k.   *)
Upto(b, p, k) == {q \in Regions : \E m \in 1 .. k : IsPrefix(Append(p, m), q) /\ Touches(b, q)}

LEMMA WithinIs ==
  ASSUME NEW b, b \subseteq Leaves, NEW p \in Regions
  PROVE  /\ ~Touches(b, p) => Within(b, p) = {}
         /\ Touches(b, p) => p \in Within(b, p)
         /\ Touches(b, p) /\ Len(p) = Depth => Within(b, p) = {p}
         /\ Touches(b, p) /\ Len(p) < Depth => Within(b, p) = {p} \cup Upto(b, p, Arity)
<1>1. ASSUME ~Touches(b, p) PROVE Within(b, p) = {}  BY <1>1, TouchUp DEF Within
<1>2. ASSUME Touches(b, p) PROVE p \in Within(b, p)  BY <1>2, PrefixOrder DEF Within
<1>3. ASSUME Touches(b, p), Len(p) = Depth PROVE Within(b, p) = {p}
  <2>1. p \in Leaves /\ p \in Within(b, p)  BY <1>2, <1>3, LeavesAre
  <2>2. \A q \in Regions : IsPrefix(p, q) => q = p  BY <2>1, LeavesAre
  <2>3. QED  BY <2>1, <2>2 DEF Within
<1>4. ASSUME Touches(b, p), Len(p) < Depth
      PROVE  Within(b, p) = {p} \cup Upto(b, p, Arity)
  <2>1. Octants = 1 .. Arity  BY DEF Octants
  <2>2. ASSUME NEW q \in Within(b, p) PROVE q \in {p} \cup Upto(b, p, Arity)
    <3>1. q \in Regions /\ IsPrefix(p, q) /\ Touches(b, q)  BY DEF Within
    <3>2. QED  BY <2>1, <3>1, OctantOf DEF Upto
  <2>3. ASSUME NEW q \in Upto(b, p, Arity) PROVE q \in Within(b, p)
    <3>1. PICK m \in Octants : IsPrefix(Append(p, m), q) /\ Touches(b, q) /\ q \in Regions
      BY <2>1 DEF Upto
    <3>2. Append(p, m) \in Regions /\ IsPrefix(p, Append(p, m))  BY <1>4, ChildPath
    <3>3. IsPrefix(p, q)  BY <3>1, <3>2, PrefixOrder
    <3>4. QED  BY <3>1, <3>3 DEF Within
  <2>4. QED  BY <1>2, <1>4, <2>2, <2>3
<1>5. QED  BY <1>1, <1>2, <1>3, <1>4

LEMMA UptoNone ==
  ASSUME NEW b, NEW p
  PROVE  Upto(b, p, 0) = {}
<1>1. 1 .. 0 = {}  OBVIOUS
<1>2. QED  BY <1>1 DEF Upto

LEMMA UptoNext ==
  ASSUME NEW b, NEW p, NEW k \in 1 .. Arity
  PROVE  Upto(b, p, k) = Upto(b, p, k - 1) \cup Within(b, Append(p, k))
<1>1. Arity \in Nat  BY ShapeAssumption
<1>2. \A m : m \in 1 .. k <=> m \in 1 .. k - 1 \/ m = k  BY <1>1
<1>3. QED  BY <1>2 DEF Upto, Within

(* What AddObject does at a node of some depth level.                      *)
AddRight(below, level, c, b) ==
  \A t : \A i \in t.inUse :
    Sound(t) /\ Len(Path(t, i)) = Depth - level /\ Touches(b, Path(t, i)) =>
      LET r == below[<<t, i>>]
      IN /\ r.ok = TRUE
         /\ Added(t, r.tree, c, Within(b, Path(t, i)), Within(b, Path(t, i)))

LEMMA AddChildren ==
  ASSUME NEW c \in Chunks, NEW b, b \subseteq Leaves, NEW level \in 1 .. Depth,
         NEW below, AddRight(below, level - 1, c, b),
         NEW t, Sound(t), NEW i \in t.inUse, Len(Path(t, i)) = Depth - level,
         Touches(b, Path(t, i)) \/ i = 0,
         NEW r, r = AddToChildren(t, i, b, below)
  PROVE  /\ r.ok \in BOOLEAN /\ (r.ok <=> Touches(b, Path(t, i)))
         /\ Added(t, r.tree, c, Upto(b, Path(t, i), Arity), Upto(b, Path(t, i), Arity))
<1> DEFINE p == Path(t, i)
<1>1. Arity \in Nat /\ Depth \in Nat /\ Octants = 1 .. Arity  BY ShapeAssumption DEF Octants
<1>2. p \in Regions /\ Len(p) < Depth
  <2>1. p \in Regions  BY InUse, NodeIs DEF Sound, Kept
  <2>2. Depth - level < Depth  BY <1>1
  <2>3. QED  BY <2>1, <2>2
<1>3. PICK f : /\ f[0] = [tree |-> t, ok |-> FALSE, failed |-> FALSE]
               /\ \A k \in 1 .. Arity : f[k] = AddToChild(f[k - 1], i, k, b, below)
               /\ r = f[Arity]
  BY AddLoop
<1> DEFINE U(k) == Upto(b, p, k)
           Holds(k) == /\ f[k].failed = FALSE
                       /\ f[k].ok \in BOOLEAN
                       /\ f[k].ok <=> \E m \in 1 .. k : Touches(b, Append(p, m))
                       /\ Added(t, f[k].tree, c, U(k), U(k))
           T == {k \in 0 .. Arity : Holds(k)}
<1>4. 0 \in T
  <2>1. Added(t, t, c, {}, {}) /\ U(0) = {}  BY AddedNone, UptoNone
  <2>2. f[0].failed = FALSE /\ f[0].ok = FALSE /\ f[0].tree = t  BY <1>3
  <2>3. 0 \in 0 .. Arity /\ 1 .. 0 = {}  BY <1>1
  <2>4. QED  BY <2>1, <2>2, <2>3
<1>5. ASSUME NEW k \in 1 .. Arity, k - 1 \in T PROVE k \in T
  <2> DEFINE x == f[k - 1]
             a == Append(p, k)
  <2>1. Holds(k - 1) /\ f[k] = AddToChild(x, i, k, b, below)  BY <1>3, <1>5
  <2>2. Sound(x.tree) /\ i \in x.tree.inUse /\ Path(x.tree, i) = p  BY <2>1 DEF Added
  <2>3. k \in Octants /\ k \in 0 .. Arity /\ U(k) = U(k - 1) \cup Within(b, a)
        /\ \A m : m \in 1 .. k <=> m \in 1 .. k - 1 \/ m = k
    <3>1. k \in Octants /\ k \in 0 .. Arity /\ \A m : m \in 1 .. k <=> m \in 1 .. k - 1 \/ m = k
      BY <1>1
    <3>2. Upto(b, p, k) = Upto(b, p, k - 1) \cup Within(b, Append(p, k))  BY UptoNext
    <3>3. QED  BY <3>1, <3>2
  <2>4. a \in Regions /\ Len(a) = Len(p) + 1  BY <1>2, <2>3, ChildPath
  <2>5. CASE ~Touches(b, a)
    <3>1. f[k] = x  BY <2>1, <2>2, <2>5 DEF AddToChild
    <3>2. U(k) = U(k - 1)  BY <2>3, <2>4, <2>5, WithinIs
    <3>3. Holds(k)  BY <2>1, <2>3, <2>5, <3>1, <3>2
    <3>4. QED  BY <2>3, <3>3
  <2>6. CASE Touches(b, a)
    <3> DEFINE s == EnsureChild(x.tree, i, k)
               j == Children(s, i)[k]
               y == below[<<s, j>>]
    <3>1. f[k] = [tree |-> y.tree, ok |-> y.ok, failed |-> ~y.ok]
      BY <2>1, <2>2, <2>6 DEF AddToChild
    <3>2. j \in s.inUse /\ Path(s, j) = a /\ Added(x.tree, s, c, {a}, {})
      <4>1. Len(Path(x.tree, i)) < Depth  BY <1>2, <2>2
      <4> DEFINE z == x.tree
      <4>2. Sound(z) /\ i \in z.inUse /\ Len(Path(z, i)) < Depth /\ k \in Octants  BY <2>2, <2>3, <4>1
      <4>3. s = EnsureChild(z, i, k)  OBVIOUS
      <4> HIDE DEF z
      <4>4. \A e : e = EnsureChild(z, i, k) =>
              /\ Children(e, i)[k] \in e.inUse
              /\ Path(e, Children(e, i)[k]) = Append(Path(z, i), k)
              /\ Added(z, e, c, {Append(Path(z, i), k)}, {})
        BY <4>2, EnsureIs
      <4>5. Path(z, i) = p  BY <2>2 DEF z
      <4>6. QED  BY <4>3, <4>4, <4>5 DEF z
    <3> HIDE DEF s, j, y
    <3>3. Len(a) = Depth - (level - 1)
      <4>1. Len(p) = Depth - level  OBVIOUS
      <4>2. QED  BY <1>1, <2>4, <4>1
    <3>4. y.ok = TRUE /\ Added(s, y.tree, c, Within(b, a), Within(b, a))
      <4>1. Sound(s)  BY <3>2 DEF Added
      <4>2. Len(Path(s, j)) = Depth - (level - 1) /\ Touches(b, Path(s, j))  BY <2>6, <3>2, <3>3
      <4>3. LET r2 == below[<<s, j>>]
            IN r2.ok = TRUE /\ Added(s, r2.tree, c, Within(b, Path(s, j)), Within(b, Path(s, j)))
        BY <3>2, <4>1, <4>2 DEF AddRight
      <4>4. QED  BY <3>2, <4>3 DEF y
    <3>5. Added(t, s, c, U(k - 1) \cup {a}, U(k - 1) \cup {})  BY <2>1, <3>2, AddedBoth
    <3>6. Added(t, y.tree, c, (U(k - 1) \cup {a}) \cup Within(b, a), (U(k - 1) \cup {}) \cup Within(b, a))
      BY <3>4, <3>5, AddedBoth
    <3>7. (U(k - 1) \cup {a}) \cup Within(b, a) = U(k) /\ (U(k - 1) \cup {}) \cup Within(b, a) = U(k)
      <4>1. a \in Within(b, a)  BY <2>4, <2>6, WithinIs
      <4> HIDE DEF U
      <4>2. QED  BY <2>3, <4>1
    <3>8. Added(t, y.tree, c, U(k), U(k))  BY <3>6, <3>7
    <3>9. \E m \in 1 .. k : Touches(b, Append(p, m))  BY <2>3, <2>6
    <3>10. f[k] = [tree |-> y.tree, ok |-> TRUE, failed |-> FALSE]
      <4>1. (~y.ok) = FALSE  BY <3>4
      <4>2. QED  BY <3>1, <3>4, <4>1
    <3>11. f[k].failed = FALSE /\ f[k].ok = TRUE /\ f[k].tree = y.tree  BY <3>10
    <3> HIDE DEF U
    <3>12. Holds(k)  BY <3>8, <3>9, <3>11
    <3>13. QED  BY <2>3, <3>12
  <2>7. QED  BY <2>5, <2>6
<1>6. Arity \in T
  <2> HIDE DEF T
  <2>1. \A k \in 0 .. Arity : k \in T  BY <1>1, <1>4, <1>5, TurnByTurn
  <2>2. QED  BY <1>1, <2>1
<1>7. r.ok \in BOOLEAN /\ (r.ok <=> Touches(b, p))
  <2>1. r.ok \in BOOLEAN /\ (r.ok <=> \E m \in Octants : Touches(b, Append(p, m)))  BY <1>1, <1>3, <1>6
  <2>2. Touches(b, p) => \E m \in Octants : Touches(b, Append(p, m))  BY <1>2, TouchDown
  <2>3. ASSUME NEW m \in Octants, Touches(b, Append(p, m)) PROVE Touches(b, p)
    <3>1. Append(p, m) \in Regions /\ IsPrefix(p, Append(p, m))  BY <1>2, ChildPath
    <3>2. QED  BY <1>2, <2>3, <3>1, TouchUp
  <2>4. QED  BY <2>1, <2>2, <2>3
<1>8. Added(t, r.tree, c, U(Arity), U(Arity))  BY <1>3, <1>6
<1>9. QED  BY <1>7, <1>8

(* At a node of every depth level: the node gets the object too.           *)
LEMMA AddAt ==
  ASSUME NEW c \in Chunks, NEW b, b \subseteq Leaves, NEW level \in 1 .. Depth,
         NEW below, AddRight(below, level - 1, c, b)
  PROVE  AddRight(AddAbove(c, b, below), level, c, b)
<1> SUFFICES ASSUME NEW t, NEW i \in t.inUse, Sound(t), Len(Path(t, i)) = Depth - level,
                    Touches(b, Path(t, i)),
                    NEW r, r = AddAbove(c, b, below)[<<t, i>>]
             PROVE  r.ok = TRUE /\ Added(t, r.tree, c, Within(b, Path(t, i)), Within(b, Path(t, i)))
  BY DEF AddRight
<1> DEFINE p == Path(t, i)
           x == AddToChildren(t, i, b, below)
<1>1. Depth \in Nat  BY ShapeAssumption
<1>2. p \in Regions /\ Len(p) < Depth /\ <<t, i>> \in Calls
  <2>1. p \in Regions /\ i \in Nat /\ t \in Trees  BY InUse, NodeIs DEF Sound, Kept
  <2>2. Depth - level < Depth  BY <1>1
  <2>3. QED  BY <2>1, <2>2 DEF Calls
<1>3. x.ok /\ Added(t, x.tree, c, Upto(b, p, Arity), Upto(b, p, Arity))  BY AddChildren
<1>4. r = [tree |-> IF x.ok THEN Insert(x.tree, i, c) ELSE x.tree, ok |-> x.ok]
  BY <1>2 DEF AddAbove
<1> HIDE DEF x
<1>5. r.ok = TRUE /\ r.tree = Insert(x.tree, i, c)  BY <1>3, <1>4
<1>6. Sound(x.tree) /\ i \in x.tree.inUse /\ Path(x.tree, i) = p  BY <1>3 DEF Added
<1>7. Added(x.tree, r.tree, c, {}, {p})  BY <1>5, <1>6, InsertIs
<1>8. Added(t, r.tree, c, Upto(b, p, Arity) \cup {}, Upto(b, p, Arity) \cup {p})
  BY <1>3, <1>7, AddedBoth
<1>9. Within(b, p) = {p} \cup Upto(b, p, Arity)  BY <1>2, WithinIs
<1>10. Added(t, r.tree, c, Within(b, p), Within(b, p))
  <2>1. i \in r.tree.inUse /\ Path(r.tree, i) = p /\ i \in t.inUse  BY <1>8 DEF Added
  <2>2. QED  BY <1>8, <1>9, <2>1 DEF Added
<1>11. QED  BY <1>5, <1>10

LEMMA AddedAtLeaf ==
  ASSUME NEW c \in Chunks, NEW b, b \subseteq Leaves
  PROVE  AddRight(AddAtLeaf(c), 0, c, b)
<1> SUFFICES ASSUME NEW t, NEW i \in t.inUse, Sound(t), Len(Path(t, i)) = Depth - 0,
                    Touches(b, Path(t, i)),
                    NEW r, r = AddAtLeaf(c)[<<t, i>>]
             PROVE  r.ok = TRUE /\ Added(t, r.tree, c, Within(b, Path(t, i)), Within(b, Path(t, i)))
  BY DEF AddRight
<1> DEFINE p == Path(t, i)
<1>1. Depth \in Nat  BY ShapeAssumption
<1>2. p \in Regions /\ Len(p) = Depth /\ <<t, i>> \in Calls
  BY <1>1, InUse, NodeIs DEF Sound, Kept, Calls
<1>3. r = [tree |-> Insert(t, i, c), ok |-> TRUE]  BY <1>2 DEF AddAtLeaf
<1>4. Added(t, r.tree, c, {}, {p})  BY <1>3, InsertIs
<1>5. Within(b, p) = {p}  BY <1>2, WithinIs
<1>6. Added(t, r.tree, c, {p}, {p})
  <2>1. i \in r.tree.inUse /\ Path(r.tree, i) = p  BY <1>4 DEF Added
  <2>2. QED  BY <1>4, <2>1 DEF Added
<1>7. QED  BY <1>3, <1>5, <1>6

(* AddObject, whatever the box: the chunk comes to the nodes of all        *)
(* regions its box touches, and no others.                                 *)
LEMMA AddObjectIs ==
  ASSUME NEW t, Sound(t), NEW c \in Chunks, NEW b, b \subseteq Leaves
  PROVE  Added(t, AddObject(t, c, b), c, Within(b, <<>>), Within(b, <<>>))
<1>1. Depth \in Nat \ {0}  BY ShapeAssumption
<1>2. PICK f : /\ f[0] = AddAtLeaf(c)
               /\ \A level \in 1 .. Depth : f[level] = AddAbove(c, b, f[level - 1])
               /\ AddObject(t, c, b) = f[Depth][<<t, 0>>].tree
  BY AddCalls
<1> DEFINE T == {level \in 0 .. Depth : AddRight(f[level], level, c, b)}
<1>3. 0 \in T  BY <1>1, <1>2, AddedAtLeaf
<1>4. ASSUME NEW level \in 1 .. Depth, level - 1 \in T PROVE level \in T
  BY <1>1, <1>2, <1>4, AddAt
<1>5. \A level \in 0 .. Depth : level \in T
  <2> HIDE DEF T
  <2>1. QED  BY <1>1, <1>3, <1>4, TurnByTurn
<1>6. 0 \in t.inUse /\ Path(t, 0) = <<>> /\ <<>> \in Regions /\ Len(<<>>) = 0
  BY InUse, NodeIs DEF Sound, Kept, Linked
<1>7. CASE Touches(b, <<>>)
  <2>1. AddRight(f[Depth], Depth, c, b)  BY <1>1, <1>5
  <2>2. Len(Path(t, 0)) = Depth - Depth  BY <1>1, <1>6
  <2>3. QED  BY <1>2, <1>6, <1>7, <2>1, <2>2 DEF AddRight
<1>8. CASE ~Touches(b, <<>>)
  <2>1. AddRight(f[Depth - 1], Depth - 1, c, b) /\ f[Depth] = AddAbove(c, b, f[Depth - 1])
    BY <1>1, <1>2, <1>5
  <2> DEFINE x == AddToChildren(t, 0, b, f[Depth - 1])
  <2>2. ~x.ok /\ Added(t, x.tree, c, Upto(b, <<>>, Arity), Upto(b, <<>>, Arity))
    <3>1. Len(Path(t, 0)) = Depth - Depth /\ Depth \in 1 .. Depth  BY <1>1, <1>6
    <3>2. QED  BY <1>6, <1>8, <2>1, <3>1, AddChildren
  <2> HIDE DEF x
  <2>3. <<t, 0>> \in Calls  BY DEF Sound, Kept, Calls
  <2>4. AddObject(t, c, b) = x.tree  BY <1>2, <2>1, <2>2, <2>3 DEF AddAbove, x
  <2>5. Within(b, <<>>) = {}  BY <1>6, <1>8, WithinIs
  <2>6. Upto(b, <<>>, Arity) = {}
    <3>1. ASSUME NEW q \in Regions, Touches(b, q) PROVE FALSE
      BY <1>6, <1>8, <3>1, PrefixOrder, TouchUp
    <3>2. QED  BY <3>1 DEF Upto
  <2>7. QED  BY <2>2, <2>4, <2>5, <2>6
<1>9. QED  BY <1>7, <1>8

-----------------------------------------------------------------------------
(* Removing.  u is t without c in the nodes of E, and without the nodes of  *)
(* P that held nothing else.                                               *)
Removed(t, u, c, E, P) ==
  /\ Sound(u)
  /\ u.inUse = {i \in t.inUse : ~(Path(t, i) \in P /\ Objects(t, i) \subseteq {c})}
  /\ \A i \in u.inUse : /\ Path(u, i) = Path(t, i)
                        /\ Objects(u, i) = Objects(t, i) \ {x \in {c} : Path(t, i) \in E}

LEMMA RemovedBoth ==
  ASSUME NEW t, NEW u, NEW v, NEW c, NEW E, NEW P, NEW F, NEW Q,
         Removed(t, u, c, E, P), Removed(u, v, c, F, Q)
  PROVE  Removed(t, v, c, E \cup F, P \cup Q)
<1>1. \A i \in u.inUse : /\ i \in t.inUse /\ Path(u, i) = Path(t, i)
                         /\ Objects(u, i) = Objects(t, i) \ {x \in {c} : Path(t, i) \in E}
  BY DEF Removed
<1>2. \A i \in u.inUse : Objects(u, i) \subseteq {c} <=> Objects(t, i) \subseteq {c}
  BY <1>1
<1>3. \A i : i \in u.inUse <=> i \in t.inUse /\ ~(Path(t, i) \in P /\ Objects(t, i) \subseteq {c})
  BY DEF Removed
<1>4. \A i : i \in v.inUse <=> i \in u.inUse /\ ~(Path(u, i) \in Q /\ Objects(u, i) \subseteq {c})
  BY DEF Removed
<1>5. v.inUse = {i \in t.inUse : ~(Path(t, i) \in P \cup Q /\ Objects(t, i) \subseteq {c})}
  BY <1>1, <1>2, <1>3, <1>4
<1>6. ASSUME NEW i \in v.inUse
      PROVE  /\ Path(v, i) = Path(t, i)
             /\ Objects(v, i) = Objects(t, i) \ {x \in {c} : Path(t, i) \in E \cup F}
  <2>1. i \in u.inUse /\ Path(v, i) = Path(u, i) /\ Path(u, i) = Path(t, i)  BY <1>1, <1>4 DEF Removed
  <2>2. Objects(v, i) = Objects(u, i) \ {x \in {c} : Path(t, i) \in F}  BY <2>1 DEF Removed
  <2>3. Objects(u, i) = Objects(t, i) \ {x \in {c} : Path(t, i) \in E}  BY <1>1, <2>1
  <2>4. QED  BY <2>1, <2>2, <2>3
<1>7. QED  BY <1>5, <1>6 DEF Removed

(* A node and its octant overlap with none of the octants before.          *)
LEMMA OctantsApart ==
  ASSUME NEW p \in Regions, Len(p) < Depth, NEW b, NEW k \in 1 .. Arity
  PROVE  /\ p \notin Upto(b, p, Arity) /\ p \notin Upto(b, p, k - 1)
         /\ \A q \in Regions : IsPrefix(Append(p, k), q) => q # p /\ q \notin Upto(b, p, k - 1)
<1>1. Octants = 1 .. Arity /\ Arity \in Nat  BY ShapeAssumption DEF Octants
<1>2. \A m \in 1 .. k - 1 : m \in Octants /\ m # k  BY <1>1
<1>3. \A m \in Octants : /\ Append(p, m) \in Regions /\ IsPrefix(p, Append(p, m))
                         /\ ~IsPrefix(Append(p, m), p)
  BY ChildPath
<1>4. p \notin Upto(b, p, Arity) /\ p \notin Upto(b, p, k - 1)  BY <1>1, <1>2, <1>3 DEF Upto
<1>5. ASSUME NEW q \in Regions, IsPrefix(Append(p, k), q) PROVE q # p /\ q \notin Upto(b, p, k - 1)
  <2>1. q # p  BY <1>1, <1>3, <1>5
  <2>2. IsPrefix(p, q)  BY <1>1, <1>3, <1>5, PrefixOrder
  <2>3. \A m \in Octants : IsPrefix(Append(p, m), q) => m = k  BY <1>1, <1>5, <2>1, <2>2, OctantOf
  <2>4. QED  BY <1>2, <2>1, <2>3 DEF Upto
<1>6. QED  BY <1>4, <1>5

LEMMA ErasedIs ==
  ASSUME NEW t, Sound(t), NEW i \in t.inUse, NEW c
  PROVE  /\ Removed(t, Erased(t, i, c).tree, c, {Path(t, i)}, {})
         /\ Erased(t, i, c).ok = (c \in Objects(t, i))
         /\ c \notin Objects(t, i) => Erased(t, i, c).tree = t
<1> DEFINE old == t.pool[i + 1]
           n == [old EXCEPT !.objects = @ \ {c}]
           u == Erased(t, i, c).tree
<1>1. t \in Trees /\ i \in 0 .. Len(t.pool) - 1 /\ i + 1 \in 1 .. Len(t.pool)
  BY InUse DEF Sound, Kept
<1>2. old \in Node  BY <1>1, NodeIs
<1>3. /\ n \in Node /\ n.path = old.path /\ n.children = old.children
      /\ n.objects = old.objects \ {c}
  BY <1>2 DEF Node
<1>4. u = [t EXCEPT !.pool[i + 1] = n] /\ Erased(t, i, c).ok = (c \in Objects(t, i))
  BY DEF Erased
<1> HIDE DEF u
<1>5. ASSUME c \notin Objects(t, i) PROVE u = t
  <2>1. old.objects \ {c} = old.objects  BY <1>5 DEF Objects
  <2>2. n = old
    <3>1. old = [path |-> old.path, children |-> old.children, objects |-> old.objects]
      BY <1>2 DEF Node
    <3> HIDE DEF old
    <3>2. \A a, m, o : [[path |-> a, children |-> m, objects |-> o] EXCEPT !.objects = @ \ {c}] =
                         [path |-> a, children |-> m, objects |-> o \ {c}]
      OBVIOUS
    <3>3. n = [path |-> old.path, children |-> old.children, objects |-> old.objects \ {c}]
      BY <3>1, <3>2
    <3> HIDE DEF n
    <3>4. QED  BY <2>1, <3>1, <3>3
  <2>3. t = [pool |-> t.pool, inUse |-> t.inUse, available |-> t.available] /\ t.pool \in Seq(Node)
    BY <1>1 DEF Trees
  <2> HIDE DEF n
  <2>4. [t.pool EXCEPT ![i + 1] = n] = t.pool  BY <1>1, <2>2, <2>3
  <2>5. u = [pool |-> [t.pool EXCEPT ![i + 1] = n], inUse |-> t.inUse, available |-> t.available]
    BY <1>4, <2>3
  <2>6. QED  BY <2>3, <2>4, <2>5
<1> HIDE DEF n
<1>6. /\ u \in Trees /\ u.inUse = t.inUse /\ u.available = t.available
      /\ Len(u.pool) = Len(t.pool) /\ u.pool[i + 1] = n
      /\ \A j \in 0 .. Len(t.pool) - 1 : j # i => u.pool[j + 1] = t.pool[j + 1]
  BY <1>1, <1>3, <1>4, Written
<1>7. \A j \in 0 .. Len(t.pool) - 1 : Path(u, j) = Path(t, j) /\ Children(u, j) = Children(t, j)
  BY <1>3, <1>6 DEF Path, Children
<1>8. \A j \in t.inUse : j \in 0 .. Len(t.pool) - 1  BY InUse DEF Sound
<1>9. Kept(u)
  <2>1. \A j \in ToSet(t.available) : j \in 0 .. Len(t.pool) - 1  BY DEF Sound, Kept
  <2>2. \A j \in ToSet(u.available) : Children(u, j) \in {<<>>, NoChildren}
    BY <1>6, <1>7, <2>1 DEF Sound, Kept
  <2>3. QED  BY <1>6, <2>2 DEF Sound, Kept
<1>10. Linked(u)
  <2>1. 0 \in t.inUse  BY DEF Sound, Kept
  <2>2. \A j \in u.inUse : j \in t.inUse /\ Path(u, j) = Path(t, j) /\ Children(u, j) = Children(t, j)
    BY <1>6, <1>7, <1>8
  <2>3. \A j \in t.inUse : j \in u.inUse  BY <1>6
  <2>4. QED  BY <2>1, <2>2, <2>3 DEF Sound, Linked
<1>11. \A j \in t.inUse : j # i => Path(t, j) # Path(t, i)  BY DEF Sound, Linked
<1>12. ASSUME NEW j \in t.inUse
       PROVE  Objects(u, j) = Objects(t, j) \ {x \in {c} : Path(t, j) \in {Path(t, i)}}
  <2>1. CASE j = i  BY <1>3, <1>6, <2>1 DEF Objects
  <2>2. CASE j # i
    <3>1. Objects(u, j) = Objects(t, j)  BY <1>6, <1>8, <2>2 DEF Objects
    <3>2. QED  BY <1>11, <2>2, <3>1
  <2>3. QED  BY <2>1, <2>2
<1>13. u.inUse = {j \in t.inUse : ~(Path(t, j) \in {} /\ Objects(t, j) \subseteq {c})}  BY <1>6
<1>14. \A j \in u.inUse : j \in t.inUse /\ Path(u, j) = Path(t, j)  BY <1>6, <1>7, <1>8
<1>15. Removed(t, u, c, {Path(t, i)}, {})
  BY <1>9, <1>10, <1>12, <1>13, <1>14 DEF Removed, Sound
<1>16. QED  BY <1>4, <1>5, <1>15 DEF u


(* A child is pruned when it holds nothing; it must have no children then.  *)
LEMMA PruneIs ==
  ASSUME NEW u, Sound(u), NEW i \in u.inUse, NEW k \in Octants, NEW c,
         NEW j, j = Children(u, i)[k], j # 0, c \notin Objects(u, j),
         Objects(u, j) = {} => \A m \in Octants : Children(u, j)[m] = 0
  PROVE  Removed(u, PruneChild(u, i, k), c, {}, {Append(Path(u, i), k)})
<1> DEFINE a == Append(Path(u, i), k)
           v == PruneChild(u, i, k)
<1>1. j \in u.inUse /\ Path(u, j) = a /\ Len(Path(u, i)) < Depth  BY DEF Sound, Linked
<1>2. /\ u \in Trees /\ i \in 0 .. Len(u.pool) - 1 /\ j \in 0 .. Len(u.pool) - 1 /\ j \in Nat
      /\ Path(u, i) \in Regions
  BY <1>1, InUse, NodeIs DEF Sound, Kept
<1>3. j # i
  <2>1. IsPrefix(Path(u, i), Path(u, i)) /\ ~IsPrefix(a, Path(u, i))
    BY <1>1, <1>2, PrefixOrder, ChildPath
  <2>2. QED  BY <1>1, <2>1
<1>4. \A m \in u.inUse : Path(u, m) = a <=> m = j  BY <1>1 DEF Sound, Linked
<1>5. CASE Objects(u, j) # {}
  <2>1. v = u  BY <1>5 DEF PruneChild
  <2>2. ~(Objects(u, j) \subseteq {c})  BY <1>5
  <2>3. u.inUse = {m \in u.inUse : ~(Path(u, m) \in {a} /\ Objects(u, m) \subseteq {c})}
    BY <1>4, <2>2
  <2>4. Removed(u, u, c, {}, {a})  BY <2>3 DEF Removed
  <2>5. QED  BY <2>1, <2>4
<1>6. CASE Objects(u, j) = {}
  <2> DEFINE X == [EmptyNode EXCEPT !.children = <<>>]
             w == [u EXCEPT !.pool[j + 1] = X]
             d == DeleteNode(w, j)
             old == u.pool[i + 1]
             N == [old EXCEPT !.children[k] = 0]
  <2>1. Children(u, j) = NoChildren
    <3>1. Children(u, j) \in [Octants -> Nat]  BY <1>1 DEF Sound, Linked
    <3>2. QED  BY <1>6, <3>1 DEF NoChildren
  <2>2. DropChildren(u, Children(u, j)) = u  BY <2>1, NothingToDrop
  <2>3. ReleaseNode(u, j) = w  BY <2>2 DEF ReleaseNode
  <2>4. v = [d EXCEPT !.pool[i + 1].children[k] = 0]  BY <1>6, <2>3 DEF PruneChild
  <2>5. X \in Node /\ X.children = <<>>
    <3>1. <<>> \in Regions  BY <1>2, PrefixOrder
    <3>2. QED  BY <3>1, EmptyNodeIs
  <2> HIDE DEF X, w
  <2>6. /\ w \in Trees /\ w.inUse = u.inUse /\ w.available = u.available
        /\ Len(w.pool) = Len(u.pool) /\ w.pool[j + 1] = X
        /\ \A m \in 0 .. Len(u.pool) - 1 : m # j => w.pool[m + 1] = u.pool[m + 1]
    BY <1>2, <2>5, Written DEF w
  <2>7. d = [w EXCEPT !.inUse = @ \ {j}, !.available = Append(@, j)]
    BY <1>1, <2>6 DEF DeleteNode
  <2> HIDE DEF d
  <2>8. /\ d.pool = w.pool /\ d.inUse = u.inUse \ {j} /\ d.available = Append(u.available, j)
        /\ d = [pool |-> d.pool, inUse |-> d.inUse, available |-> d.available]
    BY <2>6, <2>7 DEF Trees
  <2>9. u.available \in Seq(Nat) /\ IsInjective(u.available) /\ j \notin ToSet(u.available)
    BY <1>1 DEF Sound, Kept, Trees
  <2>10. /\ d.available \in Seq(Nat) /\ IsInjective(d.available)
         /\ ToSet(d.available) = ToSet(u.available) \cup {j}
    BY <1>2, <2>8, <2>9, PushIs
  <2>11. d \in Trees
    <3>1. d.pool \in Seq(Node) /\ d.inUse \in SUBSET Nat  BY <2>6, <2>8 DEF Trees
    <3>2. [pool |-> d.pool, inUse |-> d.inUse, available |-> d.available] \in Trees
      BY <2>10, <3>1 DEF Trees
    <3>3. QED  BY <2>8, <3>2
  <2>12. d.pool[i + 1] = old  BY <1>2, <1>3, <2>6, <2>8
  <2>13. old \in Node /\ old.children \in [Octants -> Nat]
    BY <1>2, NodeIs DEF Sound, Linked, Children
  <2>14. v = [d EXCEPT !.pool[i + 1] = N]  BY <2>4, <2>12
  <2>15. /\ N \in Node /\ N.path = old.path /\ N.objects = old.objects
         /\ N.children = [old.children EXCEPT ![k] = 0]
    <3>1. [old.children EXCEPT ![k] = 0] \in [Octants -> Nat]  BY <2>13
    <3>2. old = [path |-> old.path, children |-> old.children, objects |-> old.objects]
      BY <2>13 DEF Node
    <3>3. \A a1, m, o : [[path |-> a1, children |-> m, objects |-> o] EXCEPT !.children[k] = 0] =
                          [path |-> a1, children |-> [m EXCEPT ![k] = 0], objects |-> o]
      OBVIOUS
    <3>4. N = [path |-> old.path, children |-> [old.children EXCEPT ![k] = 0], objects |-> old.objects]
      <4> HIDE DEF old
      <4>1. QED  BY <3>2, <3>3
    <3> HIDE DEF N, old
    <3>5. QED  BY <2>13, <3>1, <3>4 DEF Node
  <2> HIDE DEF v, N
  <2>16. Len(d.pool) = Len(u.pool)  BY <2>6, <2>8
  <2>17. /\ v \in Trees /\ v.inUse = d.inUse /\ v.available = d.available
         /\ Len(v.pool) = Len(d.pool) /\ v.pool[i + 1] = N
         /\ \A m \in 0 .. Len(d.pool) - 1 : m # i => v.pool[m + 1] = d.pool[m + 1]
    <3>1. i \in 0 .. Len(d.pool) - 1  BY <1>2, <2>16
    <3>2. QED  BY <2>11, <2>14, <2>15, <3>1, Written
  <2>18. \A m \in 0 .. Len(u.pool) - 1 : m # i /\ m # j => v.pool[m + 1] = u.pool[m + 1]
    BY <2>6, <2>8, <2>16, <2>17
  <2>19. v.pool[j + 1] = X  BY <1>2, <1>3, <2>6, <2>8, <2>16, <2>17
  <2>20. \A m \in u.inUse : m \in 0 .. Len(u.pool) - 1  BY InUse DEF Sound
  <2>21. /\ Path(v, i) = Path(u, i) /\ Objects(v, i) = Objects(u, i)
         /\ Children(v, i) = [Children(u, i) EXCEPT ![k] = 0]
    BY <2>15, <2>17 DEF Path, Objects, Children
  <2>22. \A m \in v.inUse : /\ m \in u.inUse /\ m # j
                            /\ Path(v, m) = Path(u, m) /\ Objects(v, m) = Objects(u, m)
                            /\ m # i => Children(v, m) = Children(u, m)
    <3>1. \A m \in v.inUse : m \in u.inUse /\ m # j  BY <2>8, <2>17
    <3>2. QED  BY <2>18, <2>20, <2>21, <3>1 DEF Path, Objects, Children
  <2>23. Kept(v)
    <3>1. v.inUse \cap ToSet(v.available) = {}  BY <2>8, <2>10, <2>17 DEF Sound, Kept
    <3>2. v.inUse \cup ToSet(v.available) = 0 .. Len(v.pool) - 1
      BY <1>1, <2>8, <2>10, <2>16, <2>17 DEF Sound, Kept
    <3>3. 0 \in v.inUse  BY <2>8, <2>17 DEF Sound, Kept
    <3>4. ASSUME NEW m \in ToSet(v.available) PROVE Children(v, m) \in {<<>>, NoChildren}
      <4>1. CASE m = j  BY <2>5, <2>19, <4>1 DEF Children
      <4>2. CASE m # j
        <5>1. m \in ToSet(u.available) /\ m \notin u.inUse /\ m \in 0 .. Len(u.pool) - 1
          BY <2>10, <2>17, <4>2 DEF Sound, Kept
        <5>2. v.pool[m + 1] = u.pool[m + 1]  BY <2>18, <4>2, <5>1
        <5>3. QED  BY <5>1, <5>2 DEF Sound, Kept, Children
      <4>3. QED  BY <4>1, <4>2
    <3>5. QED  BY <2>10, <2>17, <3>1, <3>2, <3>3, <3>4 DEF Kept
  <2>24. Linked(v)
    <3>1. Path(v, 0) = <<>>  BY <2>22, <2>23 DEF Kept, Sound, Linked
    <3>2. \A x, y \in v.inUse : Path(v, x) = Path(v, y) => x = y  BY <2>22 DEF Sound, Linked
    <3>3. Children(u, i) \in [Octants -> Nat]  BY DEF Sound, Linked
    <3>4. /\ Children(v, i)[k] = 0 /\ Children(v, i) \in [Octants -> Nat]
          /\ \A m \in Octants : m # k => Children(v, i)[m] = Children(u, i)[m]
      BY <2>21, <3>3
    <3>5. \A x \in v.inUse : Children(v, x) \in [Octants -> Nat]  BY <2>22, <3>4 DEF Sound, Linked
    <3>6. ASSUME NEW x \in v.inUse, NEW m \in Octants, Children(v, x)[m] # 0
          PROVE  /\ Children(v, x)[m] \in v.inUse /\ Len(Path(v, x)) < Depth
                 /\ Path(v, Children(v, x)[m]) = Append(Path(v, x), m)
      <4> DEFINE y == Children(v, x)[m]
      <4>1. x \in u.inUse /\ x # j /\ Path(v, x) = Path(u, x)  BY <2>22
      <4>2. y = Children(u, x)[m] /\ (x # i \/ m # k)  BY <2>22, <3>4, <3>6
      <4>3. y \in u.inUse /\ Len(Path(u, x)) < Depth /\ Path(u, y) = Append(Path(u, x), m)
        BY <3>6, <4>1, <4>2 DEF Sound, Linked
      <4>4. y # j
        <5>1. SUFFICES ASSUME y = j PROVE FALSE  OBVIOUS
        <5>2. Append(Path(u, x), m) = a  BY <1>1, <4>3, <5>1
        <5>3. Path(u, x) \in Regions /\ Path(u, i) \in Regions
          BY <4>1, <1>2, InUse, NodeIs DEF Sound, Kept
        <5> DEFINE p == Path(u, x)
                   q == Path(u, i)
        <5>4. p \in Regions /\ q \in Regions /\ Len(p) < Depth /\ Append(p, m) = Append(q, k)
          BY <4>3, <5>2, <5>3
        <5> HIDE DEF p, q
        <5>5. p = q /\ m = k  BY <5>4, ChildPath
        <5>6. Path(u, x) = Path(u, i)  BY <5>5 DEF p, q
        <5>7. x = i  BY <4>1, <5>6 DEF Sound, Linked
        <5>8. QED  BY <4>2, <5>5, <5>7
      <4>5. y \in v.inUse  BY <2>8, <2>17, <4>3, <4>4
      <4>6. QED  BY <2>22, <4>1, <4>3, <4>5
    <3>7. ASSUME NEW y \in v.inUse \ {0}
          PROVE  \E x \in v.inUse, m \in Octants : Children(v, x)[m] = y
      <4>1. y \in u.inUse \ {0} /\ y # j  BY <2>22
      <4>2. PICK x \in u.inUse, m \in Octants : Children(u, x)[m] = y  BY <4>1 DEF Sound, Linked
      <4>3. x # j  BY <1>6, <4>1, <4>2
      <4>4. x \in v.inUse  BY <2>8, <2>17, <4>3
      <4>5. x # i \/ m # k  BY <4>1, <4>2
      <4>6. Children(v, x)[m] = y  BY <2>22, <3>4, <4>2, <4>4, <4>5
      <4>7. QED  BY <4>4, <4>6
    <3>8. QED  BY <3>1, <3>2, <3>5, <3>6, <3>7 DEF Linked
  <2>25. v.inUse = {m \in u.inUse : ~(Path(u, m) \in {a} /\ Objects(u, m) \subseteq {c})}
    <3>1. v.inUse = u.inUse \ {j}  BY <2>8, <2>17
    <3>2. Objects(u, j) \subseteq {c}  BY <1>6
    <3>3. QED  BY <1>1, <1>4, <3>1, <3>2
  <2>26. Removed(u, v, c, {}, {a})  BY <2>22, <2>23, <2>24, <2>25 DEF Removed, Sound
  <2>27. QED  BY <2>26 DEF v
<1>7. QED  BY <1>5, <1>6

(* The chunk is where its box puts it, below p: what RemoveObject relies on. *)
Holding(t, b, c, p) ==
  /\ \A i \in t.inUse : IsPrefix(p, Path(t, i)) => (c \in Objects(t, i) <=> Touches(b, Path(t, i)))
  /\ \A q \in Within(b, p) : \E i \in t.inUse : Path(t, i) = q
  /\ \A i, j \in t.inUse : IsPrefix(p, Path(t, i)) /\ IsPrefix(Path(t, i), Path(t, j))
                             => Objects(t, j) \subseteq Objects(t, i)
  /\ \A i \in t.inUse : IsPrefix(p, Path(t, i)) /\ Path(t, i) # <<>> => Objects(t, i) # {}

(* It still is, below an octant that has not had its turn.                 *)
LEMMA HoldingBelow ==
  ASSUME NEW t, Sound(t), NEW p \in Regions, Len(p) < Depth, NEW b, b \subseteq Leaves, NEW c,
         Holding(t, b, c, p), NEW k \in 1 .. Arity, NEW u,
         Removed(t, u, c, {p} \cup Upto(b, p, k - 1), Upto(b, p, k - 1))
  PROVE  Holding(u, b, c, Append(p, k))
<1> DEFINE a == Append(p, k)
<1>1. a \in Regions /\ IsPrefix(p, a) /\ k \in Octants
  <2>1. k \in Octants  BY DEF Octants
  <2>2. QED  BY <2>1, ChildPath
<1>2. \A q \in Regions : IsPrefix(a, q) => q # p /\ q \notin Upto(b, p, k - 1)  BY OctantsApart
<1>3. \A q \in Regions : IsPrefix(a, q) => IsPrefix(p, q)
  <2>1. SUFFICES ASSUME NEW q \in Regions, IsPrefix(a, q) PROVE IsPrefix(p, q)  OBVIOUS
  <2> HIDE DEF a
  <2>2. QED  BY <1>1, <2>1, PrefixOrder
<1>4. \A i \in t.inUse : Path(t, i) \in Regions  BY InUse, NodeIs DEF Sound, Kept
<1> HIDE DEF a
<1>5. ASSUME NEW i \in u.inUse, IsPrefix(a, Path(u, i))
      PROVE  i \in t.inUse /\ Path(u, i) = Path(t, i) /\ Objects(u, i) = Objects(t, i)
             /\ IsPrefix(p, Path(t, i))
  <2>1. /\ i \in t.inUse /\ Path(u, i) = Path(t, i)
        /\ Objects(u, i) = Objects(t, i) \ {x \in {c} : Path(t, i) \in {p} \cup Upto(b, p, k - 1)}
    BY DEF Removed
  <2>2. Path(t, i) \notin {p} \cup Upto(b, p, k - 1) /\ IsPrefix(p, Path(t, i))
    BY <1>2, <1>3, <1>4, <1>5, <2>1
  <2>3. QED  BY <2>1, <2>2
<1>6. ASSUME NEW q \in Within(b, a) PROVE \E i \in u.inUse : Path(u, i) = q
  <2>1. q \in Regions /\ IsPrefix(a, q) /\ Touches(b, q)  BY DEF Within
  <2>2. q \in Within(b, p)  BY <1>3, <2>1 DEF Within
  <2>3. PICK i \in t.inUse : Path(t, i) = q  BY <2>2 DEF Holding
  <2>4. i \in u.inUse  BY <1>2, <2>1, <2>3 DEF Removed
  <2>5. QED  BY <2>3, <2>4 DEF Removed
<1>7. \A i \in u.inUse : IsPrefix(a, Path(u, i)) => (c \in Objects(u, i) <=> Touches(b, Path(u, i)))
  BY <1>5 DEF Holding
<1>8. ASSUME NEW i \in u.inUse, NEW j \in u.inUse,
             IsPrefix(a, Path(u, i)), IsPrefix(Path(u, i), Path(u, j))
      PROVE  Objects(u, j) \subseteq Objects(u, i)
  <2>1. Path(u, i) \in Regions /\ Path(u, j) \in Regions  BY <1>4 DEF Removed
  <2>2. IsPrefix(a, Path(u, j))
    <3> DEFINE v == Path(u, i)
               w == Path(u, j)
    <3>1. v \in Regions /\ w \in Regions /\ IsPrefix(a, v) /\ IsPrefix(v, w)  BY <1>8, <2>1
    <3> HIDE DEF v, w
    <3>2. IsPrefix(a, w)  BY <1>1, <3>1, PrefixOrder
    <3>3. QED  BY <3>2 DEF w
  <2>3. QED  BY <1>5, <1>8, <2>2 DEF Holding
<1>9. \A i \in u.inUse : IsPrefix(a, Path(u, i)) /\ Path(u, i) # <<>> => Objects(u, i) # {}
  BY <1>5 DEF Holding
<1>10. Holding(u, b, c, a)  BY <1>6, <1>7, <1>8, <1>9 DEF Holding
<1>11. QED  BY <1>10 DEF a

(* What RemoveObject does at a node of some depth level.                   *)
RemoveRight(below, level, c, b) ==
  \A t : \A i \in t.inUse :
    Sound(t) /\ Len(Path(t, i)) = Depth - level /\ Touches(b, Path(t, i))
      /\ Holding(t, b, c, Path(t, i)) =>
      LET r == below[<<t, i>>]
      IN /\ r.ok = TRUE
         /\ Removed(t, r.tree, c, Within(b, Path(t, i)), Within(b, Path(t, i)) \ {Path(t, i)})

(* The call at a child leaves the child without the chunk, and without any  *)
(* children when it holds nothing else.                                     *)
Left(y, j, a, c) ==
  /\ j \in y.inUse /\ Path(y, j) = a /\ c \notin Objects(y, j)
  /\ Objects(y, j) = {} => \A m \in Octants : Children(y, j)[m] = 0

LEMMA ChildLeft ==
  ASSUME NEW x, Sound(x), NEW b, b \subseteq Leaves, NEW c, NEW a \in Regions, a # <<>>,
         Touches(b, a), Holding(x, b, c, a), NEW j \in x.inUse, Path(x, j) = a,
         NEW E, E = Within(b, a), NEW P, P = E \ {a}, NEW y, Removed(x, y, c, E, P)
  PROVE  Left(y, j, a, c)
<1>1. a \in E /\ a \notin P /\ IsPrefix(a, a)  BY WithinIs, PrefixOrder
<1>2. j \in y.inUse  BY <1>1 DEF Removed
<1>3. Path(y, j) = a /\ Objects(y, j) = Objects(x, j) \ {c}  BY <1>1, <1>2 DEF Removed
<1>4. ASSUME Objects(y, j) = {}, NEW m \in Octants, Children(y, j)[m] # 0 PROVE FALSE
  <2> DEFINE n == Children(y, j)[m]
             q == Append(a, m)
  <2>0. Linked(y)  BY DEF Removed, Sound
  <2>1. n \in y.inUse /\ Len(a) < Depth /\ Path(y, n) = q
    <3>1. n \in y.inUse /\ Len(Path(y, j)) < Depth /\ Path(y, n) = Append(Path(y, j), m)
      BY <1>2, <1>4, <2>0 DEF Linked
    <3>2. QED  BY <1>3, <3>1
  <2>2. q \in Regions /\ IsPrefix(a, q) /\ ~IsPrefix(q, a) /\ q # <<>>  BY <2>1, ChildPath
  <2>3. q # a  BY <1>1, <2>2
  <2> HIDE DEF n, q
  <2>4. n \in x.inUse /\ Path(x, n) = q  BY <2>1 DEF Removed
  <2>5. Objects(x, n) \subseteq Objects(x, j)  BY <1>1, <2>2, <2>4 DEF Holding
  <2>6. Objects(x, n) \subseteq {c} /\ Objects(x, n) # {}
    <3>1. Objects(x, n) # {}  BY <2>2, <2>4 DEF Holding
    <3>2. QED  BY <1>3, <1>4, <2>5, <3>1
  <2>7. Touches(b, q)  BY <2>2, <2>4, <2>6 DEF Holding
  <2>8. q \in P  BY <2>2, <2>3, <2>7 DEF Within
  <2>9. QED  BY <2>1, <2>4, <2>6, <2>8 DEF Removed
<1>5. QED  BY <1>2, <1>3, <1>4 DEF Left

LEMMA RemoveChildren ==
  ASSUME NEW c, NEW b, b \subseteq Leaves, NEW level \in 1 .. Depth,
         NEW below, RemoveRight(below, level - 1, c, b),
         NEW t, Sound(t), NEW i \in t.inUse, Len(Path(t, i)) = Depth - level,
         Touches(b, Path(t, i)), Holding(t, b, c, Path(t, i)),
         NEW e, e.ok = TRUE, Removed(t, e.tree, c, {Path(t, i)}, {}),
         NEW r, r = RemoveFromChildren(e, i, b, below)
  PROVE  /\ r.ok = TRUE
         /\ Removed(t, r.tree, c, Within(b, Path(t, i)), Within(b, Path(t, i)) \ {Path(t, i)})
<1> DEFINE p == Path(t, i)
           U(k) == Upto(b, p, k)
<1>1. Arity \in Nat \ {0} /\ Depth \in Nat /\ Octants = 1 .. Arity  BY ShapeAssumption DEF Octants
<1>2. p \in Regions /\ Len(p) < Depth
  <2>1. p \in Regions  BY InUse, NodeIs DEF Sound, Kept
  <2>2. Depth - level < Depth  BY <1>1
  <2>3. QED  BY <2>1, <2>2
<1>3. PICK f : /\ f[0] = [tree |-> e.tree, ok |-> e.ok, failed |-> FALSE]
               /\ \A k \in 1 .. Arity : f[k] = RemoveFromChild(f[k - 1], i, k, b, below)
               /\ r = f[Arity]
  BY RemoveLoop
<1> DEFINE Holds(k) == /\ f[k].failed = FALSE
                       /\ f[k].ok = TRUE
                       /\ Removed(t, f[k].tree, c, {p} \cup U(k), U(k))
           T == {k \in 0 .. Arity : Holds(k)}
<1>4. 0 \in T
  <2>1. U(0) = {}  BY UptoNone
  <2>2. f[0].failed = FALSE /\ f[0].ok = TRUE /\ f[0].tree = e.tree  BY <1>3
  <2>3. 0 \in 0 .. Arity  BY <1>1
  <2> HIDE DEF U
  <2>4. {p} \cup U(0) = {p}  BY <2>1
  <2>5. QED  BY <2>1, <2>2, <2>3, <2>4
<1>5. ASSUME NEW k \in 1 .. Arity, k - 1 \in T PROVE k \in T
  <2> DEFINE x == f[k - 1].tree
             a == Append(p, k)
  <2>1. Holds(k - 1) /\ f[k] = RemoveFromChild(f[k - 1], i, k, b, below)  BY <1>3, <1>5
  <2>2. k \in Octants /\ k \in 0 .. Arity  BY <1>1
  <2>3. /\ p \notin U(k - 1) /\ p \notin U(Arity)
        /\ \A q \in Regions : IsPrefix(a, q) => q # p /\ q \notin U(k - 1)
    BY <1>2, OctantsApart
  <2>4. a \in Regions /\ Len(a) = Len(p) + 1 /\ IsPrefix(p, a) /\ ~IsPrefix(a, p) /\ a # <<>>
    BY <1>2, <2>2, ChildPath
  <2>5. U(k) = U(k - 1) \cup Within(b, a)  BY UptoNext
  <2>6. Holding(x, b, c, a)  BY <1>2, <2>1, HoldingBelow
  <2> HIDE DEF U
  <2>7. Sound(x) /\ i \in x.inUse /\ Path(x, i) = p  BY <2>1, <2>3 DEF Removed
  <2>8. CASE ~Touches(b, a)
    <3>1. f[k] = f[k - 1]  BY <2>1, <2>7, <2>8 DEF RemoveFromChild
    <3>2. Within(b, a) = {}
      <4> HIDE DEF a
      <4>1. QED  BY <2>4, <2>8, WithinIs
    <3>3. U(k) = U(k - 1)  BY <2>5, <3>2
    <3>4. Holds(k)  BY <2>1, <3>1, <3>3
    <3>5. QED  BY <2>2, <3>4
  <2>9. CASE Touches(b, a)
    <3> DEFINE y == below[<<x, Children(x, i)[k]>>]
               W == Within(b, a)
    <3>1. a \in W /\ IsPrefix(a, a)
      <4> HIDE DEF a
      <4>1. QED  BY <2>4, <2>9, WithinIs, PrefixOrder
    <3>2. PICK j \in x.inUse : Path(x, j) = a  BY <3>1, <2>6 DEF Holding
    <3>3. Children(x, i)[k] = j /\ j # 0
      <4>1. Sound(x) /\ i \in x.inUse /\ Len(Path(x, i)) < Depth /\ Path(x, j) = Append(Path(x, i), k)
        BY <1>2, <2>7, <3>2
      <4> HIDE DEF x
      <4>2. QED  BY <2>2, <4>1, ChildAt
    <3>4. Len(a) = Depth - (level - 1)
      <4>1. Len(p) = Depth - level  OBVIOUS
      <4>2. QED  BY <1>1, <2>4, <4>1
    <3>5. y.ok = TRUE /\ Removed(x, y.tree, c, W, W \ {a})
      <4>1. Len(Path(x, j)) = Depth - (level - 1) /\ Touches(b, Path(x, j)) /\ Holding(x, b, c, Path(x, j))
        BY <2>6, <2>9, <3>2, <3>4
      <4>2. LET r2 == below[<<x, j>>]
            IN /\ r2.ok = TRUE
               /\ Removed(x, r2.tree, c, Within(b, Path(x, j)), Within(b, Path(x, j)) \ {Path(x, j)})
        BY <2>7, <3>2, <4>1 DEF RemoveRight
      <4>3. QED  BY <3>2, <3>3, <4>2
    <3>6. f[k] = [tree |-> PruneChild(y.tree, i, k), ok |-> TRUE, failed |-> FALSE]
      <4>1. f[k] = [tree |-> IF y.ok THEN PruneChild(y.tree, i, k) ELSE y.tree,
                    ok |-> y.ok, failed |-> ~y.ok]
        BY <2>1, <2>7, <2>9, <3>3 DEF RemoveFromChild
      <4> HIDE DEF y
      <4>2. (~y.ok) = FALSE  BY <3>5
      <4>3. QED  BY <3>5, <4>1, <4>2
    <3> HIDE DEF y
    <3>7. /\ j \in y.tree.inUse /\ Path(y.tree, j) = a /\ c \notin Objects(y.tree, j)
          /\ Objects(y.tree, j) = {} => \A m \in Octants : Children(y.tree, j)[m] = 0
      <4> DEFINE z == y.tree
                 V == W \ {a}
      <4>1. Removed(x, z, c, W, V)  BY <3>5
      <4>3. W = Within(b, a) /\ V = W \ {a}  OBVIOUS
      <4> HIDE DEF a, x, z, W, V
      <4>2. Left(z, j, a, c)
        <5>1. /\ Sound(x) /\ a \in Regions /\ a # <<>> /\ Touches(b, a) /\ Holding(x, b, c, a)
              /\ j \in x.inUse /\ Path(x, j) = a
          BY <2>4, <2>6, <2>7, <2>9, <3>2
        <5>2. QED  BY <4>1, <4>3, <5>1, ChildLeft
      <4>4. QED  BY <4>2 DEF z, Left
    <3>8. Sound(y.tree) /\ i \in y.tree.inUse /\ Path(y.tree, i) = p
      <4>1. p \notin W \ {a}  BY <1>2, <2>4 DEF Within
      <4>2. QED  BY <2>7, <3>5, <4>1 DEF Removed
    <3>9. Children(y.tree, i)[k] = j
      <4> DEFINE z == y.tree
      <4>1. Sound(z) /\ i \in z.inUse /\ Len(Path(z, i)) < Depth
            /\ j \in z.inUse /\ Path(z, j) = Append(Path(z, i), k)
        BY <1>2, <3>7, <3>8
      <4> HIDE DEF z
      <4>2. Children(z, i)[k] = j  BY <2>2, <4>1, ChildAt
      <4>3. QED  BY <4>2 DEF z
    <3>10. Removed(y.tree, f[k].tree, c, {}, {a})
      <4> DEFINE z == y.tree
      <4>1. /\ Sound(z) /\ i \in z.inUse /\ j = Children(z, i)[k] /\ j # 0 /\ c \notin Objects(z, j)
            /\ Objects(z, j) = {} => \A m \in Octants : Children(z, j)[m] = 0
        BY <3>3, <3>7, <3>8, <3>9
      <4>2. f[k].tree = PruneChild(z, i, k) /\ Append(Path(z, i), k) = a  BY <3>6, <3>8
      <4> HIDE DEF z, a
      <4>3. Removed(z, PruneChild(z, i, k), c, {}, {Append(Path(z, i), k)})  BY <2>2, <4>1, PruneIs
      <4>4. QED  BY <4>2, <4>3 DEF z
    <3>11. Removed(x, f[k].tree, c, W \cup {}, (W \ {a}) \cup {a})  BY <3>5, <3>10, RemovedBoth
    <3>12. Removed(t, f[k].tree, c, ({p} \cup U(k - 1)) \cup (W \cup {}), U(k - 1) \cup ((W \ {a}) \cup {a}))
      BY <2>1, <3>11, RemovedBoth
    <3>13. /\ ({p} \cup U(k - 1)) \cup (W \cup {}) = {p} \cup U(k)
           /\ U(k - 1) \cup ((W \ {a}) \cup {a}) = U(k)
      <4> HIDE DEF W, a
      <4>1. U(k) = U(k - 1) \cup W  BY <2>5 DEF W, a
      <4>2. QED  BY <3>1, <4>1
    <3>14. Removed(t, f[k].tree, c, {p} \cup U(k), U(k))  BY <3>12, <3>13
    <3>15. Holds(k)  BY <3>6, <3>14
    <3>16. QED  BY <2>2, <3>15
  <2>10. QED  BY <2>8, <2>9
<1>6. Arity \in T
  <2> HIDE DEF T
  <2>1. \A k \in 0 .. Arity : k \in T  BY <1>1, <1>4, <1>5, TurnByTurn
  <2>2. QED  BY <1>1, <2>1
<1>7. Within(b, p) = {p} \cup U(Arity) /\ p \notin U(Arity)
  <2>1. 1 \in 1 .. Arity  BY <1>1
  <2>2. QED  BY <1>2, <2>1, WithinIs, OctantsApart
<1>8. Within(b, p) \ {p} = U(Arity)
  <2> HIDE DEF U
  <2>1. QED  BY <1>7
<1>9. r.ok = TRUE /\ Removed(t, r.tree, c, {p} \cup U(Arity), U(Arity))  BY <1>3, <1>6
<1>10. QED  BY <1>7, <1>8, <1>9

LEMMA RemovedAbove ==
  ASSUME NEW c, NEW b, b \subseteq Leaves, NEW level \in 1 .. Depth,
         NEW below, RemoveRight(below, level - 1, c, b)
  PROVE  RemoveRight(RemoveAbove(c, b, below), level, c, b)
<1> SUFFICES ASSUME NEW t, NEW i \in t.inUse, Sound(t), Len(Path(t, i)) = Depth - level,
                    Touches(b, Path(t, i)), Holding(t, b, c, Path(t, i))
             PROVE  LET r == RemoveAbove(c, b, below)[<<t, i>>]
                    IN /\ r.ok = TRUE
                       /\ Removed(t, r.tree, c, Within(b, Path(t, i)), Within(b, Path(t, i)) \ {Path(t, i)})
  BY DEF RemoveRight
<1> DEFINE r == RemoveAbove(c, b, below)[<<t, i>>]
           e == Erased(t, i, c)
           x == RemoveFromChildren(e, i, b, below)
<1>1. <<t, i>> \in Calls /\ Path(t, i) \in Regions  BY InUse, NodeIs DEF Sound, Kept, Calls
<1>2. r = [tree |-> x.tree, ok |-> x.ok]  BY <1>1 DEF RemoveAbove
<1>3. c \in Objects(t, i)
  <2>1. IsPrefix(Path(t, i), Path(t, i))  BY <1>1, PrefixOrder
  <2>2. QED  BY <2>1 DEF Holding
<1>4. e.ok = TRUE /\ Removed(t, e.tree, c, {Path(t, i)}, {})  BY <1>3, ErasedIs
<1> HIDE DEF e
<1>5. /\ x.ok = TRUE
      /\ Removed(t, x.tree, c, Within(b, Path(t, i)), Within(b, Path(t, i)) \ {Path(t, i)})
  BY <1>4, RemoveChildren
<1>6. QED  BY <1>2, <1>5

LEMMA RemovedAtLeaf ==
  ASSUME NEW c, NEW b, b \subseteq Leaves
  PROVE  RemoveRight(RemoveAtLeaf(c), 0, c, b)
<1> SUFFICES ASSUME NEW t, NEW i \in t.inUse, Sound(t), Len(Path(t, i)) = Depth - 0,
                    Touches(b, Path(t, i)), Holding(t, b, c, Path(t, i))
             PROVE  LET r == RemoveAtLeaf(c)[<<t, i>>]
                    IN /\ r.ok = TRUE
                       /\ Removed(t, r.tree, c, Within(b, Path(t, i)), Within(b, Path(t, i)) \ {Path(t, i)})
  BY DEF RemoveRight
<1> DEFINE r == RemoveAtLeaf(c)[<<t, i>>]
           p == Path(t, i)
<1>1. Depth \in Nat  BY ShapeAssumption
<1>2. p \in Regions /\ Len(p) = Depth /\ <<t, i>> \in Calls
  BY <1>1, InUse, NodeIs DEF Sound, Kept, Calls
<1>3. r = Erased(t, i, c)  BY <1>2 DEF RemoveAtLeaf
<1>4. c \in Objects(t, i)
  <2>1. IsPrefix(p, p)  BY <1>2, PrefixOrder
  <2>2. QED  BY <2>1 DEF Holding
<1>5. Within(b, p) = {p}  BY <1>2, WithinIs
<1>6. r.ok = TRUE /\ Removed(t, r.tree, c, {p}, {})
  <2>1. r.ok = (c \in Objects(t, i)) /\ Removed(t, r.tree, c, {p}, {})  BY <1>3, ErasedIs
  <2>2. (c \in Objects(t, i)) = TRUE  BY <1>4
  <2>3. QED  BY <2>1, <2>2
<1>7. Within(b, p) \ {p} = {}  BY <1>5
<1>8. QED  BY <1>5, <1>6, <1>7

(* RemoveObject of a chunk whose box touches the tree.                     *)
LEMMA RemoveObjectIs ==
  ASSUME NEW t, Sound(t), NEW c, NEW b, b \subseteq Leaves,
         Touches(b, <<>>), Holding(t, b, c, <<>>)
  PROVE  Removed(t, RemoveObject(t, c, b), c, Within(b, <<>>), Within(b, <<>>) \ {<<>>})
<1>1. Depth \in Nat \ {0}  BY ShapeAssumption
<1>2. PICK f : /\ f[0] = RemoveAtLeaf(c)
               /\ \A level \in 1 .. Depth : f[level] = RemoveAbove(c, b, f[level - 1])
               /\ RemoveObject(t, c, b) = f[Depth][<<t, 0>>].tree
  BY RemoveCalls
<1> DEFINE T == {level \in 0 .. Depth : RemoveRight(f[level], level, c, b)}
<1>3. 0 \in T  BY <1>1, <1>2, RemovedAtLeaf
<1>4. ASSUME NEW level \in 1 .. Depth, level - 1 \in T PROVE level \in T
  <2>1. RemoveRight(f[level - 1], level - 1, c, b) /\ level \in 0 .. Depth  BY <1>1, <1>4
  <2>2. RemoveRight(RemoveAbove(c, b, f[level - 1]), level, c, b)  BY <2>1, RemovedAbove
  <2>3. QED  BY <1>2, <2>1, <2>2
<1>5. \A level \in 0 .. Depth : level \in T
  <2> HIDE DEF T
  <2>1. QED  BY <1>1, <1>3, <1>4, TurnByTurn
<1>6. 0 \in t.inUse /\ Path(t, 0) = <<>> /\ Len(<<>>) = 0  BY DEF Sound, Kept, Linked
<1>7. RemoveRight(f[Depth], Depth, c, b)  BY <1>1, <1>5
<1>8. Len(Path(t, 0)) = Depth - Depth  BY <1>1, <1>6
<1>9. LET r == f[Depth][<<t, 0>>]
      IN /\ r.ok = TRUE
         /\ Removed(t, r.tree, c, Within(b, Path(t, 0)), Within(b, Path(t, 0)) \ {Path(t, 0)})
  <2>1. Touches(b, Path(t, 0)) /\ Holding(t, b, c, Path(t, 0))  BY <1>6
  <2>2. QED  BY <1>6, <1>7, <1>8, <2>1 DEF RemoveRight
<1>10. QED  BY <1>2, <1>6, <1>9

(* RemoveObject of a chunk that is nowhere in the tree, whatever the box.  *)
LEMMA RemoveAbsent ==
  ASSUME NEW t, Sound(t), NEW c, NEW b, \A i \in t.inUse : c \notin Objects(t, i)
  PROVE  RemoveObject(t, c, b) = t
<1> DEFINE Idle(below) == \A i \in t.inUse : below[<<t, i>>].tree = t /\ below[<<t, i>>].ok = FALSE
<1>1. Depth \in Nat /\ Arity \in Nat /\ Octants = 1 .. Arity  BY ShapeAssumption DEF Octants
<1>2. PICK f : /\ f[0] = RemoveAtLeaf(c)
               /\ \A level \in 1 .. Depth : f[level] = RemoveAbove(c, b, f[level - 1])
               /\ RemoveObject(t, c, b) = f[Depth][<<t, 0>>].tree
  BY RemoveCalls
<1>3. \A i \in t.inUse : <<t, i>> \in Calls /\ Erased(t, i, c).tree = t /\ Erased(t, i, c).ok = FALSE
  <2>1. \A i \in t.inUse : <<t, i>> \in Calls  BY InUse DEF Sound, Kept, Calls
  <2>2. \A i \in t.inUse : Erased(t, i, c).tree = t /\ Erased(t, i, c).ok = (c \in Objects(t, i))
    BY ErasedIs
  <2>3. \A i \in t.inUse : (c \in Objects(t, i)) = FALSE  OBVIOUS
  <2>4. QED  BY <2>1, <2>2, <2>3
<1> DEFINE T == {level \in 0 .. Depth : Idle(f[level])}
<1>4. 0 \in T
  <2>1. \A i \in t.inUse : f[0][<<t, i>>] = Erased(t, i, c)  BY <1>2, <1>3 DEF RemoveAtLeaf
  <2>2. QED  BY <1>1, <1>3, <2>1
<1>5. ASSUME NEW level \in 1 .. Depth, level - 1 \in T PROVE level \in T
  <2> DEFINE below == f[level - 1]
  <2>1. Idle(below) /\ f[level] = RemoveAbove(c, b, below)  BY <1>2, <1>5
  <2> HIDE DEF below
  <2>2. ASSUME NEW i \in t.inUse PROVE f[level][<<t, i>>].tree = t /\ f[level][<<t, i>>].ok = FALSE
    <3> DEFINE e == Erased(t, i, c)
               x == RemoveFromChildren(e, i, b, below)
    <3>1. f[level][<<t, i>>] = [tree |-> x.tree, ok |-> x.ok]  BY <1>3, <2>1 DEF RemoveAbove
    <3>2. e.tree = t /\ e.ok = FALSE  BY <1>3
    <3> HIDE DEF e
    <3>3. PICK g : /\ g[0] = [tree |-> e.tree, ok |-> e.ok, failed |-> FALSE]
                   /\ \A k \in 1 .. Arity : g[k] = RemoveFromChild(g[k - 1], i, k, b, below)
                   /\ x = g[Arity]
      BY RemoveLoop
    <3> DEFINE K == {k \in 0 .. Arity : g[k].tree = t /\ g[k].ok = FALSE}
    <3>4. 0 \in K  BY <1>1, <3>2, <3>3
    <3>5. ASSUME NEW k \in 1 .. Arity, k - 1 \in K PROVE k \in K
      <4>1. g[k - 1].tree = t /\ g[k - 1].ok = FALSE /\ k \in 0 .. Arity /\ k \in Octants
        BY <1>1, <3>5
      <4>2. CASE g[k] = g[k - 1]  BY <4>1, <4>2
      <4>3. CASE g[k] # g[k - 1]
        <5> DEFINE j == Children(t, i)[k]
                   y == below[<<t, j>>]
        <5>1. g[k] = RemoveFromChild(g[k - 1], i, k, b, below)  BY <3>3
        <5>2. /\ j # 0
              /\ g[k] = [tree |-> IF y.ok THEN PruneChild(y.tree, i, k) ELSE y.tree,
                         ok |-> y.ok, failed |-> ~y.ok]
          BY <4>1, <4>3, <5>1 DEF RemoveFromChild
        <5>3. j \in t.inUse  BY <4>1, <5>2 DEF Sound, Linked
        <5>4. y.tree = t /\ y.ok = FALSE  BY <2>1, <5>3
        <5> HIDE DEF y, j
        <5>5. g[k].tree = t /\ g[k].ok = FALSE  BY <5>2, <5>4
        <5>6. QED  BY <4>1, <5>5
      <4>4. QED  BY <4>2, <4>3
    <3>6. Arity \in K
      <4> HIDE DEF K
      <4>1. \A k \in 0 .. Arity : k \in K  BY <1>1, <3>4, <3>5, TurnByTurn
      <4>2. QED  BY <1>1, <4>1
    <3> HIDE DEF x
    <3>7. QED  BY <3>1, <3>3, <3>6
  <2>3. level \in 0 .. Depth  BY <1>1
  <2>4. QED  BY <2>2, <2>3
<1>6. \A level \in 0 .. Depth : level \in T
  <2> HIDE DEF T
  <2>1. QED  BY <1>1, <1>4, <1>5, TurnByTurn
<1>7. 0 \in t.inUse  BY DEF Sound, Kept
<1>8. QED  BY <1>1, <1>2, <1>6, <1>7

-----------------------------------------------------------------------------
(* The states of the specification.                                        *)
TreeInv ==
  /\ Sound(tree)
  /\ live \subseteq Chunks
  /\ box \in [Chunks -> Boxes \cup {{}}]
  /\ Placement

LEMMA NewTreeIs ==
  /\ NewTree = [pool |-> <<EmptyNode>>, inUse |-> {0}, available |-> <<>>]
  /\ Sound(NewTree) /\ Path(NewTree, 0) = <<>> /\ Objects(NewTree, 0) = {}
<1> DEFINE none == [pool |-> <<>>, inUse |-> {}, available |-> <<>>]
           s == [pool |-> <<EmptyNode>>, inUse |-> {}, available |-> <<0>>]
           u == [pool |-> <<EmptyNode>>, inUse |-> {0}, available |-> <<>>]
<1>1. EmptyNode \in Node /\ NoChildren \in [Octants -> Nat] /\ <<>> \in Regions
  <2>1. NoChildren \in [Octants -> Nat]  BY DEF NoChildren
  <2>2. <<>> \in Seq(Octants) /\ Len(<<>>) = 0 /\ Depth \in Nat  BY ShapeAssumption
  <2>3. 0 <= Depth  BY <2>2
  <2>4. <<>> \in Regions  BY <2>2, <2>3, RegionIs
  <2>5. QED  BY <2>1, <2>4 DEF EmptyNode, Node
<1>2. Grow(none) = s
  <2>1. Append(<<>>, EmptyNode) = <<EmptyNode>> /\ Append(<<>>, 0) = <<0>> /\ Len(<<>>) = 0
    BY <1>1
  <2> HIDE DEF s
  <2>2. Grow(none) = [none EXCEPT !.pool = Append(@, EmptyNode), !.available = Append(@, 0)]
    BY <2>1 DEF Grow
  <2>3. QED  BY <2>1, <2>2 DEF s
<1>3. Last(s.available) = 0 /\ Front(s.available) = <<>>  BY DEF Last, Front
<1>4. NewNode(none) = [index |-> 0, tree |-> u]
  <2>1. NewNode(none) = [index |-> Last(s.available),
                         tree |-> [s EXCEPT !.inUse = @ \cup {Last(s.available)}, !.available = Front(@)]]
    BY <1>2 DEF NewNode
  <2>2. [s EXCEPT !.inUse = @ \cup {0}, !.available = Front(@)] = u
    <3> DEFINE P == <<EmptyNode>>
               Q == <<0>>
               v == [pool |-> P, inUse |-> {0}, available |-> Q]
    <3>1. PICK zero, none2 : zero = {0} /\ none2 = <<>>  OBVIOUS
    <3>2. \A g, h, a : /\ [[pool |-> g, inUse |-> h, available |-> a] EXCEPT !.inUse = zero] =
                            [pool |-> g, inUse |-> zero, available |-> a]
                       /\ [[pool |-> g, inUse |-> h, available |-> a] EXCEPT !.available = none2] =
                            [pool |-> g, inUse |-> h, available |-> none2]
      OBVIOUS
    <3>3. [s EXCEPT !.inUse = {0}] = v  BY <3>1, <3>2
    <3>4. [v EXCEPT !.available = <<>>] = u  BY <3>1, <3>2
    <3>5. s.inUse \cup {0} = {0}  OBVIOUS
    <3> HIDE DEF s, u, v
    <3>6. QED  BY <1>3, <3>3, <3>4, <3>5
  <2> HIDE DEF s, u
  <2>3. QED  BY <1>3, <2>1, <2>2
<1>5. /\ u \in Trees /\ Len(u.pool) = 1 /\ u.pool[1] = EmptyNode
      /\ u.inUse = {0} /\ u.available = <<>>
  BY <1>1 DEF Trees
<1> HIDE DEF u, none, s
<1>6. 0 \in 0 .. Len(u.pool) - 1 /\ 0 + 1 = 1  BY <1>5
<1>7. Children(u, 0) = NoChildren /\ Path(u, 0) = <<>> /\ Objects(u, 0) = {}
  BY <1>5, <1>6 DEF Children, Path, Objects, EmptyNode
<1>8. NewTree = u
  <2>1. NewTree = CreateNode(u, 0, <<>>)  BY <1>4 DEF NewTree, none
  <2>2. CreateNode(u, 0, <<>>) = [u EXCEPT !.pool[0 + 1] = [EmptyNode EXCEPT !.path = <<>>]]
    <3>1. PICK i, p : i = 0 /\ p = <<>>  OBVIOUS
    <3>2. /\ u \in Trees /\ i \in 0 .. Len(u.pool) - 1 /\ p \in Regions
          /\ Children(u, i) \in {<<>>, NoChildren}
      BY <1>1, <1>5, <1>6, <1>7, <3>1
    <3>3. CreateNode(u, i, p) = [u EXCEPT !.pool[i + 1] = [EmptyNode EXCEPT !.path = p]]
      BY <3>2, CreateIs
    <3>4. QED  BY <3>1, <3>3
  <2>3. [EmptyNode EXCEPT !.path = <<>>] = EmptyNode  BY <1>1, EmptyNodeIs DEF EmptyNode
  <2>4. [u EXCEPT !.pool[1] = EmptyNode] = u
    <3>1. u = [pool |-> u.pool, inUse |-> u.inUse, available |-> u.available] /\ u.pool \in Seq(Node)
      BY <1>5 DEF Trees
    <3>2. [u.pool EXCEPT ![1] = EmptyNode] = u.pool  BY <1>5, <3>1
    <3>3. [u EXCEPT !.pool[1] = EmptyNode] =
            [pool |-> [u.pool EXCEPT ![1] = EmptyNode], inUse |-> u.inUse, available |-> u.available]
      BY <3>1
    <3>4. QED  BY <3>1, <3>2, <3>3
  <2>5. QED  BY <1>6, <2>1, <2>2, <2>3, <2>4
<1>9. Kept(u)
  <2>1. ToSet(u.available) = {} /\ IsInjective(u.available)  BY <1>5 DEF ToSet, IsInjective
  <2>2. 0 .. Len(u.pool) - 1 = {0}  BY <1>5
  <2>3. QED  BY <1>5, <2>1, <2>2 DEF Kept
<1>10. Linked(u)  BY <1>1, <1>5, <1>7 DEF Linked, NoChildren
<1>11. QED  BY <1>7, <1>8, <1>9, <1>10 DEF Sound, u

(* The region of everything is in every other.                             *)
LEMMA RootIs ==
  ASSUME NEW b, b \subseteq Leaves
  PROVE  /\ Within(b, <<>>) = {p \in Regions : Touches(b, p)}
         /\ ~Touches(b, <<>>) => \A p \in Regions : ~Touches(b, p)
<1>1. \A p \in Regions : <<>> \in Regions /\ IsPrefix(<<>>, p)  BY PrefixOrder
<1>2. QED  BY <1>1, TouchUp DEF Within

LEMMA InitKeeps ==
  TreeInit => TreeInv
<1> SUFFICES ASSUME TreeInit PROVE TreeInv  OBVIOUS
<1>1. /\ Sound(tree) /\ tree.inUse = {0} /\ Path(tree, 0) = <<>> /\ Objects(tree, 0) = {}
  BY NewTreeIs DEF TreeInit
<1>2. live = {} /\ box \in [Chunks -> Boxes \cup {{}}]  BY DEF TreeInit
<1>3. Placement  BY <1>1, <1>2 DEF Placement
<1>4. QED  BY <1>1, <1>2, <1>3 DEF TreeInv

LEMMA ReloadKeeps ==
  TreeInv /\ ReloadScene => TreeInv'
<1> SUFFICES ASSUME TreeInv, ReloadScene PROVE TreeInv'  OBVIOUS
<1>1. tree' = NewTree /\ live = {} /\ live' = {} /\ box' = box  BY DEF ReloadScene
<1>2. /\ Sound(tree') /\ tree'.inUse = {0} /\ Path(tree', 0) = <<>> /\ Objects(tree', 0) = {}
  BY <1>1, NewTreeIs
<1>3. Placement'  BY <1>1, <1>2 DEF Placement
<1>4. QED  BY <1>1, <1>2, <1>3 DEF TreeInv

LEMMA CreateKeeps ==
  ASSUME TreeInv, NEW c \in Chunks, CreateChunk(c)
  PROVE  TreeInv'
<1>1. Sound(tree) /\ live \subseteq Chunks /\ box \in [Chunks -> Boxes \cup {{}}] /\ Placement
  BY DEF TreeInv
<1>2. PICK stray \in Boxes, b \in Boxes :
        box' = [box EXCEPT ![c] = b] /\ tree' = AddObject(RemoveObject(tree, c, stray), c, b)
  BY DEF CreateChunk
<1>3. c \notin live /\ live' = live \cup {c}  BY DEF CreateChunk
<1>4. RemoveObject(tree, c, stray) = tree
  <2>1. \A i \in tree.inUse : c \notin Objects(tree, i)  BY <1>1, <1>3 DEF Placement
  <2>2. QED  BY <1>1, <2>1, RemoveAbsent
<1>5. b \subseteq Leaves  BY <1>2, BoxAssumption
<1> DEFINE W == {p \in Regions : Touches(b, p)}
<1>6. Added(tree, tree', c, W, W)
  <2>1. Within(b, <<>>) = W  BY <1>5, RootIs
  <2> HIDE DEF W
  <2>2. QED  BY <1>1, <1>2, <1>4, <1>5, <2>1, AddObjectIs
<1>7. Sound(tree') /\ live' \subseteq Chunks /\ box' \in [Chunks -> Boxes \cup {{}}]
  BY <1>1, <1>2, <1>3, <1>6 DEF Added
<1>8. box'[c] = b /\ \A d \in live : d # c /\ box'[d] = box[d]  BY <1>1, <1>2, <1>3
<1>9. \A i \in tree'.inUse : Path(tree', i) \in Regions  BY <1>7, InUse, NodeIs DEF Sound, Kept
<1>10. \A p : {d \in live' : Touches(box'[d], p)} =
              {d \in live : Touches(box[d], p)} \cup {x \in {c} : Touches(b, p)}
  BY <1>3, <1>8
<1>11. ASSUME NEW i \in tree'.inUse
       PROVE  Objects(tree', i) = {d \in live' : Touches(box'[d], Path(tree', i))}
  <2>1. CASE i \in tree.inUse
    <3>1. /\ Path(tree', i) = Path(tree, i)
          /\ Objects(tree', i) = Objects(tree, i) \cup {x \in {c} : Path(tree, i) \in W}
      BY <1>6, <2>1 DEF Added
    <3>2. Objects(tree, i) = {d \in live : Touches(box[d], Path(tree, i))}  BY <1>1, <2>1 DEF Placement
    <3>3. Path(tree, i) \in W <=> Touches(b, Path(tree, i))  BY <1>9, <3>1
    <3> HIDE DEF W
    <3>4. QED  BY <1>10, <3>1, <3>2, <3>3
  <2>2. CASE i \notin tree.inUse
    <3>1. Path(tree', i) \in W /\ Objects(tree', i) = {x \in {c} : Path(tree', i) \in W}
      BY <1>6, <2>2 DEF Added
    <3>2. ASSUME NEW d \in live, Touches(box[d], Path(tree', i)) PROVE FALSE
      <4>1. Path(tree', i) \in {Path(tree, j) : j \in tree.inUse}  BY <1>1, <1>9, <3>2 DEF Placement
      <4>2. PICK j \in tree.inUse : Path(tree, j) = Path(tree', i)  BY <4>1
      <4>3. j \in tree'.inUse /\ Path(tree', j) = Path(tree', i)  BY <1>6, <4>2 DEF Added
      <4>4. j = i  BY <1>7, <4>3 DEF Sound, Linked
      <4>5. QED  BY <2>2, <4>4
    <3>3. {d \in live : Touches(box[d], Path(tree', i))} = {}  BY <3>2
    <3>4. Touches(b, Path(tree', i))  BY <3>1
    <3> HIDE DEF W
    <3>5. QED  BY <1>10, <3>1, <3>3, <3>4
  <2>3. QED  BY <2>1, <2>2
<1>12. {Path(tree', i) : i \in tree'.inUse} =
         {<<>>} \cup {p \in Regions : \E d \in live' : Touches(box'[d], p)}
  <2>1. \A p : (\E d \in live' : Touches(box'[d], p)) <=>
                 (\E d \in live : Touches(box[d], p)) \/ Touches(b, p)
    BY <1>3, <1>8
  <2>2. {Path(tree, i) : i \in tree.inUse} =
          {<<>>} \cup {p \in Regions : \E d \in live : Touches(box[d], p)}
    BY <1>1 DEF Placement
  <2>3. ASSUME NEW i \in tree'.inUse
        PROVE  Path(tree', i) \in {<<>>} \cup {p \in Regions : \E d \in live' : Touches(box'[d], p)}
    <3>1. CASE i \in tree.inUse
      <4>1. Path(tree', i) = Path(tree, i)  BY <1>6, <3>1 DEF Added
      <4>2. QED  BY <2>1, <2>2, <3>1, <4>1
    <3>2. CASE i \notin tree.inUse
      <4>1. Path(tree', i) \in W  BY <1>6, <3>2 DEF Added
      <4>2. QED  BY <2>1, <4>1
    <3>3. QED  BY <3>1, <3>2
  <2>4. \A i \in tree.inUse : i \in tree'.inUse /\ Path(tree', i) = Path(tree, i)  BY <1>6 DEF Added
  <2>5. ASSUME NEW p \in {<<>>} \cup {q \in Regions : \E d \in live' : Touches(box'[d], q)}
        PROVE  \E i \in tree'.inUse : Path(tree', i) = p
    <3>1. CASE p \in {Path(tree, i) : i \in tree.inUse}  BY <2>4, <3>1
    <3>2. CASE p \notin {Path(tree, i) : i \in tree.inUse}
      <4>1. p \in W  BY <2>1, <2>2, <3>2
      <4>2. QED  BY <1>6, <4>1 DEF Added
    <3>3. QED  BY <3>1, <3>2
  <2>6. QED  BY <2>3, <2>5
<1>13. Placement'  BY <1>11, <1>12 DEF Placement
<1>14. QED  BY <1>7, <1>13 DEF TreeInv

(* What Placement says of a live chunk is what RemoveObject relies on.     *)
LEMMA PlacedIs ==
  ASSUME TreeInv, NEW c \in live, NEW b, b = box[c]
  PROVE  b \subseteq Leaves /\ Holding(tree, b, c, <<>>)
<1>1. Sound(tree) /\ live \subseteq Chunks /\ box \in [Chunks -> Boxes \cup {{}}] /\ Placement
  BY DEF TreeInv
<1>2. \A d \in live : box[d] \subseteq Leaves  BY <1>1, BoxAssumption
<1>3. \A i \in tree.inUse : Path(tree, i) \in Regions  BY <1>1, InUse, NodeIs DEF Sound, Kept
<1>4. \A i \in tree.inUse : Objects(tree, i) = {d \in live : Touches(box[d], Path(tree, i))}
  BY <1>1 DEF Placement
<1>5. ASSUME NEW q \in Within(b, <<>>) PROVE \E i \in tree.inUse : Path(tree, i) = q
  <2>1. q \in {Path(tree, i) : i \in tree.inUse}  BY <1>1 DEF Within, Placement
  <2>2. QED  BY <2>1
<1>6. ASSUME NEW i \in tree.inUse, NEW j \in tree.inUse, IsPrefix(Path(tree, i), Path(tree, j))
      PROVE  Objects(tree, j) \subseteq Objects(tree, i)
  <2>1. \A d \in live : Touches(box[d], Path(tree, j)) => Touches(box[d], Path(tree, i))
    BY <1>2, <1>3, <1>6, TouchUp
  <2>2. QED  BY <1>4, <2>1
<1>7. ASSUME NEW i \in tree.inUse, Path(tree, i) # <<>> PROVE Objects(tree, i) # {}
  <2>1. Path(tree, i) \in {p \in Regions : \E d \in live : Touches(box[d], p)}
    BY <1>1, <1>7 DEF Placement
  <2>2. PICK d \in live : Touches(box[d], Path(tree, i))  BY <2>1
  <2>3. QED  BY <1>4, <2>2
<1>8. Holding(tree, b, c, <<>>)  BY <1>4, <1>5, <1>6, <1>7 DEF Holding
<1>9. QED  BY <1>2, <1>8

LEMMA ReleaseKeeps ==
  ASSUME TreeInv, NEW c \in Chunks, ReleaseChunk(c)
  PROVE  TreeInv'
<1>1. Sound(tree) /\ live \subseteq Chunks /\ box \in [Chunks -> Boxes \cup {{}}] /\ Placement
  BY DEF TreeInv
<1> DEFINE b == box[c]
           W == {p \in Regions : Touches(b, p)}
<1>2. c \in live /\ live' = live \ {c} /\ box' = [box EXCEPT ![c] = {}] /\ tree' = RemoveObject(tree, c, b)
  BY DEF ReleaseChunk
<1>3. b \subseteq Leaves /\ Holding(tree, b, c, <<>>)
  <2> HIDE DEF b
  <2>1. b = box[c]  BY DEF b
  <2>2. QED  BY <1>2, <2>1, PlacedIs
<1> HIDE DEF b
<1>4. live' \subseteq Chunks /\ box' \in [Chunks -> Boxes \cup {{}}]
      /\ \A d \in live' : d \in live /\ d # c /\ box'[d] = box[d]
  BY <1>1, <1>2
<1>5. \A i \in tree.inUse : /\ Path(tree, i) \in Regions
                            /\ Objects(tree, i) = {d \in live : Touches(box[d], Path(tree, i))}
  BY <1>1, InUse, NodeIs DEF Sound, Kept, Placement
<1>6. Removed(tree, tree', c, W, W \ {<<>>})
  <2>1. CASE Touches(b, <<>>)
    <3>1. Within(b, <<>>) = W  BY <1>3, RootIs
    <3> HIDE DEF W
    <3>2. Removed(tree, RemoveObject(tree, c, b), c, Within(b, <<>>), Within(b, <<>>) \ {<<>>})
      BY <1>1, <1>3, <2>1, RemoveObjectIs
    <3>3. QED  BY <1>2, <3>1, <3>2
  <2>2. CASE ~Touches(b, <<>>)
    <3>1. \A p \in Regions : ~Touches(b, p)  BY <1>3, <2>2, RootIs
    <3>2. W = {}  BY <3>1
    <3>3. \A i \in tree.inUse : c \notin Objects(tree, i)  BY <1>5, <3>1 DEF b
    <3>4. tree' = tree  BY <1>1, <1>2, <3>3, RemoveAbsent
    <3>5. QED  BY <1>1, <3>2, <3>4 DEF Removed
  <2>3. QED  BY <2>1, <2>2
<1>7. Sound(tree')  BY <1>6 DEF Removed
<1>8. ASSUME NEW i \in tree'.inUse
      PROVE  /\ i \in tree.inUse /\ Path(tree', i) = Path(tree, i)
             /\ Objects(tree', i) = {d \in live' : Touches(box'[d], Path(tree', i))}
  <2>1. /\ i \in tree.inUse /\ Path(tree', i) = Path(tree, i)
        /\ Objects(tree', i) = Objects(tree, i) \ {x \in {c} : Path(tree, i) \in W}
    BY <1>6 DEF Removed
  <2>2. Path(tree, i) \in W <=> Touches(box[c], Path(tree, i))  BY <1>5, <2>1 DEF b
  <2>3. Objects(tree, i) = {d \in live : Touches(box[d], Path(tree, i))}  BY <1>5, <2>1
  <2> HIDE DEF W
  <2>4. \A d : d \in Objects(tree', i) <=> d \in live /\ d # c /\ Touches(box[d], Path(tree, i))
    BY <2>1, <2>2, <2>3
  <2>5. \A d : d \in live' <=> d \in live /\ d # c  BY <1>2
  <2>6. \A d : d \in Objects(tree', i) <=> d \in live' /\ Touches(box'[d], Path(tree', i))
    BY <1>4, <2>1, <2>4, <2>5
  <2>7. Objects(tree', i) = {d \in Objects(tree', i) : TRUE}  BY <2>1
  <2>8. QED  BY <2>1, <2>6, <2>7
<1>9. {Path(tree', i) : i \in tree'.inUse} =
        {<<>>} \cup {p \in Regions : \E d \in live' : Touches(box'[d], p)}
  <2>1. {Path(tree, i) : i \in tree.inUse} =
          {<<>>} \cup {p \in Regions : \E d \in live : Touches(box[d], p)}
    BY <1>1 DEF Placement
  <2>2. ASSUME NEW i \in tree'.inUse, Path(tree', i) # <<>>
        PROVE  \E d \in live' : Touches(box'[d], Path(tree', i))
    <3>1. Objects(tree, i) # {}
      <4>1. PICK d \in live : Touches(box[d], Path(tree, i))  BY <1>8, <2>1, <2>2
      <4>2. QED  BY <1>5, <1>8, <4>1
    <3>2. ~(Path(tree, i) \in W \ {<<>>} /\ Objects(tree, i) \subseteq {c})  BY <1>6 DEF Removed
    <3>3. Objects(tree', i) = Objects(tree, i) \ {x \in {c} : Path(tree, i) \in W}  BY <1>6 DEF Removed
    <3>4. Path(tree, i) # <<>>  BY <1>8, <2>2
    <3> HIDE DEF W
    <3>5. Objects(tree', i) # {}  BY <3>1, <3>2, <3>3, <3>4
    <3>6. PICK d \in Objects(tree', i) : TRUE  BY <3>5
    <3>7. QED  BY <1>8, <3>6
  <2>3. \A i \in tree'.inUse : Path(tree', i) \in Regions  BY <1>5, <1>8
  <2>4. ASSUME NEW p \in Regions, NEW d \in live', Touches(box'[d], p)
        PROVE  \E i \in tree'.inUse : Path(tree', i) = p
    <3>1. d \in live /\ d # c /\ Touches(box[d], p)  BY <1>4, <2>4
    <3>2. p \in {Path(tree, i) : i \in tree.inUse}  BY <2>1, <3>1
    <3>3. PICK i \in tree.inUse : Path(tree, i) = p  BY <3>2
    <3>4. d \in Objects(tree, i)  BY <1>5, <3>1, <3>3
    <3>5. i \in tree'.inUse  BY <1>6, <3>1, <3>4 DEF Removed
    <3>6. QED  BY <1>8, <3>3, <3>5
  <2>5. 0 \in tree'.inUse /\ Path(tree', 0) = <<>>  BY <1>7 DEF Sound, Kept, Linked
  <2>6. QED  BY <2>2, <2>3, <2>4, <2>5
<1>10. Placement'  BY <1>8, <1>9 DEF Placement
<1>11. QED  BY <1>4, <1>7, <1>10 DEF TreeInv

(* The invariant that everything about the tree follows from.              *)
LEMMA TreeInvariant ==
  TreeSpec => []TreeInv
<1>1. TreeInv /\ UNCHANGED treeVars => TreeInv'
  BY DEF TreeInv, Placement, treeVars
<1>2. TreeInv /\ [TreeNext]_treeVars => TreeInv'
  BY <1>1, ReloadKeeps, CreateKeeps, ReleaseKeeps DEF TreeNext
<1>3. QED  BY <1>2, InitKeeps, PTL DEF TreeSpec

LEMMA TypeFollows ==
  TreeInv => TreeTypeOK
<1> SUFFICES ASSUME TreeInv PROVE TreeTypeOK  OBVIOUS
<1>1. Kept(tree) /\ Linked(tree)  BY DEF TreeInv, Sound
<1>2. tree \in Trees /\ tree.inUse \subseteq Indices /\ ToSet(tree.available) \subseteq Indices
  BY <1>1 DEF Kept, Indices
<1>3. 0 \in tree.inUse  BY <1>1 DEF Kept
<1>4. ASSUME NEW i \in tree.inUse PROVE Children(tree, i) \in [Octants -> Indices]
  <2>1. Children(tree, i) \in [Octants -> Nat]  BY <1>1 DEF Linked
  <2>2. \A k \in Octants : Children(tree, i)[k] # 0 => Children(tree, i)[k] \in tree.inUse
    BY <1>1 DEF Linked
  <2>3. \A k \in Octants : Children(tree, i)[k] \in Indices  BY <1>2, <1>3, <2>2
  <2>4. QED  BY <2>1, <2>3
<1>5. QED  BY <1>2, <1>4 DEF TreeInv, TreeTypeOK

(* In every reachable state the tree is a pool of nodes that name each     *)
(* other by indices of the pool.                                           *)
THEOREM TreeTypeCorrect == TreeSpec => []TreeTypeOK
BY TreeInvariant, TypeFollows, PTL

LEMMA PoolFollows ==
  TreeInv => PoolConsistent
<1> SUFFICES ASSUME TreeInv PROVE PoolConsistent  OBVIOUS
<1>1. Kept(tree) /\ Linked(tree) /\ Sound(tree)  BY DEF TreeInv, Sound
<1>2. \A i \in tree.inUse : Path(tree, i) \in Regions  BY <1>1, InUse, NodeIs DEF Kept
<1>3. ASSUME NEW p \in tree.inUse, NEW i
      PROVE  i \in Links(p) <=> i # 0 /\ \E k \in Octants : Children(tree, p)[k] = i
  <2>1. Children(tree, p) \in [Octants -> Nat]  BY <1>1 DEF Linked
  <2>2. DOMAIN Children(tree, p) = Octants  BY <2>1
  <2>3. QED  BY <2>2 DEF Links, ToSet
<1>4. ASSUME NEW i \in tree.inUse \ {0}
      PROVE  Cardinality({p \in tree.inUse : i \in Links(p)}) = 1
  <2>1. PICK p \in tree.inUse, k \in Octants : Children(tree, p)[k] = i  BY <1>1 DEF Linked
  <2>2. Len(Path(tree, p)) < Depth /\ Path(tree, i) = Append(Path(tree, p), k)  BY <1>1, <2>1 DEF Linked
  <2>3. ASSUME NEW q \in tree.inUse, i \in Links(q) PROVE q = p
    <3>1. PICK m \in Octants : Children(tree, q)[m] = i  BY <1>3, <2>3
    <3>2. Path(tree, i) = Append(Path(tree, q), m)  BY <1>1, <3>1 DEF Linked
    <3>3. Path(tree, p) = Path(tree, q)
      <4> DEFINE a == Path(tree, p)
                 b == Path(tree, q)
      <4>1. a \in Regions /\ b \in Regions /\ Len(a) < Depth /\ Append(a, k) = Append(b, m)
        BY <1>2, <2>2, <3>2
      <4> HIDE DEF a, b
      <4>2. a = b  BY <4>1, ChildPath
      <4>3. QED  BY <4>2 DEF a, b
    <3>4. QED  BY <1>1, <3>3 DEF Linked
  <2>4. i \in Links(p)  BY <1>3, <2>1
  <2>5. {q \in tree.inUse : i \in Links(q)} = {p}  BY <2>3, <2>4
  <2>6. QED  BY <2>5, FS_Singleton
<1>5. \A i \in tree.inUse, k \in Octants :
        LET j == Children(tree, i)[k]
        IN j # 0 => j \in tree.inUse /\ Path(tree, j) = Append(Path(tree, i), k)
  BY <1>1 DEF Linked
<1>6. QED  BY <1>1, <1>4, <1>5 DEF PoolConsistent, Kept, Indices

(* Whatever chunks come and go, every node of the pool is in use or        *)
(* available, once, and each node in use but the root has one parent.      *)
THEOREM PoolStaysConsistent == TreeSpec => []PoolConsistent
BY TreeInvariant, PoolFollows, PTL

(* A node holds the live chunks that touch its region, and there are nodes *)
(* for exactly the regions that a live chunk touches.                      *)
THEOREM PlacementHolds == TreeSpec => []Placement
<1>1. TreeInv => Placement  BY DEF TreeInv
<1>2. QED  BY <1>1, TreeInvariant, PTL

-----------------------------------------------------------------------------
(* The query.                                                              *)

(* The children that exist, each once.                                     *)
LEMMA ExistingIs ==
  ASSUME NEW children \in [Octants -> Nat],
         \A k, m \in Octants : children[k] = children[m] /\ children[k] # 0 => k = m
  PROVE  /\ Existing(children) \in Seq(Nat) /\ IsInjective(Existing(children))
         /\ ToSet(Existing(children)) = {children[k] : k \in Octants} \ {0}
<1>1. Arity \in Nat /\ Octants = 1 .. Arity  BY ShapeAssumption DEF Octants
<1>2. PICK f : /\ f[0] = <<>>
               /\ \A k \in 1 .. Arity :
                    f[k] = IF children[k] = 0 THEN f[k - 1] ELSE Append(f[k - 1], children[k])
               /\ Existing(children) = f[Arity]
  BY PushLoop
<1> DEFINE Pushed(k) == {children[m] : m \in 1 .. k} \ {0}
           T == {k \in 0 .. Arity : f[k] \in Seq(Nat) /\ IsInjective(f[k]) /\ ToSet(f[k]) = Pushed(k)}
<1>3. 0 \in T
  <2>1. Pushed(0) = {}  OBVIOUS
  <2>2. <<>> \in Seq(Nat) /\ IsInjective(<<>>) /\ ToSet(<<>>) = {}  BY DEF IsInjective, ToSet
  <2>3. 0 \in 0 .. Arity  BY <1>1
  <2>4. QED  BY <1>2, <2>1, <2>2, <2>3
<1>4. ASSUME NEW k \in 1 .. Arity, k - 1 \in T PROVE k \in T
  <2>1. f[k - 1] \in Seq(Nat) /\ IsInjective(f[k - 1]) /\ ToSet(f[k - 1]) = Pushed(k - 1)  BY <1>4
  <2>2. k \in Octants /\ k \in 0 .. Arity /\ children[k] \in Nat  BY <1>1
  <2>3. \A m : m \in 1 .. k <=> m \in 1 .. k - 1 \/ m = k  BY <1>1
  <2>4. \A m \in 1 .. k - 1 : m \in Octants /\ m # k  BY <1>1
  <2>5. CASE children[k] = 0
    <3>1. f[k] = f[k - 1]  BY <1>2, <2>5
    <3>2. Pushed(k) = Pushed(k - 1)  BY <2>3, <2>5
    <3> HIDE DEF Pushed
    <3>3. QED  BY <2>1, <2>2, <3>1, <3>2
  <2>6. CASE children[k] # 0
    <3>1. f[k] = Append(f[k - 1], children[k])  BY <1>2, <2>6
    <3>2. children[k] \notin Pushed(k - 1)  BY <2>2, <2>4, <2>6
    <3>3. Pushed(k) = Pushed(k - 1) \cup {children[k]}  BY <2>3, <2>6
    <3> HIDE DEF Pushed
    <3>4. f[k] \in Seq(Nat) /\ IsInjective(f[k]) /\ ToSet(f[k]) = Pushed(k)
      BY <2>1, <2>2, <3>1, <3>2, <3>3, PushIs
    <3>5. QED  BY <2>2, <3>4
  <2>7. QED  BY <2>5, <2>6
<1>5. Arity \in T
  <2> HIDE DEF T
  <2>1. \A k \in 0 .. Arity : k \in T  BY <1>1, <1>3, <1>4, TurnByTurn
  <2>2. QED  BY <1>1, <2>1
<1>6. QED  BY <1>1, <1>2, <1>5

(* Two lists that share nothing, one after the other.                      *)
LEMMA JoinIs ==
  ASSUME NEW s \in Seq(Nat), NEW e \in Seq(Nat), IsInjective(s), IsInjective(e),
         ToSet(s) \cap ToSet(e) = {}
  PROVE  s \o e \in Seq(Nat) /\ IsInjective(s \o e) /\ ToSet(s \o e) = ToSet(s) \cup ToSet(e)
<1> DEFINE n == Len(s)
           m == Len(e)
           z == s \o e
<1>1. /\ n \in Nat /\ m \in Nat /\ z \in Seq(Nat) /\ Len(z) = n + m
      /\ \A i \in 1 .. n + m : z[i] = IF i <= n THEN s[i] ELSE e[i - n]
  BY ConcatProperties
<1>2. /\ ToSet(s) = {s[i] : i \in 1 .. n} /\ ToSet(e) = {e[i] : i \in 1 .. m}
      /\ \A i, j \in 1 .. n : s[i] = s[j] => i = j
      /\ \A i, j \in 1 .. m : e[i] = e[j] => i = j
  BY ListIs
<1> HIDE DEF z
<1>3. /\ ToSet(z) = {z[i] : i \in 1 .. n + m}
      /\ IsInjective(z) <=> \A i, j \in 1 .. n + m : z[i] = z[j] => i = j
  BY <1>1, ListIs
<1> HIDE DEF n, m
<1>4. \A i \in 1 .. n : i \in 1 .. n + m /\ z[i] = s[i]  BY <1>1
<1>5. \A i \in 1 .. m : n + i \in 1 .. n + m /\ z[n + i] = e[i]
  <2>1. SUFFICES ASSUME NEW i \in 1 .. m PROVE n + i \in 1 .. n + m /\ z[n + i] = e[i]  OBVIOUS
  <2>2. n + i \in 1 .. n + m /\ ~(n + i <= n) /\ n + i - n = i  BY <1>1
  <2>3. QED  BY <1>1, <2>2
<1>6. \A i \in 1 .. n + m : i \in 1 .. n \/ (i - n \in 1 .. m /\ i = n + (i - n))  BY <1>1
<1>7. \A i \in 1 .. n + m : z[i] \in ToSet(s) \cup ToSet(e)
  <2>1. SUFFICES ASSUME NEW i \in 1 .. n + m PROVE z[i] \in ToSet(s) \cup ToSet(e)  OBVIOUS
  <2>2. CASE i \in 1 .. n  BY <1>2, <1>4, <2>2
  <2>3. CASE i - n \in 1 .. m /\ i = n + (i - n)
    <3>1. z[i] = e[i - n]  BY <1>5, <2>3
    <3>2. QED  BY <1>2, <2>3, <3>1
  <2>4. QED  BY <1>6, <2>2, <2>3
<1>8. ToSet(z) = ToSet(s) \cup ToSet(e)
  <2>1. \A v \in ToSet(s) : v \in ToSet(z)  BY <1>2, <1>3, <1>4
  <2>2. \A v \in ToSet(e) : v \in ToSet(z)
    <3>1. SUFFICES ASSUME NEW i \in 1 .. m PROVE e[i] \in ToSet(z)  BY <1>2
    <3>2. QED  BY <1>3, <1>5
  <2>3. QED  BY <1>3, <1>7, <2>1, <2>2
<1>9. ASSUME NEW i \in 1 .. n + m, NEW j \in 1 .. n + m, z[i] = z[j] PROVE i = j
  <2>1. CASE i \in 1 .. n /\ j \in 1 .. n  BY <1>2, <1>4, <1>9, <2>1
  <2>2. \A x \in 1 .. n + m, y \in 1 .. n + m :
          x \in 1 .. n /\ (y - n \in 1 .. m /\ y = n + (y - n)) => z[x] # z[y]
    <3>1. SUFFICES ASSUME NEW x \in 1 .. n, NEW y \in 1 .. m PROVE z[x] # z[n + y]  BY <1>1
    <3>2. z[x] = s[x] /\ z[n + y] = e[y]  BY <1>4, <1>5
    <3>3. s[x] \in ToSet(s) /\ e[y] \in ToSet(e)  BY <1>2
    <3>4. QED  BY <3>2, <3>3
  <2>3. CASE /\ i - n \in 1 .. m /\ i = n + (i - n)
             /\ j - n \in 1 .. m /\ j = n + (j - n)
    <3>1. z[i] = e[i - n] /\ z[j] = e[j - n]  BY <1>5, <2>3
    <3>2. i - n = j - n  BY <1>2, <1>9, <2>3, <3>1
    <3>3. QED  BY <1>1, <3>2
  <2>4. QED  BY <1>6, <1>9, <2>1, <2>2, <2>3
<1>10. QED  BY <1>1, <1>3, <1>8, <1>9 DEF z

(* The chunks the query should report.                                     *)
Seen(f) == {c \in live : \E leaf \in box[c] : f[leaf] # "NONE"}

(* A chunk that is seen in a region.                                       *)
SeenIn(f, c, p) == \E leaf \in box[c] : f[leaf] # "NONE" /\ IsPrefix(p, leaf)

(* Nodes of the stack lie apart, and none of them above a node of V.       *)
Apart(t, S, V) ==
  /\ S \subseteq t.inUse /\ V \subseteq t.inUse
  /\ \A i, j \in S : IsPrefix(Path(t, i), Path(t, j)) => i = j
  /\ \A i \in S, v \in V : ~IsPrefix(Path(t, i), Path(t, v))

(* The query under way, V the nodes it is done with: every chunk still to  *)
(* be reported is seen in the region of a node on the stack.                *)
Walk(f, q, V) ==
  /\ q.stack \in Seq(Nat) /\ IsInjective(q.stack)
  /\ Apart(tree, ToSet(q.stack), V)
  /\ q.objects \subseteq Seen(f)
  /\ \A c \in Seen(f) : c \in q.objects \/ \E i \in ToSet(q.stack) : SeenIn(f, c, Path(tree, i))

(* What a node has for children, and that they cover what is seen below it. *)
LEMMA ChildrenCover ==
  ASSUME TreeInv, NEW i \in tree.inUse, Len(Path(tree, i)) < Depth,
         NEW C, C = ToSet(Existing(Children(tree, i)))
  PROVE  /\ Existing(Children(tree, i)) \in Seq(Nat) /\ IsInjective(Existing(Children(tree, i)))
         /\ C \subseteq tree.inUse
         /\ \A j \in C : \E k \in Octants : Path(tree, j) = Append(Path(tree, i), k)
         /\ \A f, c : c \in live /\ SeenIn(f, c, Path(tree, i)) =>
                        \E j \in C : SeenIn(f, c, Path(tree, j))
<1> DEFINE p == Path(tree, i)
           ch == Children(tree, i)
<1>1. Sound(tree) /\ Linked(tree) /\ Kept(tree) /\ Placement
      /\ live \subseteq Chunks /\ box \in [Chunks -> Boxes \cup {{}}]
  BY DEF TreeInv, Sound
<1>2. p \in Regions  BY <1>1, InUse, NodeIs DEF Kept
<1>3. ch \in [Octants -> Nat]  BY <1>1 DEF Linked
<1>4. \A k \in Octants : ch[k] # 0 => ch[k] \in tree.inUse /\ Path(tree, ch[k]) = Append(p, k)
  BY <1>1 DEF Linked
<1>5. \A k, m \in Octants : ch[k] = ch[m] /\ ch[k] # 0 => k = m
  <2>1. SUFFICES ASSUME NEW k \in Octants, NEW m \in Octants, ch[k] = ch[m], ch[k] # 0
                 PROVE  k = m
    OBVIOUS
  <2>2. Append(p, k) = Append(p, m)  BY <1>4, <2>1
  <2> HIDE DEF p, ch
  <2>3. QED  BY <1>2, <2>2, ChildPath DEF p
<1>6. /\ Existing(ch) \in Seq(Nat) /\ IsInjective(Existing(ch))
      /\ C = {ch[k] : k \in Octants} \ {0}
  <2> HIDE DEF ch
  <2>1. QED  BY <1>3, <1>5, ExistingIs DEF ch
<1>7. C \subseteq tree.inUse /\ \A j \in C : \E k \in Octants : Path(tree, j) = Append(p, k)
  BY <1>4, <1>6
<1>8. ASSUME NEW f, NEW c \in live, SeenIn(f, c, p)
      PROVE  \E j \in C : SeenIn(f, c, Path(tree, j))
  <2>1. PICK leaf \in box[c] : f[leaf] # "NONE" /\ IsPrefix(p, leaf)  BY <1>8 DEF SeenIn
  <2>2. leaf \in Leaves /\ leaf \in Regions
    <3>1. box[c] \subseteq Leaves  BY <1>1, BoxAssumption
    <3>2. QED  BY <1>2, <3>1, LeavesAre
  <2>3. p # leaf
    <3>1. Len(leaf) = Depth  BY <2>2, LeavesAre
    <3>2. Len(p) # Depth
      <4>1. Len(p) \in Nat /\ Depth \in Nat /\ Len(p) < Depth  BY <1>2, RegionIs, ShapeAssumption
      <4>2. QED  BY <4>1
    <3>3. QED  BY <3>1, <3>2
  <2>4. PICK k \in Octants : IsPrefix(Append(p, k), leaf)
    <3> HIDE DEF p
    <3>1. QED  BY <1>2, <2>1, <2>2, <2>3, OctantOf
  <2> DEFINE a == Append(p, k)
  <2>5. a \in Regions  BY <1>2, ChildPath
  <2>6. Touches(box[c], a)  BY <2>1, <2>4 DEF Touches
  <2>7. a \in {Path(tree, j) : j \in tree.inUse}  BY <1>1, <2>5, <2>6 DEF Placement
  <2>8. PICK j \in tree.inUse : Path(tree, j) = a  BY <2>7
  <2>9. ch[k] = j /\ j # 0  BY <1>1, <2>8, ChildAt
  <2>10. j \in C  BY <1>6, <2>9
  <2>11. SeenIn(f, c, Path(tree, j))  BY <2>1, <2>4, <2>8 DEF SeenIn
  <2>12. QED  BY <2>10, <2>11
<1>9. QED  BY <1>6, <1>7, <1>8

(* Nodes that are children of a node, going by their paths.                *)
Offspring(t, i, C) ==
  /\ C \subseteq t.inUse
  /\ Len(Path(t, i)) < Depth \/ C = {}
  /\ \A j \in C : \E k \in Octants : Path(t, j) = Append(Path(t, i), k)

(* The nodes on the stack lie apart still when one gives way to children.  *)
LEMMA StackApart ==
  ASSUME NEW t, Sound(t), NEW S, NEW V, Apart(t, S, V), NEW i \in S, NEW C, Offspring(t, i, C)
  PROVE  (S \ {i}) \cap C = {} /\ Apart(t, (S \ {i}) \cup C, V \cup {i})
<1> DEFINE R == (S \ {i}) \cup C
<1>0. /\ S \subseteq t.inUse /\ V \subseteq t.inUse
      /\ \A x, y \in S : IsPrefix(Path(t, x), Path(t, y)) => x = y
      /\ \A x \in S, v \in V : ~IsPrefix(Path(t, x), Path(t, v))
  BY DEF Apart
<1>1. C \subseteq t.inUse /\ \A x \in t.inUse : Path(t, x) \in Regions
  BY InUse, NodeIs DEF Sound, Kept, Offspring
<1>2. \A x, y \in t.inUse : Path(t, x) = Path(t, y) => x = y  BY DEF Sound, Linked
<1> DEFINE p == Path(t, i)
<1>3. p \in Regions /\ \A x \in S : x \in t.inUse /\ Path(t, x) \in Regions  BY <1>0, <1>1
<1>4. \A j \in C : /\ Path(t, j) \in Regions /\ IsPrefix(p, Path(t, j)) /\ ~IsPrefix(Path(t, j), p)
                   /\ \A q \in Regions : IsPrefix(q, Path(t, j)) => IsPrefix(q, p) \/ q = Path(t, j)
  <2>1. SUFFICES ASSUME NEW j \in C
                 PROVE  /\ Path(t, j) \in Regions /\ IsPrefix(p, Path(t, j)) /\ ~IsPrefix(Path(t, j), p)
                        /\ \A q \in Regions : IsPrefix(q, Path(t, j)) => IsPrefix(q, p) \/ q = Path(t, j)
    OBVIOUS
  <2>2. PICK k \in Octants : Path(t, j) = Append(p, k)  BY DEF Offspring
  <2>3. Len(p) < Depth  BY <2>1 DEF Offspring
  <2> HIDE DEF p
  <2>4. QED  BY <1>3, <2>2, <2>3, ChildPath
<1> HIDE DEF p
<1>5. \A q, r \in Regions : IsPrefix(p, q) /\ IsPrefix(q, r) => IsPrefix(p, r)  BY <1>3, PrefixOrder
<1>6. \A j \in C : j \notin S \ {i}
  <2>1. SUFFICES ASSUME NEW j \in C, j \in S, j # i PROVE FALSE  OBVIOUS
  <2>2. IsPrefix(Path(t, i), Path(t, j))  BY <1>4 DEF p
  <2>3. QED  BY <1>0, <2>1, <2>2
<1>7. ASSUME NEW x \in R, NEW y \in R, IsPrefix(Path(t, x), Path(t, y)) PROVE x = y
  <2>1. CASE x \in S \ {i} /\ y \in S \ {i}  BY <1>0, <1>7, <2>1
  <2>2. CASE x \in S \ {i} /\ y \in C
    <3>1. IsPrefix(Path(t, x), p) \/ Path(t, x) = Path(t, y)  BY <1>3, <1>4, <1>7, <2>2
    <3>2. ~IsPrefix(Path(t, x), p)  BY <1>0, <2>2 DEF p
    <3>3. Path(t, x) = Path(t, y)  BY <3>1, <3>2
    <3>4. QED  BY <1>0, <1>1, <1>2, <2>2, <3>3
  <2>3. CASE x \in C /\ y \in S \ {i}
    <3>1. IsPrefix(p, Path(t, y))  BY <1>3, <1>4, <1>5, <1>7, <2>3
    <3>2. QED  BY <1>0, <2>3, <3>1 DEF p
  <2>4. CASE x \in C /\ y \in C
    <3>1. Path(t, x) = Path(t, y)  BY <1>4, <1>7, <2>4
    <3>2. QED  BY <1>1, <1>2, <2>4, <3>1
  <2>5. QED  BY <2>1, <2>2, <2>3, <2>4
<1>8. ASSUME NEW x \in R, NEW v \in V \cup {i}, IsPrefix(Path(t, x), Path(t, v)) PROVE FALSE
  <2>1. CASE x \in S \ {i} /\ v \in V  BY <1>0, <1>8, <2>1
  <2>2. CASE x \in S \ {i} /\ v = i  BY <1>0, <1>8, <2>2
  <2>3. CASE x \in C /\ v = i  BY <1>4, <1>8, <2>3 DEF p
  <2>4. CASE x \in C /\ v \in V
    <3>1. IsPrefix(p, Path(t, v))  BY <1>0, <1>1, <1>4, <1>5, <1>8, <2>4
    <3>2. QED  BY <1>0, <2>4, <3>1 DEF p
  <2>5. QED  BY <2>1, <2>2, <2>3, <2>4
<1>9. QED  BY <1>0, <1>1, <1>6, <1>7, <1>8 DEF Apart

(* One turn of the query.                                                  *)
LEMMA TurnIs ==
  ASSUME TreeInv, NEW f \in Frusta, NEW q, NEW V, Walk(f, q, V), q.stack # <<>>,
         NEW r, r = Turn(tree, f, q), NEW i, i = Last(q.stack)
  PROVE  i \in tree.inUse /\ i \notin V /\ Walk(f, r, V \cup {i})
<1>1. Sound(tree) /\ Linked(tree) /\ Kept(tree) /\ Placement
      /\ live \subseteq Chunks /\ box \in [Chunks -> Boxes \cup {{}}]
  BY DEF TreeInv, Sound
<1> DEFINE S == ToSet(q.stack)
           rest == Front(q.stack)
           p == Path(tree, i)
           v == Visit(tree, f, i)
<1>2. /\ rest \in Seq(Nat) /\ IsInjective(rest) /\ i \in S /\ ToSet(rest) = S \ {i}
  BY PopIs DEF Walk
<1>3. i \in tree.inUse /\ p \in Regions /\ IsPrefix(p, p)
  <2>1. i \in tree.inUse  BY <1>2 DEF Walk, Apart
  <2>2. p \in Regions  BY <1>1, <2>1, InUse, NodeIs DEF Kept
  <2>3. QED  BY <2>1, <2>2, PrefixOrder
<1>4. i \notin V  BY <1>2, <1>3 DEF Walk, Apart
<1>5. r = [stack |-> rest \o v.push, objects |-> q.objects \cup v.found]  BY DEF Turn
<1>6. /\ f \in [Regions -> {"NONE", "PARTIAL", "FULL"}]
      /\ \A g \in Regions : IsPrefix(p, g) /\ f[p] # "PARTIAL" => f[g] = f[p]
  BY <1>3, FrustumAssumption
<1>7. Len(p) \in Nat /\ Depth \in Nat /\ Len(p) <= Depth  BY <1>3, RegionIs, ShapeAssumption
<1>8. \A c \in live : box[c] \subseteq Leaves  BY <1>1, BoxAssumption
<1>9. \A leaf \in Leaves : leaf \in Regions /\ (IsPrefix(p, leaf) /\ Len(p) = Depth => leaf = p)
  <2>1. \A leaf \in Leaves : leaf \in Regions  BY <1>3, LeavesAre
  <2>2. ASSUME NEW leaf \in Leaves, IsPrefix(p, leaf), Len(p) = Depth PROVE leaf = p
    <3> HIDE DEF p
    <3>1. p \in Leaves /\ leaf \in Regions  BY <1>3, <2>1, <2>2, LeavesAre
    <3>2. QED  BY <2>2, <3>1, LeavesAre
  <2>3. QED  BY <2>1, <2>2
<1>10. /\ v.push \in Seq(Nat) /\ IsInjective(v.push) /\ ToSet(v.push) \subseteq tree.inUse
       /\ Len(p) < Depth \/ ToSet(v.push) = {}
       /\ \A j \in ToSet(v.push) : \E k \in Octants : Path(tree, j) = Append(p, k)
       /\ v.found \subseteq Seen(f)
       /\ \A c \in Seen(f) : SeenIn(f, c, p) =>
            c \in v.found \/ \E j \in ToSet(v.push) : SeenIn(f, c, Path(tree, j))
  <2>1. CASE f[p] = "PARTIAL" /\ ~IsLeaf(p)
    <3>1. v = [push |-> Existing(Children(tree, i)), found |-> {}]  BY <2>1 DEF Visit
    <3>2. Len(p) < Depth
      <4>1. Len(p) # Depth  BY <2>1 DEF IsLeaf
      <4> HIDE DEF p
      <4>2. QED  BY <1>7, <4>1
    <3>3. v.push = Existing(Children(tree, i)) /\ v.found = {}  BY <3>1
    <3> HIDE DEF v
    <3>4. /\ Existing(Children(tree, i)) \in Seq(Nat) /\ IsInjective(Existing(Children(tree, i)))
          /\ ToSet(Existing(Children(tree, i))) \subseteq tree.inUse
          /\ \A j \in ToSet(Existing(Children(tree, i))) : \E k \in Octants : Path(tree, j) = Append(p, k)
          /\ \A c : c \in live /\ SeenIn(f, c, p) =>
               \E j \in ToSet(Existing(Children(tree, i))) : SeenIn(f, c, Path(tree, j))
      BY <1>3, <3>2, ChildrenCover
    <3>5. \A c \in Seen(f) : c \in live  BY DEF Seen
    <3>6. QED  BY <3>2, <3>3, <3>4, <3>5
  <2>2. CASE f[p] = "NONE"
    <3>1. v = [push |-> <<>>, found |-> {}]  BY <2>2 DEF Visit
    <3>2. v.push = <<>> /\ v.found = {}  BY <3>1
    <3> HIDE DEF v
    <3>3. <<>> \in Seq(Nat) /\ IsInjective(<<>>) /\ ToSet(<<>>) = {}  BY DEF IsInjective, ToSet
    <3>4. ASSUME NEW c \in Seen(f), SeenIn(f, c, p) PROVE FALSE
      <4>1. PICK leaf \in box[c] : f[leaf] # "NONE" /\ IsPrefix(p, leaf)  BY <3>4 DEF SeenIn
      <4>2. c \in live  BY DEF Seen
      <4>3. leaf \in Regions  BY <1>8, <1>9, <4>1, <4>2
      <4>4. QED  BY <1>6, <2>2, <4>1, <4>3
    <3>5. QED  BY <3>2, <3>3, <3>4
  <2>3. CASE f[p] # "NONE" /\ ~(f[p] = "PARTIAL" /\ ~IsLeaf(p))
    <3>1. v = [push |-> <<>>, found |-> Objects(tree, i)]  BY <2>3 DEF Visit
    <3>2. v.push = <<>> /\ v.found = Objects(tree, i)  BY <3>1
    <3> HIDE DEF v
    <3>3. <<>> \in Seq(Nat) /\ IsInjective(<<>>) /\ ToSet(<<>>) = {}  BY DEF IsInjective, ToSet
    <3>4. Objects(tree, i) = {c \in live : Touches(box[c], p)}  BY <1>1, <1>3 DEF Placement
    <3>5. ASSUME NEW c \in live, NEW leaf \in box[c], IsPrefix(p, leaf) PROVE f[leaf] # "NONE"
      <4>1. leaf \in Leaves /\ leaf \in Regions  BY <1>8, <1>9
      <4>2. CASE f[p] # "PARTIAL"  BY <1>6, <2>3, <3>5, <4>1, <4>2
      <4>3. CASE IsLeaf(p)
        <5>1. leaf = p  BY <1>9, <3>5, <4>1, <4>3 DEF IsLeaf
        <5>2. QED  BY <2>3, <5>1
      <4>4. QED  BY <2>3, <4>2, <4>3
    <3>6. v.found \subseteq Seen(f)  BY <3>2, <3>4, <3>5 DEF Seen, Touches
    <3>7. \A c \in Seen(f) : SeenIn(f, c, p) => c \in v.found
      BY <3>2, <3>4 DEF Seen, SeenIn, Touches
    <3>8. QED  BY <3>2, <3>3, <3>6, <3>7
  <2>4. QED  BY <2>1, <2>2, <2>3
<1> DEFINE C == ToSet(v.push)
           R == (S \ {i}) \cup C
<1> HIDE DEF v
<1>11. (S \ {i}) \cap C = {} /\ Apart(tree, R, V \cup {i})
  <2>1. Apart(tree, S, V)  BY DEF Walk
  <2>2. Offspring(tree, i, C)  BY <1>10 DEF Offspring
  <2>3. Sound(tree) /\ i \in S  BY <1>1, <1>2
  <2> HIDE DEF S, C
  <2>4. QED  BY <2>1, <2>2, <2>3, StackApart
<1>12. r.stack \in Seq(Nat) /\ IsInjective(r.stack) /\ ToSet(r.stack) = R
  <2>2. ToSet(rest) \cap ToSet(v.push) = {}  BY <1>2, <1>11
  <2> HIDE DEF rest
  <2>1. r.stack = rest \o v.push  BY <1>5
  <2>3. QED  BY <1>2, <1>10, <2>1, <2>2, JoinIs
<1>14. r.objects = q.objects \cup v.found /\ r.objects \subseteq Seen(f)
  <2>1. r.objects = q.objects \cup v.found  BY <1>5
  <2>2. QED  BY <1>10, <2>1 DEF Walk
<1>15. ASSUME NEW c \in Seen(f), c \notin r.objects
       PROVE  \E j \in R : SeenIn(f, c, Path(tree, j))
  <2>1. c \notin q.objects /\ c \notin v.found  BY <1>14, <1>15
  <2>2. PICK j \in S : SeenIn(f, c, Path(tree, j))  BY <2>1 DEF Walk
  <2>3. CASE j = i
    <3>1. \E m \in C : SeenIn(f, c, Path(tree, m))  BY <1>10, <2>1, <2>2, <2>3
    <3>2. QED  BY <3>1
  <2>4. CASE j # i  BY <2>2, <2>4
  <2>5. QED  BY <2>3, <2>4
<1> HIDE DEF R
<1>16. Walk(f, r, V \cup {i})  BY <1>11, <1>12, <1>14, <1>15 DEF Walk
<1>17. QED  BY <1>3, <1>4, <1>16

LEMMA QueryFollows ==
  TreeInv => QueryExact
<1> SUFFICES ASSUME TreeInv, NEW f \in Frusta, NEW q, q = Traverse(tree, f)
             PROVE  q.stack = <<>> /\ q.objects = Seen(f)
  BY DEF QueryExact, Seen
<1>1. Sound(tree) /\ Kept(tree) /\ Linked(tree) /\ Placement
      /\ live \subseteq Chunks /\ box \in [Chunks -> Boxes \cup {{}}]
  BY DEF TreeInv, Sound
<1> DEFINE L == Len(tree.pool)
<1>2. L \in Nat /\ tree.inUse \subseteq 0 .. L - 1  BY <1>1 DEF Kept, Trees
<1>3. PICK g : /\ g[0] = [stack |-> <<0>>, objects |-> {}]
               /\ \A n \in 1 .. L : g[n] = Turn(tree, f, g[n - 1])
               /\ q = g[L]
  BY <1>2, QueryLoop
<1> HIDE DEF L
<1>4. IsFiniteSet(tree.inUse) /\ Cardinality(tree.inUse) <= L
  <2>1. IsFiniteSet(0 .. L - 1) /\ Cardinality(0 .. L - 1) = L  BY <1>2, FS_Interval
  <2>2. IsFiniteSet(tree.inUse)  BY <1>2, <2>1, FS_Subset
  <2>3. Cardinality(tree.inUse) <= Cardinality(0 .. L - 1)  BY <1>2, <2>1, FS_Subset
  <2>4. QED  BY <2>1, <2>2, <2>3
<1> DEFINE Holds(n, V) == Walk(f, g[n], V) /\ (g[n].stack # <<>> => Cardinality(V) = n)
           T == {n \in 0 .. L : \E V : Holds(n, V)}
<1>5. 0 \in T
  <2>1. g[0].stack = <<0>> /\ g[0].objects = {}  BY <1>3
  <2>2. <<0>> \in Seq(Nat) /\ IsInjective(<<0>>) /\ ToSet(<<0>>) = {0}  BY DEF IsInjective, ToSet
  <2>3. 0 \in tree.inUse /\ Path(tree, 0) = <<>>  BY <1>1 DEF Kept, Linked
  <2>4. ASSUME NEW c \in Seen(f) PROVE SeenIn(f, c, Path(tree, 0))
    <3>1. PICK leaf \in box[c] : f[leaf] # "NONE"  BY DEF Seen
    <3>2. c \in live /\ box[c] \subseteq Leaves  BY <1>1, BoxAssumption DEF Seen
    <3>3. leaf \in Regions
      <4>1. <<>> \in Regions  BY <1>1, <2>3, InUse, NodeIs DEF Kept
      <4>2. QED  BY <3>2, <4>1, LeavesAre
    <3>4. IsPrefix(<<>>, leaf)  BY <3>3, PrefixOrder
    <3>5. QED  BY <2>3, <3>1, <3>4 DEF SeenIn
  <2>5. Walk(f, g[0], {})  BY <2>1, <2>2, <2>3, <2>4 DEF Walk, Apart
  <2>6. Cardinality({}) = 0  BY FS_EmptySet
  <2>7. 0 \in 0 .. L  BY <1>2
  <2>8. QED  BY <2>5, <2>6, <2>7
<1>6. ASSUME NEW n \in 1 .. L, n - 1 \in T PROVE n \in T
  <2>1. PICK V : Holds(n - 1, V)  BY <1>6
  <2>2. g[n] = Turn(tree, f, g[n - 1]) /\ n \in 0 .. L  BY <1>2, <1>3
  <2>3. CASE g[n - 1].stack = <<>>
    <3>1. g[n] = g[n - 1]  BY <2>2, <2>3 DEF Turn
    <3>2. Holds(n, V)  BY <2>1, <2>3, <3>1
    <3>3. QED  BY <2>2, <3>2
  <2>4. CASE g[n - 1].stack # <<>>
    <3> DEFINE i == Last(g[n - 1].stack)
    <3>1. Walk(f, g[n - 1], V) /\ Cardinality(V) = n - 1  BY <2>1, <2>4
    <3> HIDE DEF i
    <3>2. i \in tree.inUse /\ i \notin V /\ Walk(f, g[n], V \cup {i})
      BY <2>2, <2>4, <3>1, TurnIs DEF i
    <3>3. IsFiniteSet(V)  BY <1>4, <3>1, FS_Subset DEF Walk, Apart
    <3>4. Cardinality(V \cup {i}) = Cardinality(V) + 1  BY <3>2, <3>3, FS_AddElement
    <3>5. Cardinality(V \cup {i}) = n  BY <3>1, <3>4
    <3>6. Holds(n, V \cup {i})  BY <3>2, <3>5
    <3>7. QED  BY <2>2, <3>6
  <2>5. QED  BY <2>3, <2>4
<1>7. L \in T
  <2> HIDE DEF T
  <2>1. \A n \in 0 .. L : n \in T  BY <1>2, <1>5, <1>6, TurnByTurn
  <2>2. QED  BY <1>2, <2>1
<1>8. PICK V : Holds(L, V)  BY <1>7
<1>9. q.stack = <<>>
  <2>1. SUFFICES ASSUME q.stack # <<>> PROVE FALSE  OBVIOUS
  <2> DEFINE i == Last(q.stack)
  <2>2. Walk(f, q, V) /\ Cardinality(V) = L  BY <1>3, <1>8, <2>1
  <2>3. \A r : r = Turn(tree, f, q) => i \in tree.inUse /\ i \notin V
    <3> HIDE DEF i
    <3>1. QED  BY <2>1, <2>2, TurnIs DEF i
  <2> HIDE DEF i
  <2>4. i \in tree.inUse /\ i \notin V  BY <2>3
  <2>5. V \subseteq tree.inUse  BY <2>2 DEF Walk, Apart
  <2>6. Cardinality(V) < Cardinality(tree.inUse)
    <3>1. Cardinality(V) <= Cardinality(tree.inUse)
          /\ (Cardinality(V) = Cardinality(tree.inUse) => V = tree.inUse)
      BY <1>4, <2>5, FS_Subset
    <3>2. V # tree.inUse  BY <2>4
    <3>3. Cardinality(V) \in Nat /\ Cardinality(tree.inUse) \in Nat
      BY <1>4, <2>5, FS_Subset, FS_CardinalityType
    <3>4. QED  BY <3>1, <3>2, <3>3
  <2>7. Cardinality(V) \in Nat /\ Cardinality(tree.inUse) \in Nat
    BY <1>4, <2>5, FS_Subset, FS_CardinalityType
  <2>8. QED  BY <1>2, <1>4, <2>2, <2>6, <2>7
<1>10. Walk(f, q, V)  BY <1>3, <1>8
<1>11. ToSet(q.stack) = {}  BY <1>9 DEF ToSet
<1>12. q.objects = Seen(f)  BY <1>10, <1>11 DEF Walk
<1>13. QED  BY <1>9, <1>12

(* The frustum query of Scene::Update empties its stack, and reports the   *)
(* live chunks with a leaf in view and no others, for every answer that    *)
(* the frustum may give.                                                   *)
THEOREM QueriesExact == TreeSpec => []QueryExact
BY TreeInvariant, QueryFollows, PTL
=============================================================================
