---------------------------- MODULE Interaction ----------------------------
(***************************************************************************)
(* The creation modes of the application: the user presses a key to start  *)
(* "create an entity" or "create a path", points at the water, and clicks. *)
(*                                                                         *)
(* One frame reads the devices, dispatches the actions of the released     *)
(* keys one by one (Src/Application/ApplicationActions.cpp), and then runs *)
(* the picker once for every normal process of the scene's render stage    *)
(* (ScenePicker.cpp, called from Scene::Update by Display::Render).  The   *)
(* actions therefore see the pick of the PREVIOUS frame, and the picker    *)
(* starts or stops with the frame that follows the action.                 *)
(*                                                                         *)
(* Data left out: the camera, and where the pointer's ray goes: in every   *)
(* pass the ray may end anywhere the scene allows.                         *)
(***************************************************************************)
EXTENDS Naturals, Sequences

CONSTANTS
  Processes,    \* the normal processes of the scene's render stage, in order
  Water,        \* places on the water the pointer can reach
  Covered,      \* those inside the box of a chunk: a dummy there is drawn
  Ground,       \* any place on a chunk or on a dummy, above the water
  Nowhere,      \* the ray meets nothing
  MaxDummies    \* BOUND on the dummies of a run; the program has none

\* "base" is the process the picker works in (ScenePicker.cpp:57); in the
\* scene file it comes last (data/scenes/SceneTest00.lua).
ASSUME ScenePasses ==
  /\ Processes \in Seq({"reflection", "reflection2", "base"})
  /\ Len(Processes) > 0
  /\ Processes[Len(Processes)] = "base"
ASSUME Places ==
  /\ Covered \subseteq Water
  /\ Ground \notin Water
  /\ Nowhere \notin Water \cup {Ground}
ASSUME MaxDummiesNat == MaxDummies \in Nat

VARIABLES
  keys,        \* m_aKeysInfo, m_oMouseInfo: what was held when last read
  queue,       \* the active actions of this frame not yet dispatched
  phase,       \* 0: between frames; k: the k-th process is next
  mode,        \* m_eStateMode, or "CRASHED"
  callbacks,   \* the actions with a callback (ActionDispatcher::m_mCallbacks)
  pending,     \* m_uPendingAction
  active,      \* ScenePicker::m_bActive
  picked,      \* the entity of m_pPickedObject, Nobody for a chunk or NULL
  onWater,     \* ScenePicker::m_bPickOnWater
  cursor,      \* where the pick cursor object stands
  selected,    \* m_pSelectedEntity
  dummies,     \* Scene::m_vDummies (and m_vEntities): where each one stands
  shown,       \* history: the water the last drawn base pass picked, or Nowhere
  chosen       \* history: an entity was clicked since the last PATH_CREATE

input == <<keys, queue, phase>>
picker == <<active, picked, onWater, cursor>>
vars == <<input, mode, callbacks, pending, picker, selected, dummies, shown, chosen>>

CreateActions == {"ENTITY_CREATE", "PATH_CREATE"}
Actions == CreateActions \cup {"CANCEL", "POINTERCLICK1"}
Nobody == 0

\* The bound inputs with their action (Data/keybinds.lua); every one is bound
\* with ONCE: to the key's release.  A held modifier (one stands for all)
\* changes the number of the event, and no binding has that one.
Binding == [DIK_ESCAPE |-> "CANCEL", DIK_1 |-> "ENTITY_CREATE",
            DIK_2 |-> "PATH_CREATE", DIM_BUTTONLEFT |-> "POINTERCLICK1"]
Modifier == "DIK_LSHIFT"
Inputs == DOMAIN Binding \cup {Modifier}

ActiveActions(old, new) ==
  {a \in Actions : Modifier \notin new /\ \E k \in old \ new : k # Modifier /\ Binding[k] = a}

\* The order of the scan: the keyboard by key number, then the buttons.
ScanOrder == [CANCEL |-> 1, ENTITY_CREATE |-> 2, PATH_CREATE |-> 3, POINTERCLICK1 |-> 4]

Init ==
  /\ keys = {} /\ queue = {} /\ phase = 0 /\ mode = "RUNNING"
  /\ callbacks = Actions /\ pending = "UNKNOWN"
  /\ active = FALSE /\ picked = Nobody /\ onWater = FALSE /\ cursor = Ground
  /\ selected = Nobody /\ dummies = <<>>
  /\ shown = Nowhere /\ chosen = FALSE

-----------------------------------------------------------------------------
\* Between frames: a message instead of a frame may be WM_QUIT.
QuitMessage ==
  /\ phase = 0 /\ mode = "RUNNING"
  /\ mode' = "QUIT"
  /\ UNCHANGED <<input, callbacks, pending, picker, selected, dummies, shown, chosen>>

UpdateInput ==
  /\ phase = 0 /\ mode = "RUNNING"
  /\ \E held \in SUBSET Inputs :
       /\ keys' = held
       /\ queue' = ActiveActions(keys, held)
  /\ phase' = 1
  /\ UNCHANGED <<mode, callbacks, pending, picker, selected, dummies, shown, chosen>>

-----------------------------------------------------------------------------
(* The callback.  m_pScene->ActivatePicking sets the picker's flag only.   *)

\* A creation action's callback takes itself out of the map the dispatcher is
\* walking, which then steps an iterator to an erased element: undefined, the
\* walk ends or the program dies.
EraseWhileWalking(a) ==
  /\ callbacks' = callbacks \ {a}
  /\ mode' \in {mode, "CRASHED"}

(* Mutant: the earlier selection is kept. *)
PathCreateKeepsSelection ==
  /\ selected' = selected
  /\ pending' = "PATH_CREATE"
  /\ active' = TRUE
  /\ EraseWhileWalking("PATH_CREATE")
  /\ chosen' = FALSE
  /\ UNCHANGED dummies

PathCreate ==
  /\ selected' = Nobody
  /\ pending' = "PATH_CREATE"
  /\ active' = TRUE
  /\ EraseWhileWalking("PATH_CREATE")
  /\ chosen' = FALSE
  /\ UNCHANGED dummies

EntityCreate ==
  /\ pending' = "ENTITY_CREATE"
  /\ active' = TRUE
  /\ EraseWhileWalking("ENTITY_CREATE")
  /\ UNCHANGED <<selected, dummies, chosen>>

(* Mutant: the callback is not registered again; it is registered too late. *)
EndPendingForgets ==
  /\ active' = FALSE
  /\ pending' = "UNKNOWN"
  /\ UNCHANGED <<mode, callbacks>>

EndPendingSwapped ==
  /\ active' = FALSE
  /\ pending' = "UNKNOWN"
  /\ callbacks' = callbacks \cup {pending'}
  /\ UNCHANGED mode

EndPending ==
  /\ active' = FALSE
  /\ callbacks' = callbacks \cup {pending}
  /\ pending' = "UNKNOWN"
  /\ UNCHANGED mode

Ignore == UNCHANGED <<mode, callbacks, pending, active, selected, dummies, chosen>>

\* Scene::NewDummy: a new dummy, with its entity, where the cursor stands.
ClickEntity ==
  IF onWater
  THEN /\ Len(dummies) < MaxDummies
       /\ dummies' = Append(dummies, cursor)
       /\ EndPending
       /\ UNCHANGED <<selected, chosen>>
  ELSE Ignore

\* The first click chooses the entity, a later one on the water the target.
\* (No job results: PathfindJob::Create returns false.)
ClickPath ==
  CASE selected = Nobody ->
         /\ selected' = picked
         /\ chosen' = (picked # Nobody)
         /\ UNCHANGED <<mode, callbacks, pending, active, dummies>>
    [] selected # Nobody /\ onWater ->
         EndPending /\ UNCHANGED <<selected, dummies, chosen>>
    [] OTHER -> Ignore

Click ==
  CASE pending = "ENTITY_CREATE" -> ClickEntity
    [] pending = "PATH_CREATE" -> ClickPath
    [] OTHER -> Ignore

(* Mutant: the picker goes on after a cancel. *)
CancelKeepsPicking ==
  IF pending = "UNKNOWN"
  THEN /\ mode' = "QUIT"
       /\ UNCHANGED <<callbacks, pending, active, selected, dummies, chosen>>
  ELSE /\ callbacks' = callbacks \cup {pending}
       /\ pending' = "UNKNOWN"
       /\ UNCHANGED <<mode, active, selected, dummies, chosen>>

Cancel ==
  IF pending = "UNKNOWN"
  THEN /\ mode' = "QUIT"
       /\ UNCHANGED <<callbacks, pending, active, selected, dummies, chosen>>
  ELSE EndPending /\ UNCHANGED <<selected, dummies, chosen>>

ProcessActions(a) ==
  CASE a = "PATH_CREATE" -> PathCreate
    [] a = "ENTITY_CREATE" -> EntityCreate
    [] a = "CANCEL" -> Cancel
    [] a = "POINTERCLICK1" -> Click

\* ActionDispatcher::Update: only an action with a callback is processed.
Dispatch ==
  /\ mode # "CRASHED"
  /\ \E a \in queue :
       /\ \A b \in queue : ScanOrder[a] <= ScanOrder[b]
       /\ IF a \in callbacks THEN ProcessActions(a) ELSE Ignore
       /\ queue' = queue \ {a}
  /\ UNCHANGED <<keys, phase, picked, onWater, cursor, shown>>

-----------------------------------------------------------------------------
\* The dummies a ray can meet: the children of chunks (LandscapeChunk::
\* UpdateObjectLocation makes a dummy a child of the chunks it is inside).
Pickable == {i \in DOMAIN dummies : dummies[i] \in Covered}

(* Mutant: a pass that does not pick keeps the last pick. *)
PickerUpdateNoReset(process, place, entity) ==
  IF active /\ process = "base"
  THEN /\ picked' = entity
       /\ onWater' = (place \in Water)
       /\ cursor' = IF place = Nowhere THEN cursor ELSE place
  ELSE UNCHANGED <<picked, onWater, cursor>>

\* ScenePicker::Update and UpdatePicking.  Water nearer than the object moves
\* the cursor to the water; the picked object stays.
PickerUpdate(process, place, entity) ==
  IF active /\ process = "base"
  THEN /\ picked' = entity
       /\ onWater' = (place \in Water)
       /\ cursor' = IF place = Nowhere THEN cursor ELSE place
  ELSE /\ picked' = Nobody
       /\ onWater' = FALSE
       /\ UNCHANGED cursor

DrawPass ==
  /\ phase > 0 /\ queue = {} /\ mode # "CRASHED"
  /\ \E place \in Water \cup {Ground, Nowhere}, entity \in {Nobody} \cup Pickable :
       /\ place = Nowhere => entity = Nobody
       /\ PickerUpdate(Processes[phase], place, entity)
       /\ shown' = IF Processes[phase] # "base" THEN shown
                   ELSE IF active /\ place \in Water THEN place ELSE Nowhere
  /\ phase' = IF phase = Len(Processes) THEN 0 ELSE phase + 1
  /\ UNCHANGED <<keys, queue, mode, callbacks, pending, active, selected, dummies, chosen>>

Next == QuitMessage \/ UpdateInput \/ Dispatch \/ DrawPass

Spec == Init /\ [][Next]_vars

-----------------------------------------------------------------------------
\* Every variable has its type: in particular the dispatcher never registers a
\* callback for the action UNKNOWN, and only existing entities are picked.
TypeOK ==
  /\ keys \subseteq Inputs
  /\ queue \subseteq Actions
  /\ phase \in 0 .. Len(Processes)
  /\ mode \in {"RUNNING", "QUIT", "CRASHED"}
  /\ callbacks \subseteq Actions
  /\ pending \in CreateActions \cup {"UNKNOWN"}
  /\ active \in BOOLEAN
  /\ onWater \in BOOLEAN
  /\ cursor \in Water \cup {Ground}
  /\ dummies \in Seq(Water)
  /\ picked \in 0 .. Len(dummies)
  /\ selected \in 0 .. Len(dummies)
  /\ shown \in Water \cup {Nowhere}
  /\ chosen \in BOOLEAN

\* The picker works exactly while a creation action is pending, and that
\* action cannot be started a second time meanwhile, whatever order the three
\* ways in and the four ways out of the two modes are taken in, within a frame
\* or across frames (ProcessActions, ProcessPendingAction).
PickingMatchesPending ==
  /\ active <=> pending # "UNKNOWN"
  /\ pending \notin callbacks

Available(a) == a \in callbacks \/ a = pending

\* A creation action the user can start, or has started, stays so, with one
\* exception the code does make: the other one is started while this one is
\* pending, which leaves it without a callback for ever.
LostOnlyToTheOther ==
  [][\A a \in CreateActions : Available(a) /\ ~ Available(a)' =>
        pending = a /\ pending' \in CreateActions \ {a}]_vars

\* An entity is created only where the last picture the user saw had the
\* pointer on the water: never from the pick of an earlier mode or frame, though
\* the click is handled before the picker of its own frame has run.
CreatedWhereShown ==
  [][dummies' # dummies => dummies' = Append(dummies, shown) /\ shown \in Water]_vars

\* A path is completed by a click only if an entity was clicked since that path
\* was begun: an entity selected for an earlier path does not count.
PathHasItsEntity ==
  [][pending = "PATH_CREATE" /\ pending' = "UNKNOWN" /\ "POINTERCLICK1" \in queue \ queue'
        => chosen]_vars
=============================================================================
