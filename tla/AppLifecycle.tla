---------------------------- MODULE AppLifecycle ----------------------------
(***************************************************************************)
(* The life of the program (Bastion.cpp, Application.cpp, Scene.cpp,       *)
(* SceneLoad.cpp): Application::Create makes its parts one after the       *)
(* other, the main loop takes a message or a turn of the update function,  *)
(* the first turns load the scene, a failed load is given back and tried   *)
(* again at the next turn, and Application::Release gives every part back. *)
(*                                                                         *)
(* The program is one thread, so its control is a list of the steps still  *)
(* to be taken, todo: empty, the main loop turns.  A step that fails       *)
(* replaces the list by the steps that give back what was made.            *)
(*                                                                         *)
(* What a scene makes lies in tables of the managers of the display, by    *)
(* name (held), and the scene notes the names to give back (scene).  Every *)
(* manager refuses a name it has: what an attempt leaves behind is what    *)
(* the next one fails on.  The surfaces are in no scene: a landscape loads *)
(* its heightmap as one and unloads it when it has read it.                *)
(***************************************************************************)
EXTENDS Naturals, Sequences, FiniteSets

CONSTANTS
  Targets,          \* names of the additional render targets, in the order
                    \* of the scene file, as all of the lists below
  Materials,        \* names of the materials of the libraries
  Objects,          \* [name, material, heightmap, layering] of the hierarchy
  Cameras,          \* names of the cameras of the library
  Stages,           \* [name, posts] with the materials of its post processes
  OverlayFont,      \* the font of the overlay, and
  OverlayMaterial,  \* its material, "ui"
  MainCamera,       \* "scenecamera00", the name LoadScene asks for
  NoHeightmap,      \* the heightmap and
  NoLayering,       \* the layering of an object that is no landscape
  MaxFaults,        \* failures of files, devices or allocations to come
  MaxMessages       \* window messages to come, WM_QUIT not counted

VARIABLES
  todo,      \* steps of the functions in progress
  mode,      \* m_eStateMode; INITIALING_* and ERROR are "initialising"
  update,    \* m_pUpdateFunction
  parts,     \* parts of the application that exist
  held,      \* what the managers of the display and the layers have
  surfaces,  \* names that the surface manager has between two steps
  scene,     \* what the scene noted, m_mAdditionalRTs and the like
  bound,     \* whose members the semantics of the water point at
  camera,    \* m_pMainCamera
  crash,     \* what ended the program before its time
  faults, messages

vars == <<todo, mode, update, parts, held, scene, bound, camera, crash,
          faults, messages, surfaces>>

First(list, n) == {list[i] : i \in 1..n}
All(list) == First(list, Len(list))
PostsOf(stages) == UNION {s.posts : s \in stages}

(* Mutant: objects that are no landscapes load a layering too. *)
LayeringsOfAll(objects) == {o.layering : o \in objects}

LayeringsOf(objects) == {o.layering : o \in objects} \ {NoLayering}
HeightmapsOf(objects) == {o.heightmap : o \in objects} \ {NoHeightmap}

ASSUME SceneFileLists ==
  /\ \A list \in {Targets, Materials, Cameras} : list \in Seq(All(list))
  /\ Objects \in Seq(All(Objects)) /\ Stages \in Seq(All(Stages))

(* The scene file is one that can be loaded: no name twice, objects and    *)
(* the overlay use materials of the libraries, a camera library has the    *)
(* main camera; a post process shares its material with nothing, because   *)
(* it unloads it with itself (PostProcess.cpp:68).                         *)
ASSUME SceneFileLoads ==
  /\ \A list \in {Targets, Materials, Cameras} :
       Cardinality(All(list)) = Len(list)
  /\ Cardinality({o.name : o \in All(Objects)}) = Len(Objects)
  /\ Cardinality({s.name : s \in All(Stages)}) = Len(Stages)
  /\ {o.material : o \in All(Objects)} \cup {OverlayMaterial}
       \subseteq All(Materials) \ PostsOf(All(Stages))
  /\ PostsOf(All(Stages)) \subseteq All(Materials)
  /\ \A s, t \in All(Stages) : s # t => s.posts \cap t.posts = {}
  /\ MainCamera \in All(Cameras)

ASSUME BoundsNatural == MaxFaults \in Nat /\ MaxMessages \in Nat

-----------------------------------------------------------------------------
(* The order of the functions.                                             *)

CreateSteps ==
  <<"time", "jobs", "files", "lua", "config", "window", "display",
    "viewports", "input", "layers", "devices", "actions">>

LoadSteps ==
  <<"file", "targets", "materials", "octree", "hierarchy", "water",
    "cameras", "stages", "semantics", "overlay", "show">>

(* Mutant: the materials go before the objects that use them. *)
SceneReleaseMaterialsFirst ==
  <<"dropDummies", "dropStages", "dropCameras", "dropMaterials",
    "dropOverlay", "dropWater", "dropHierarchy", "dropLayerings",
    "dropOctree", "dropCreators", "dropTargets">>

SceneReleaseSteps ==
  <<"dropDummies", "dropStages", "dropCameras", "dropOverlay", "dropWater",
    "dropHierarchy", "dropLayerings", "dropOctree", "dropMaterials",
    "dropCreators", "dropTargets">>

DeleteScene == SceneReleaseSteps \o <<"deleteScene">>

ReleaseSteps ==
  <<"endListener", "endScene", "endActions", "endInput", "endClasses",
    "endLayers", "endCreators", "endDisplay", "endLua", "endLog",
    "endMemory", "endNative", "endRoot", "endJobs", "endTime">>

(* What the steps of Application::Release that only give parts back end. *)
Ends ==
  [endActions |-> {"dispatcher", "keybinds"}, endInput |-> {"input"},
   endClasses |-> {"classes"}, endLua |-> {"lua"}, endLog |-> {"log"},
   endMemory |-> {"memory"}, endNative |-> {"native"}, endRoot |-> {"root"},
   endJobs |-> {"jobs"}]

Parts == {"time", "jobs", "root", "native", "memory", "log", "lua", "window",
          "display", "input", "layers", "classes", "keybinds", "dispatcher",
          "scene", "listener"}

NothingHeld ==
  [textures |-> {}, materials |-> {}, cameras |-> {}, stages |-> {},
   fonts |-> {}, creators |-> {}, layerings |-> {}]

EmptyScene ==
  [targets |-> {}, materials |-> {}, octree |-> FALSE, objects |-> {},
   water |-> FALSE, cameras |-> {}, stages |-> {}, fonts |-> {},
   overlay |-> FALSE, dummies |-> FALSE]

Init ==
  /\ todo = CreateSteps
  /\ mode = "uninitialized"
  /\ update = "none"
  /\ parts = {}
  /\ held = NothingHeld
  /\ scene = EmptyScene
  /\ bound = "none"
  /\ camera = "none"
  /\ crash = "none"
  /\ faults = MaxFaults
  /\ messages = MaxMessages
  /\ surfaces = {}

At(step) == crash = "none" /\ todo # <<>> /\ Head(todo) = step
Goes == todo' = Tail(todo)
Faults(n) == n <= faults /\ faults' = faults - n
Fault == Faults(1)
Turns == crash = "none" /\ todo = <<>> /\ mode \in {"ready", "running"}
Ended == todo = <<>> /\ mode = "uninitialized"

-----------------------------------------------------------------------------
(* Application::Create.  A step that fails ends it; the main function then *)
(* releases the application, unless m_eStateMode is READY already.         *)

(* A stage makes its parts, or fails and leaves what it had allocated. *)
Stage(step, made, left) ==
  /\ At(step)
  /\ mode' = IF step \in {"time", "jobs"} THEN mode ELSE "initialising"
  /\ \/ /\ Goes
        /\ parts' = parts \cup made
        /\ UNCHANGED faults
     \/ /\ Fault
        /\ todo' = ReleaseSteps
        /\ parts' = parts \cup left
  /\ UNCHANGED <<update, held, scene, bound, camera, crash, messages,
                 surfaces>>

CreateTime == Stage("time", {"time"}, {"time"})
CreateJobs == Stage("jobs", {"jobs"}, {"jobs"})
CreateFiles == Stage("files", {"root", "native", "memory", "log"},
                              {"root", "native", "memory"})
CreateLua == Stage("lua", {"lua"}, {})
ReadConfig == Stage("config", {}, {})
CreateWindow == Stage("window", {"window"}, {})
CreateInput == Stage("input", {"input"}, {"input"})

(* The display makes the mode READY, before there is an update function. *)
CreateDisplay ==
  /\ At("display")
  /\ parts' = parts \cup {"display"}
  /\ \/ Goes /\ mode' = "ready" /\ UNCHANGED faults
     \/ Fault /\ mode' = "initialising" /\ todo' = ReleaseSteps
  /\ UNCHANGED <<update, held, scene, bound, camera, crash, messages,
                 surfaces>>

(* A viewport that cannot be added ends Create with the mode READY: the    *)
(* main loop runs, and quits at its first turn.  Otherwise the material    *)
(* manager learns the creators of parameters.                              *)
AddViewports ==
  /\ At("viewports")
  /\ \/ /\ Goes
        /\ mode' = "initialising"
        /\ held' = [held EXCEPT !.creators = {"application"}]
        /\ UNCHANGED faults
     \/ Fault /\ todo' = <<>> /\ UNCHANGED <<mode, held>>
  /\ UNCHANGED <<update, parts, scene, bound, camera, crash, messages,
                 surfaces>>

CreateLayers ==
  /\ At("layers")
  /\ Goes
  /\ parts' = parts \cup {"layers"}
  /\ UNCHANGED <<mode, update, held, scene, bound, camera, crash, faults,
                 messages, surfaces>>

GetDevices == Stage("devices", {"classes"}, {"classes"})

CreateActions ==
  /\ At("actions")
  /\ parts' = parts \cup {"keybinds", "dispatcher"}
  /\ \/ Goes /\ mode' = "ready" /\ update' = "load" /\ UNCHANGED faults
     \/ Fault /\ todo' = ReleaseSteps /\ UNCHANGED <<mode, update>>
  /\ UNCHANGED <<held, scene, bound, camera, crash, messages, surfaces>>

-----------------------------------------------------------------------------
(* The main loop and Application::Update.                                  *)

Message ==
  /\ Turns
  /\ messages > 0
  /\ messages' = messages - 1
  /\ mode' = IF update = "none" THEN "quit" ELSE "running"
  /\ UNCHANGED <<todo, update, parts, held, scene, bound, camera, crash,
                 faults, surfaces>>

QuitMessage ==
  /\ Turns
  /\ mode' = "quit"
  /\ UNCHANGED <<todo, update, parts, held, scene, bound, camera, crash,
                 faults, messages, surfaces>>

EmptyTurn ==
  /\ Turns
  /\ update = "none"
  /\ mode' = "quit"
  /\ UNCHANGED <<todo, update, parts, held, scene, bound, camera, crash,
                 faults, messages, surfaces>>

(* Application::LoadScene makes a scene and Scene::Create first releases   *)
(* it.                                                                     *)
LoadTurn ==
  /\ Turns
  /\ update = "load"
  /\ "scene" \notin parts
  /\ parts' = parts \cup {"scene"}
  /\ todo' = SceneReleaseSteps \o LoadSteps
  /\ UNCHANGED <<mode, update, held, scene, bound, camera, crash, faults,
                 messages, surfaces>>

(* A frame, in which the user may have created the first dummy. *)
RenderTurn ==
  /\ Turns
  /\ update = "render"
  /\ scene' = [scene EXCEPT !.dummies = TRUE]
  /\ UNCHANGED <<todo, mode, update, parts, held, bound, camera, crash, faults,
                 messages, surfaces>>

LeaveLoop ==
  /\ crash = "none"
  /\ todo = <<>>
  /\ mode = "quit"
  /\ todo' = ReleaseSteps
  /\ UNCHANGED <<mode, update, parts, held, scene, bound, camera, crash,
                 faults, messages, surfaces>>

-----------------------------------------------------------------------------
(* Scene::Create.  A step that fails ends it, and LoadScene deletes the    *)
(* scene; the update function stays, so the next turn tries again.         *)

(* The first n of a list of names come into a table, some of which failed: *)
(* all of them, or those before one that the table has already, or before  *)
(* a failure that ends the list.                                           *)
LoadedTo(n, failed, list, table) ==
  /\ \A i \in 1..n : list[i] \notin table \cup First(list, i - 1)
  /\ IF n = Len(list) \/ list[n + 1] \in table \cup First(list, n)
     THEN Faults(failed)
     ELSE Faults(failed + 1)

Abandon == todo' = DeleteScene
GoesIf(ok) == IF ok THEN Goes ELSE Abandon

(* The creators of the water's parameters, then the scene file. *)
LoadFile ==
  /\ At("file")
  /\ held' = [held EXCEPT !.creators = @ \cup {"scene"}]
  /\ \/ Goes /\ UNCHANGED faults
     \/ Abandon /\ Fault
  /\ UNCHANGED <<mode, update, parts, scene, bound, camera, crash, messages,
                 surfaces>>

LoadTargets ==
  /\ At("targets")
  /\ \E n \in 0..Len(Targets) :
       /\ LoadedTo(n, 0, Targets, held.textures)
       /\ held' = [held EXCEPT !.textures = @ \cup First(Targets, n)]
       /\ scene' = [scene EXCEPT !.targets = @ \cup First(Targets, n)]
       /\ GoesIf(n = Len(Targets))
  /\ UNCHANGED <<mode, update, parts, bound, camera, crash, messages,
                 surfaces>>

(* The result of a library is kept in a variable of the loop: whatever     *)
(* fails, CreateLoadMaterials succeeds (SceneLoad.cpp:79).                 *)
LoadMaterials ==
  /\ At("materials")
  /\ \E n \in 0..Len(Materials) :
       /\ LoadedTo(n, 0, Materials, held.materials)
       /\ held' = [held EXCEPT !.materials = @ \cup First(Materials, n)]
       /\ scene' = [scene EXCEPT !.materials = @ \cup First(Materials, n)]
  /\ Goes
  /\ UNCHANGED <<mode, update, parts, bound, camera, crash, messages,
                 surfaces>>

LoadOctree ==
  /\ At("octree")
  /\ \/ Goes /\ UNCHANGED faults /\ scene' = [scene EXCEPT !.octree = TRUE]
     \/ /\ Abandon
        /\ Fault
        /\ \E made \in BOOLEAN : scene' = [scene EXCEPT !.octree = made]
  /\ UNCHANGED <<mode, update, parts, held, bound, camera, crash, messages,
                 surfaces>>

(* An object of the hierarchy, after those before it.  A landscape reads   *)
(* its heightmap: a surface that cannot be locked is no failure, but stays *)
(* with its manager (Landscape.cpp:497).  Then it gets its layering, which *)
(* stays with its manager whatever happens afterwards; and an object       *)
(* without its material is not made.  (The layering reads its atlas as a   *)
(* surface too, under another name, and unloads it even if it fails.)      *)
LoadObject(o) ==
  \/ /\ o.heightmap \in surfaces
     /\ Abandon
     /\ UNCHANGED <<held, scene, faults, surfaces>>
  \/ \E kept \in SUBSET HeightmapsOf({o}), got \in SUBSET LayeringsOf({o}),
        failed \in {0, 1} :
       /\ o.heightmap \notin surfaces
       /\ failed = 1 \/ got = LayeringsOf({o})
       /\ Faults(Cardinality(kept) + failed)
       /\ surfaces' = surfaces \cup kept
       /\ held' = [held EXCEPT !.layerings = @ \cup got]
       /\ IF failed = 0 /\ o.material \in held.materials
          THEN /\ scene' = [scene EXCEPT !.objects = @ \cup {o}]
               /\ UNCHANGED todo
          ELSE Abandon /\ UNCHANGED scene

LoadHierarchy ==
  /\ At("hierarchy")
  /\ \/ /\ scene.objects = All(Objects)
        /\ Goes
        /\ UNCHANGED <<held, scene, faults, surfaces>>
     \/ \E i \in 1..Len(Objects) :
          /\ scene.objects = First(Objects, i - 1)
          /\ LoadObject(Objects[i])
  /\ UNCHANGED <<mode, update, parts, bound, camera, crash, messages>>

LoadWater ==
  /\ At("water")
  /\ \/ Goes /\ UNCHANGED faults /\ scene' = [scene EXCEPT !.water = TRUE]
     \/ Abandon /\ Fault /\ UNCHANGED scene
  /\ UNCHANGED <<mode, update, parts, held, bound, camera, crash, messages,
                 surfaces>>

(* As for the materials, no failure is reported (SceneLoad.cpp:230).  A    *)
(* camera whose own Create fails is not kept by the display, but the scene *)
(* notes its name and goes on (Display.cpp:647, SceneLoad.cpp:252-259).    *)
LoadCameras ==
  /\ At("cameras")
  /\ \E n \in 0..Len(Cameras) : \E failed \in SUBSET First(Cameras, n) :
       /\ LoadedTo(n, Cardinality(failed), Cameras, held.cameras)
       /\ held' = [held EXCEPT !.cameras = @ \cup (First(Cameras, n) \ failed)]
       /\ scene' = [scene EXCEPT !.cameras = @ \cup First(Cameras, n)]
  /\ Goes
  /\ UNCHANGED <<mode, update, parts, bound, camera, crash, messages,
                 surfaces>>

(* A stage whose post processes lack a material, or that fails, is         *)
(* released, and its post processes unload the materials they have.        *)
LoadStages ==
  /\ At("stages")
  /\ \E n \in 0..Len(Stages) :
       /\ \A i \in 1..n : Stages[i].posts \subseteq held.materials
       /\ scene' = [scene EXCEPT !.stages = @ \cup First(Stages, n)]
       /\ GoesIf(n = Len(Stages))
       /\ IF n = Len(Stages) THEN UNCHANGED <<held, faults>>
          ELSE /\ IF Stages[n + 1].posts \subseteq held.materials
                  THEN Fault
                  ELSE UNCHANGED faults
               /\ \E made \in SUBSET Stages[n + 1].posts :
                    held' = [held EXCEPT !.materials = @ \ made]
  /\ UNCHANGED <<mode, update, parts, bound, camera, crash, messages,
                 surfaces>>

(* The semantics of the water point at members of the scene. *)
BindSemantics ==
  /\ At("semantics")
  /\ Goes
  /\ bound' = "live"
  /\ UNCHANGED <<mode, update, parts, held, scene, camera, crash, faults,
                 messages, surfaces>>

(* The overlay loads its font, then looks for its material. *)
CreateOverlay ==
  /\ At("overlay")
  /\ \/ /\ held' = [held EXCEPT !.fonts = {OverlayFont}]
        /\ scene' = [scene EXCEPT !.fonts = {OverlayFont},
                       !.overlay = OverlayMaterial \in held.materials]
        /\ GoesIf(OverlayMaterial \in held.materials)
        /\ UNCHANGED faults
     \/ Abandon /\ Fault /\ UNCHANGED <<held, scene>>
  /\ UNCHANGED <<mode, update, parts, bound, camera, crash, messages,
                 surfaces>>

(* The display learns the stages, and LoadScene adds its listener to the   *)
(* main camera: a NULL if a failure kept it from being loaded.             *)
Show ==
  /\ At("show")
  /\ Goes
  /\ held' = [held EXCEPT !.stages = scene.stages]
  /\ parts' = parts \cup {"listener"}
  /\ IF MainCamera \in held.cameras
     THEN camera' = MainCamera /\ update' = "render" /\ UNCHANGED crash
     ELSE crash' = "no camera" /\ UNCHANGED <<camera, update>>
  /\ UNCHANGED <<mode, scene, bound, faults, messages, surfaces>>

-----------------------------------------------------------------------------
(* Scene::Release, one step for each kind of thing.                        *)

DropDummies ==
  /\ At("dropDummies")
  /\ Goes
  /\ scene' = [scene EXCEPT !.dummies = FALSE]
  /\ UNCHANGED <<mode, update, parts, held, bound, camera, crash, faults,
                 messages, surfaces>>

(* The stages leave the display, and their post processes take their       *)
(* materials with them.                                                    *)
DropStages ==
  /\ At("dropStages")
  /\ Goes
  /\ held' = [held EXCEPT !.stages = @ \ scene.stages,
                          !.materials = @ \ PostsOf(scene.stages)]
  /\ scene' = [scene EXCEPT !.stages = {}]
  /\ UNCHANGED <<mode, update, parts, bound, camera, crash, faults, messages,
                 surfaces>>

DropCameras ==
  /\ At("dropCameras")
  /\ Goes
  /\ held' = [held EXCEPT !.cameras = @ \ scene.cameras]
  /\ scene' = [scene EXCEPT !.cameras = {}]
  /\ UNCHANGED <<mode, update, parts, bound, camera, crash, faults, messages,
                 surfaces>>

DropOverlay ==
  /\ At("dropOverlay")
  /\ Goes
  /\ held' = [held EXCEPT !.fonts = @ \ scene.fonts]
  /\ scene' = [scene EXCEPT !.fonts = {}, !.overlay = FALSE]
  /\ UNCHANGED <<mode, update, parts, bound, camera, crash, faults, messages,
                 surfaces>>

DropWater ==
  /\ At("dropWater")
  /\ Goes
  /\ scene' = [scene EXCEPT !.water = FALSE]
  /\ bound' = IF scene.water /\ bound = "live" THEN "dead" ELSE bound
  /\ UNCHANGED <<mode, update, parts, held, camera, crash, faults, messages,
                 surfaces>>

DropHierarchy ==
  /\ At("dropHierarchy")
  /\ Goes
  /\ scene' = [scene EXCEPT !.objects = {}]
  /\ UNCHANGED <<mode, update, parts, held, bound, camera, crash, faults,
                 messages, surfaces>>

(* LandscapeLayerManager::UnloadAll. *)
DropLayerings ==
  /\ At("dropLayerings")
  /\ Goes
  /\ held' = [held EXCEPT !.layerings = {}]
  /\ UNCHANGED <<mode, update, parts, scene, bound, camera, crash, faults,
                 messages, surfaces>>

DropOctree ==
  /\ At("dropOctree")
  /\ Goes
  /\ scene' = [scene EXCEPT !.octree = FALSE]
  /\ UNCHANGED <<mode, update, parts, held, bound, camera, crash, faults,
                 messages, surfaces>>

DropMaterials ==
  /\ At("dropMaterials")
  /\ Goes
  /\ held' = [held EXCEPT !.materials = @ \ scene.materials]
  /\ scene' = [scene EXCEPT !.materials = {}]
  /\ UNCHANGED <<mode, update, parts, bound, camera, crash, faults, messages,
                 surfaces>>

DropCreators ==
  /\ At("dropCreators")
  /\ Goes
  /\ held' = [held EXCEPT !.creators = @ \ {"scene"}]
  /\ UNCHANGED <<mode, update, parts, scene, bound, camera, crash, faults,
                 messages, surfaces>>

(* Mutant: the scene forgets its targets and does not unload them. *)
DropTargetsForgotten ==
  /\ At("dropTargets")
  /\ Goes
  /\ scene' = [scene EXCEPT !.targets = {}]
  /\ UNCHANGED <<mode, update, parts, held, bound, camera, crash, faults,
                 messages, surfaces>>

DropTargets ==
  /\ At("dropTargets")
  /\ Goes
  /\ held' = [held EXCEPT !.textures = @ \ scene.targets]
  /\ scene' = [scene EXCEPT !.targets = {}]
  /\ UNCHANGED <<mode, update, parts, bound, camera, crash, faults, messages,
                 surfaces>>

Deleted ==
  /\ At("deleteScene")
  /\ Goes
  /\ parts' = parts \ {"scene"}
  /\ UNCHANGED <<mode, update, held, scene, bound, camera, crash, faults,
                 messages, surfaces>>

-----------------------------------------------------------------------------
(* Application::Release.                                                   *)

(* The listener leaves the main camera, which must still be there. *)
EndListener ==
  /\ At("endListener")
  /\ parts' = parts \ {"listener"}
  /\ Goes
  /\ UNCHANGED <<mode, update, held, scene, bound, camera, crash, faults,
                 messages, surfaces>>

EndScene ==
  /\ At("endScene")
  /\ todo' = IF "scene" \in parts THEN DeleteScene \o Tail(todo)
                                  ELSE Tail(todo)
  /\ UNCHANGED <<mode, update, parts, held, scene, bound, camera, crash,
                 faults, messages, surfaces>>

EndParts ==
  /\ \E step \in DOMAIN Ends : At(step) /\ parts' = parts \ Ends[step]
  /\ Goes
  /\ UNCHANGED <<mode, update, held, scene, bound, camera, crash, faults,
                 messages, surfaces>>

EndLayers ==
  /\ At("endLayers")
  /\ Goes
  /\ parts' = parts \ {"layers"}
  /\ held' = [held EXCEPT !.layerings = {}]
  /\ UNCHANGED <<mode, update, scene, bound, camera, crash, faults, messages,
                 surfaces>>

(* The material manager is asked of the display whether there is one or    *)
(* not (Application.cpp:408).                                              *)
EndCreators ==
  /\ At("endCreators")
  /\ Goes
  /\ IF "display" \in parts
     THEN /\ held' = [held EXCEPT !.creators = @ \ {"application"}]
          /\ UNCHANGED crash
     ELSE crash' = "no display" /\ UNCHANGED held
  /\ UNCHANGED <<mode, update, parts, scene, bound, camera, faults, messages,
                 surfaces>>

(* Display::CloseVideo: the managers unload all they have, but of the      *)
(* cameras every other one is erased a second time, and with an odd number *)
(* the end of the map is erased (Display.cpp:340).                         *)
EndDisplay ==
  /\ At("endDisplay")
  /\ Goes
  /\ parts' = parts \ {"display"}
  /\ held' = [NothingHeld EXCEPT !.layerings = held.layerings]
  /\ surfaces' = {}
  /\ crash' = IF Cardinality(held.cameras) % 2 = 1 THEN "end erased" ELSE crash
  /\ UNCHANGED <<mode, update, scene, bound, camera, faults, messages>>

EndTime ==
  /\ At("endTime")
  /\ Goes
  /\ parts' = parts \ {"time"}
  /\ mode' = "uninitialized"
  /\ UNCHANGED <<update, held, scene, bound, camera, crash, faults, messages,
                 surfaces>>

-----------------------------------------------------------------------------

Creation ==
  \/ CreateTime \/ CreateJobs \/ CreateFiles \/ CreateLua \/ ReadConfig
  \/ CreateWindow \/ CreateDisplay \/ AddViewports \/ CreateInput
  \/ CreateLayers \/ GetDevices \/ CreateActions

MainLoop ==
  \/ Message \/ QuitMessage \/ EmptyTurn \/ LoadTurn \/ RenderTurn
  \/ LeaveLoop

SceneCreation ==
  \/ LoadFile \/ LoadTargets \/ LoadMaterials \/ LoadOctree
  \/ LoadHierarchy \/ LoadWater \/ LoadCameras \/ LoadStages
  \/ BindSemantics \/ CreateOverlay \/ Show

SceneRelease ==
  \/ DropDummies \/ DropStages \/ DropCameras \/ DropOverlay \/ DropWater
  \/ DropHierarchy \/ DropLayerings \/ DropOctree \/ DropMaterials
  \/ DropCreators \/ DropTargets \/ Deleted

Release ==
  \/ EndListener \/ EndScene \/ EndParts \/ EndLayers \/ EndCreators
  \/ EndDisplay \/ EndTime

Next == Creation \/ MainLoop \/ SceneCreation \/ SceneRelease \/ Release

(* The main function loops without ever waiting (PeekMessage returns at    *)
(* once), so every step that can be taken is.                              *)
Spec == Init /\ [][Next]_vars /\ WF_vars(Next)

-----------------------------------------------------------------------------

Steps == {CreateSteps[i] : i \in DOMAIN CreateSteps}
           \cup {LoadSteps[i] : i \in DOMAIN LoadSteps}
           \cup {DeleteScene[i] : i \in DOMAIN DeleteScene}
           \cup {ReleaseSteps[i] : i \in DOMAIN ReleaseSteps}

(* Every variable keeps to its type.                                       *)
TypeOK ==
  /\ todo \in Seq(Steps)
  /\ mode \in {"uninitialized", "initialising", "ready", "running", "quit"}
  /\ update \in {"none", "load", "render"}
  /\ parts \subseteq Parts
  /\ held \in [textures : SUBSET All(Targets),
               materials : SUBSET All(Materials),
               cameras : SUBSET All(Cameras), stages : SUBSET All(Stages),
               fonts : SUBSET {OverlayFont},
               creators : SUBSET {"application", "scene"},
               layerings :
                 SUBSET ({o.layering : o \in All(Objects)} \ {NoLayering})]
  /\ scene \in [targets : SUBSET All(Targets),
                materials : SUBSET All(Materials), octree : BOOLEAN,
                objects : SUBSET All(Objects), water : BOOLEAN,
                cameras : SUBSET All(Cameras), stages : SUBSET All(Stages),
                fonts : SUBSET {OverlayFont}, overlay : BOOLEAN,
                dummies : BOOLEAN]
  /\ bound \in {"none", "live", "dead"}
  /\ camera \in All(Cameras) \cup {"none"}
  /\ crash \in {"none", "no camera", "no display", "end erased"}
  /\ faults \in 0..MaxFaults
  /\ messages \in 0..MaxMessages
  /\ surfaces \subseteq HeightmapsOf(All(Objects))

(* What exists has what it uses: the parts of the application those they   *)
(* call while they are released (Needs), the things of the scene the       *)
(* materials, octree, layerings and fonts they point at, the display only  *)
(* stages that are alive; and a frame finds all it shows.                  *)
Needs ==
  [p \in Parts |->
     CASE p = "listener" -> {"scene", "display"}
       [] p = "scene" -> {"display", "layers", "time"}
       [] p = "dispatcher" -> {"keybinds"}
       [] p = "layers" -> {"display"}
       [] p = "log" -> {"root", "memory", "native", "time"}
       [] p \in {"memory", "native"} -> {"root"}
       [] OTHER -> {}]

NothingDangles ==
  /\ \A p \in parts : Needs[p] \subseteq parts
  /\ "listener" \in parts /\ crash = "none" => camera \in held.cameras
  /\ \A o \in scene.objects :
       /\ scene.octree
       /\ o.material \in held.materials
       /\ o.layering \in held.layerings \cup {NoLayering}
  /\ scene.overlay => OverlayMaterial \in held.materials
  /\ scene.fonts \subseteq held.fonts
  /\ \A s \in scene.stages : s.posts \subseteq held.materials
  /\ held.stages \subseteq scene.stages
  /\ scene.dummies => scene.octree
  /\ Turns /\ update = "render" =>
       bound = "live" /\ "listener" \in parts /\ held.stages = All(Stages)

(* Nothing is left behind: a scene that is gone, after a failure at        *)
(* whatever step, has left no name with the managers on which the next     *)
(* attempt would fail, unless it is the name of a heightmap, and of those  *)
(* no more than there were failures; the program ends with all given back  *)
(* but the window, and never meets a camera when the display closes.       *)
NothingLeftBehind ==
  /\ "scene" \notin parts =>
       /\ scene = EmptyScene
       /\ held \in {NothingHeld,
                    [NothingHeld EXCEPT !.creators = {"application"}]}
  /\ Cardinality(surfaces) <= MaxFaults - faults
  /\ Ended /\ crash = "none" =>
       parts = {"window"} /\ held = NothingHeld /\ surfaces = {}
  /\ crash # "end erased"

(* Every part is given back after those that use it, and no failure of any *)
(* attempt to load the scene leaves what a later attempt fails on, but for *)
(* the heightmap of a surface that could not be locked                     *)
(* (Application::Release, Scene::Release, CloseVideo).                     *)
Ownership == NothingDangles /\ NothingLeftBehind

(* Once failures have stopped the scene is shown, unless the user leaves   *)
(* first, or a camera failed and LoadScene uses the camera it has not got  *)
(* (Application.cpp:564), or an attempt that failed has left the name of a *)
(* heightmap, on which every attempt fails from then on (Surface.cpp:202). *)
SceneIsShown ==
  Turns /\ update = "load" ~>
    \/ update = "render"
    \/ mode = "quit"
    \/ crash = "no camera"
    \/ "scene" \notin parts /\ surfaces # {}
=============================================================================
