------------------------- MODULE AppLifecycleProofs -------------------------
(***************************************************************************)
(* The life of the program: proofs for every scene file, any number of     *)
(* failures and any number of messages.                                    *)
(*                                                                         *)
(* What makes Ownership inductive is where the program is.  The steps to   *)
(* be taken are always the end of one of five lists, and what has been     *)
(* made or given back so far follows from the list and the place in it     *)
(* (Here); what the managers hold is what the scene notes (Noted).  Apart  *)
(* from that, the names of surfaces that stay are counted (Left).          *)
(***************************************************************************)
EXTENDS AppLifecycle, FiniteSetTheorems, TLAPS

LoadTurnSteps == SceneReleaseSteps \o LoadSteps
EndSceneSteps == DeleteScene \o SubSeq(ReleaseSteps, 3, 15)

(* What is left of a list from place i on.                                 *)
From(list, i) == SubSeq(list, i, Len(list))

HeldTypes ==
  [textures : SUBSET All(Targets), materials : SUBSET All(Materials),
   cameras : SUBSET All(Cameras), stages : SUBSET All(Stages),
   fonts : SUBSET {OverlayFont}, creators : SUBSET {"application", "scene"},
   layerings : SUBSET ({o.layering : o \in All(Objects)} \ {NoLayering})]
SceneTypes ==
  [targets : SUBSET All(Targets), materials : SUBSET All(Materials), octree : BOOLEAN,
   objects : SUBSET All(Objects), water : BOOLEAN, cameras : SUBSET All(Cameras),
   stages : SUBSET All(Stages), fonts : SUBSET {OverlayFont}, overlay : BOOLEAN,
   dummies : BOOLEAN]

(* What the managers hold of the scene is what it noted, with all that it  *)
(* uses; only a camera can be noted that the display has not got.          *)
Noted(h, s) ==
  /\ h.textures = s.targets /\ h.cameras \subseteq s.cameras /\ h.fonts = s.fonts
  /\ h.stages \subseteq s.stages /\ h.materials \subseteq s.materials
  /\ \A o \in s.objects : s.octree /\ o.material \in h.materials /\ o.layering \in h.layerings \cup {NoLayering}
  /\ s.overlay => OverlayMaterial \in h.materials
  /\ \A t \in s.stages : t.posts \subseteq h.materials
  /\ s.dummies => s.octree

(* The types, variable by variable.                                        *)
ControlTypes ==
  /\ todo \in Seq(Steps)
  /\ mode \in {"uninitialized", "initialising", "ready", "running", "quit"}
  /\ update \in {"none", "load", "render"}
  /\ crash \in {"none", "no camera", "no display", "end erased"}
  /\ faults \in 0 .. MaxFaults
  /\ messages \in 0 .. MaxMessages
  /\ bound \in {"none", "live", "dead"}
  /\ camera \in All(Cameras) \cup {"none"}
  /\ parts \subseteq Parts
Tables == held \in HeldTypes /\ scene \in SceneTypes

(* No scene, nothing of a scene.                                           *)
Gone(h, s) ==
  /\ s = EmptyScene
  /\ h \in {NothingHeld, [NothingHeld EXCEPT !.creators = {"application"}]}

(* The parts have what they need.                                          *)
Standing(p) ==
  /\ "listener" \in p => {"scene", "display"} \subseteq p
  /\ "scene" \in p => {"display", "layers", "time"} \subseteq p
  /\ "dispatcher" \in p => "keybinds" \in p
  /\ "layers" \in p => "display" \in p
  /\ "log" \in p => {"root", "memory", "native", "time"} \subseteq p
  /\ "memory" \in p \/ "native" \in p => "root" \in p
  /\ "display" \in p => "window" \in p

(* Before step i of Application::Create.                                   *)
Creating(i, p, u, m) ==
  /\ u = "none" /\ "listener" \notin p
  /\ i > 1 => "time" \in p
  /\ i > 6 => "window" \in p
  /\ i > 7 => "display" \in p
  /\ i = 8 => m = "ready"
  /\ i > 10 => "layers" \in p

(* Before step i of Scene::Release.                                        *)
Dropped(i, h, s) ==
  /\ i > 1 => ~ s.dummies
  /\ i > 2 => s.stages = {}
  /\ i > 3 => s.cameras = {}
  /\ i > 4 => ~ s.overlay /\ s.fonts = {}
  /\ i > 5 => ~ s.water
  /\ i > 6 => s.objects = {}
  /\ i > 7 => h.layerings = {}
  /\ i > 8 => ~ s.octree
  /\ i > 9 => s.materials = {}
  /\ i > 10 => "scene" \notin h.creators
  /\ i > 11 => s.targets = {}

(* Before step i of LoadScene, which releases the scene first.             *)
Loading(i, h, s, b) ==
  /\ i < 12 => Dropped(i, h, s)
  /\ i > 11 => ~ s.dummies
  /\ i \in 12 .. 15 => s.objects = {}
  /\ i \in 12 .. 19 => s.stages = {}
  /\ i > 15 => s.octree
  /\ i > 19 => s.stages = All(Stages)
  /\ i > 20 => b = "live"

(* Before step i of Application::Release.                                  *)
Releasing(i, p, h) ==
  /\ i > 1 => "listener" \notin p
  /\ i > 2 => "scene" \notin p
  /\ i > 3 => "dispatcher" \notin p /\ "keybinds" \notin p
  /\ i > 4 => "input" \notin p
  /\ i > 5 => "classes" \notin p
  /\ i > 6 => "layers" \notin p
  /\ i > 7 => "application" \notin h.creators /\ "window" \in p
  /\ i > 8 => "display" \notin p
  /\ i > 9 => "lua" \notin p
  /\ i > 10 => "log" \notin p
  /\ i > 11 => "memory" \notin p
  /\ i > 12 => "native" \notin p
  /\ i > 13 => "root" \notin p
  /\ i > 14 => "jobs" \notin p

(* A scene is loaded, or given back, between two turns of the main loop.   *)
InTurn ==
  /\ update = "load" /\ mode \in {"ready", "running"}
  /\ {"display", "layers", "time", "scene"} \subseteq parts /\ "listener" \notin parts

(* Between two steps of the main loop, or after the end.                   *)
Waiting ==
  \/ mode = "uninitialized" /\ parts = {"window"} /\ held = NothingHeld
  \/ /\ mode \in {"ready", "running", "quit"}
     /\ update = "load" => {"display", "layers", "time"} \subseteq parts /\ "listener" \notin parts
     /\ update = "render" => /\ bound = "live" /\ "listener" \in parts
                             /\ held.stages = All(Stages) /\ scene.octree

(* Where the program is, and what is so there: before step i of a list.    *)
CreateAt(i) == todo = From(CreateSteps, i) /\ Creating(i, parts, update, mode)
LoadAt(i) == todo = From(LoadTurnSteps, i) /\ InTurn /\ Loading(i, held, scene, bound)
DeleteAt(i) == todo = From(DeleteScene, i) /\ InTurn /\ Dropped(i, held, scene)
EndSceneAt(i) ==
  /\ todo = From(EndSceneSteps, i)
  /\ "listener" \notin parts /\ "scene" \in parts /\ Dropped(i, held, scene)
ReleaseAt(i) == todo = From(ReleaseSteps, i) /\ Releasing(i, parts, held)

Here ==
  \/ todo = <<>> /\ Waiting
  \/ \E i \in 1 .. 12 : CreateAt(i) \/ DeleteAt(i) \/ EndSceneAt(i)
  \/ \E i \in 1 .. 22 : LoadAt(i)
  \/ \E i \in 1 .. 15 : ReleaseAt(i)

IInv ==
  /\ ControlTypes /\ Tables
  /\ Standing(parts)
  /\ Noted(held, scene)
  /\ "scene" \notin parts => Gone(held, scene)
  /\ "listener" \in parts /\ crash = "none" => camera \in held.cameras
  /\ crash # "end erased"
  /\ crash = "none" => Here
-----------------------------------------------------------------------------
LEMMA SeqEqual ==
  ASSUME NEW S, NEW s \in Seq(S), NEW t \in Seq(S), Len(s) = Len(t),
         \A i \in 1 .. Len(s) : s[i] = t[i]
  PROVE  s = t
OBVIOUS

(* u is s and t put together; u is list from place i on.                   *)
Concats(u, s, t, S) ==
  /\ u \in Seq(S) /\ Len(u) = Len(s) + Len(t)
  /\ \A i \in 1 .. Len(s) + Len(t) : u[i] = IF i <= Len(s) THEN s[i] ELSE t[i - Len(s)]
Suffix(u, list, i, S) ==
  /\ u \in Seq(S) /\ Len(u) = Len(list) + 1 - i
  /\ \A k \in 1 .. Len(list) + 1 - i : u[k] = list[k + (i - 1)]

LEMMA SeqIn ==
  ASSUME NEW S, NEW T, NEW s \in Seq(S), \A i \in 1 .. Len(s) : s[i] \in T
  PROVE  s \in Seq(T)
OBVIOUS

LEMMA ConcatIs ==
  ASSUME NEW S, NEW s \in Seq(S), NEW t \in Seq(S)
  PROVE  Concats(s \o t, s, t, S)
BY DEF Concats

LEMMA SuffixIs ==
  ASSUME NEW S, NEW list \in Seq(S), NEW i \in 1 .. Len(list) + 1
  PROVE  Suffix(From(list, i), list, i, S)
BY DEF From, Suffix

-----------------------------------------------------------------------------
(* The lists, name by name.                                                *)
LEMMA CreateIs ==
  /\ CreateSteps \in Seq(Steps) /\ Len(CreateSteps) = 12
  /\ \A i \in 1 .. 12 :
       \/ (i = 1 /\ CreateSteps[i] = "time") \/ (i = 2 /\ CreateSteps[i] = "jobs")
       \/ (i = 3 /\ CreateSteps[i] = "files") \/ (i = 4 /\ CreateSteps[i] = "lua")
       \/ (i = 5 /\ CreateSteps[i] = "config") \/ (i = 6 /\ CreateSteps[i] = "window")
       \/ (i = 7 /\ CreateSteps[i] = "display") \/ (i = 8 /\ CreateSteps[i] = "viewports")
       \/ (i = 9 /\ CreateSteps[i] = "input") \/ (i = 10 /\ CreateSteps[i] = "layers")
       \/ (i = 11 /\ CreateSteps[i] = "devices") \/ (i = 12 /\ CreateSteps[i] = "actions")
<1>1. DOMAIN CreateSteps = 1 .. 12  BY DEF CreateSteps
<1>2. \A i \in 1 .. 12 : CreateSteps[i] \in Steps  BY <1>1 DEF Steps
<1>3. CreateSteps \in Seq(Steps) /\ Len(CreateSteps) = 12  BY <1>2 DEF CreateSteps
<1>4. \A i \in 1 .. 12 : i = 1 \/ i = 2 \/ i = 3 \/ i = 4 \/ i = 5 \/ i = 6 \/ i = 7 \/ i = 8 \/ i = 9 \/ i = 10 \/ i = 11 \/ i = 12
  OBVIOUS
<1>5. /\ CreateSteps[1] = "time" /\ CreateSteps[2] = "jobs" /\ CreateSteps[3] = "files"
      /\ CreateSteps[4] = "lua" /\ CreateSteps[5] = "config" /\ CreateSteps[6] = "window"
      /\ CreateSteps[7] = "display" /\ CreateSteps[8] = "viewports" /\ CreateSteps[9] = "input"
      /\ CreateSteps[10] = "layers" /\ CreateSteps[11] = "devices" /\ CreateSteps[12] = "actions"
  BY DEF CreateSteps
<1>6. QED  BY <1>3, <1>4, <1>5

LEMMA DropIs ==
  /\ SceneReleaseSteps \in Seq(Steps) /\ Len(SceneReleaseSteps) = 11
  /\ \A i \in 1 .. 11 :
       \/ (i = 1 /\ SceneReleaseSteps[i] = "dropDummies") \/ (i = 2 /\ SceneReleaseSteps[i] = "dropStages")
       \/ (i = 3 /\ SceneReleaseSteps[i] = "dropCameras") \/ (i = 4 /\ SceneReleaseSteps[i] = "dropOverlay")
       \/ (i = 5 /\ SceneReleaseSteps[i] = "dropWater") \/ (i = 6 /\ SceneReleaseSteps[i] = "dropHierarchy")
       \/ (i = 7 /\ SceneReleaseSteps[i] = "dropLayerings") \/ (i = 8 /\ SceneReleaseSteps[i] = "dropOctree")
       \/ (i = 9 /\ SceneReleaseSteps[i] = "dropMaterials") \/ (i = 10 /\ SceneReleaseSteps[i] = "dropCreators")
       \/ (i = 11 /\ SceneReleaseSteps[i] = "dropTargets")
<1> DEFINE S == {SceneReleaseSteps[i] : i \in 1 .. 11} \cup {"deleteScene"}
<1>1. DOMAIN SceneReleaseSteps = 1 .. 11 /\ Len(SceneReleaseSteps) = 11  BY DEF SceneReleaseSteps
<1>2. SceneReleaseSteps \in Seq(S) /\ <<"deleteScene">> \in Seq(S)
  <2>1. \A i \in 1 .. 11 : SceneReleaseSteps[i] \in S  OBVIOUS
  <2>2. "deleteScene" \in S  OBVIOUS
  <2> HIDE DEF S
  <2>3. SceneReleaseSteps \in Seq(S)  BY <2>1 DEF SceneReleaseSteps
  <2>4. QED  BY <2>2, <2>3
<1> HIDE DEF S
<1>3. /\ DeleteScene \in Seq(S) /\ Len(DeleteScene) = 12
      /\ \A i \in 1 .. 11 : DeleteScene[i] = SceneReleaseSteps[i]
  <2> DEFINE last == <<"deleteScene">>
  <2>1. Len(last) = 1  OBVIOUS
  <2> HIDE DEF last
  <2>2. Concats(DeleteScene, SceneReleaseSteps, last, S)  BY <1>2, ConcatIs DEF DeleteScene, last
  <2>3. QED  BY <1>1, <2>1, <2>2 DEF Concats
<1>4. \A i \in 1 .. 11 : SceneReleaseSteps[i] \in Steps
  <2>1. DOMAIN DeleteScene = 1 .. 12  BY <1>3
  <2>2. \A i \in 1 .. 12 : DeleteScene[i] \in Steps  BY <2>1 DEF Steps
  <2>3. QED  BY <1>3, <2>2
<1>5. SceneReleaseSteps \in Seq(Steps)  BY <1>4 DEF SceneReleaseSteps
<1>6. \A i \in 1 .. 11 : i = 1 \/ i = 2 \/ i = 3 \/ i = 4 \/ i = 5 \/ i = 6 \/ i = 7 \/ i = 8 \/ i = 9 \/ i = 10 \/ i = 11
  OBVIOUS
<1>7. /\ SceneReleaseSteps[1] = "dropDummies" /\ SceneReleaseSteps[2] = "dropStages" /\ SceneReleaseSteps[3] = "dropCameras"
      /\ SceneReleaseSteps[4] = "dropOverlay" /\ SceneReleaseSteps[5] = "dropWater" /\ SceneReleaseSteps[6] = "dropHierarchy"
      /\ SceneReleaseSteps[7] = "dropLayerings" /\ SceneReleaseSteps[8] = "dropOctree" /\ SceneReleaseSteps[9] = "dropMaterials"
      /\ SceneReleaseSteps[10] = "dropCreators" /\ SceneReleaseSteps[11] = "dropTargets"
  BY DEF SceneReleaseSteps
<1>8. QED  BY <1>1, <1>5, <1>6, <1>7

LEMMA LoadIs ==
  /\ LoadSteps \in Seq(Steps) /\ Len(LoadSteps) = 11
  /\ \A i \in 1 .. 11 :
       \/ (i = 1 /\ LoadSteps[i] = "file") \/ (i = 2 /\ LoadSteps[i] = "targets")
       \/ (i = 3 /\ LoadSteps[i] = "materials") \/ (i = 4 /\ LoadSteps[i] = "octree")
       \/ (i = 5 /\ LoadSteps[i] = "hierarchy") \/ (i = 6 /\ LoadSteps[i] = "water")
       \/ (i = 7 /\ LoadSteps[i] = "cameras") \/ (i = 8 /\ LoadSteps[i] = "stages")
       \/ (i = 9 /\ LoadSteps[i] = "semantics") \/ (i = 10 /\ LoadSteps[i] = "overlay")
       \/ (i = 11 /\ LoadSteps[i] = "show")
<1>1. DOMAIN LoadSteps = 1 .. 11  BY DEF LoadSteps
<1>2. \A i \in 1 .. 11 : LoadSteps[i] \in Steps  BY <1>1 DEF Steps
<1>3. LoadSteps \in Seq(Steps) /\ Len(LoadSteps) = 11  BY <1>2 DEF LoadSteps
<1>4. \A i \in 1 .. 11 : i = 1 \/ i = 2 \/ i = 3 \/ i = 4 \/ i = 5 \/ i = 6 \/ i = 7 \/ i = 8 \/ i = 9 \/ i = 10 \/ i = 11
  OBVIOUS
<1>5. /\ LoadSteps[1] = "file" /\ LoadSteps[2] = "targets" /\ LoadSteps[3] = "materials"
      /\ LoadSteps[4] = "octree" /\ LoadSteps[5] = "hierarchy" /\ LoadSteps[6] = "water"
      /\ LoadSteps[7] = "cameras" /\ LoadSteps[8] = "stages" /\ LoadSteps[9] = "semantics"
      /\ LoadSteps[10] = "overlay" /\ LoadSteps[11] = "show"
  BY DEF LoadSteps
<1>6. QED  BY <1>3, <1>4, <1>5

LEMMA ReleaseIs ==
  /\ ReleaseSteps \in Seq(Steps) /\ Len(ReleaseSteps) = 15
  /\ \A i \in 1 .. 15 :
       \/ (i = 1 /\ ReleaseSteps[i] = "endListener") \/ (i = 2 /\ ReleaseSteps[i] = "endScene")
       \/ (i = 3 /\ ReleaseSteps[i] = "endActions") \/ (i = 4 /\ ReleaseSteps[i] = "endInput")
       \/ (i = 5 /\ ReleaseSteps[i] = "endClasses") \/ (i = 6 /\ ReleaseSteps[i] = "endLayers")
       \/ (i = 7 /\ ReleaseSteps[i] = "endCreators") \/ (i = 8 /\ ReleaseSteps[i] = "endDisplay")
       \/ (i = 9 /\ ReleaseSteps[i] = "endLua") \/ (i = 10 /\ ReleaseSteps[i] = "endLog")
       \/ (i = 11 /\ ReleaseSteps[i] = "endMemory") \/ (i = 12 /\ ReleaseSteps[i] = "endNative")
       \/ (i = 13 /\ ReleaseSteps[i] = "endRoot") \/ (i = 14 /\ ReleaseSteps[i] = "endJobs")
       \/ (i = 15 /\ ReleaseSteps[i] = "endTime")
<1>1. DOMAIN ReleaseSteps = 1 .. 15  BY DEF ReleaseSteps
<1>2. \A i \in 1 .. 15 : ReleaseSteps[i] \in Steps  BY <1>1 DEF Steps
<1>3. ReleaseSteps \in Seq(Steps) /\ Len(ReleaseSteps) = 15  BY <1>2 DEF ReleaseSteps
<1>4. \A i \in 1 .. 15 : i = 1 \/ i = 2 \/ i = 3 \/ i = 4 \/ i = 5 \/ i = 6 \/ i = 7 \/ i = 8 \/ i = 9 \/ i = 10 \/ i = 11 \/ i = 12 \/ i = 13 \/ i = 14 \/ i = 15
  OBVIOUS
<1>5. /\ ReleaseSteps[1] = "endListener" /\ ReleaseSteps[2] = "endScene" /\ ReleaseSteps[3] = "endActions"
      /\ ReleaseSteps[4] = "endInput" /\ ReleaseSteps[5] = "endClasses" /\ ReleaseSteps[6] = "endLayers"
      /\ ReleaseSteps[7] = "endCreators" /\ ReleaseSteps[8] = "endDisplay" /\ ReleaseSteps[9] = "endLua"
      /\ ReleaseSteps[10] = "endLog" /\ ReleaseSteps[11] = "endMemory" /\ ReleaseSteps[12] = "endNative"
      /\ ReleaseSteps[13] = "endRoot" /\ ReleaseSteps[14] = "endJobs" /\ ReleaseSteps[15] = "endTime"
  BY DEF ReleaseSteps
<1>6. QED  BY <1>3, <1>4, <1>5

(* A scene is given back by itself, before one is loaded, and in the course *)
(* of Application::Release.                                                *)
LEMMA ListsAre ==
  /\ DeleteScene \in Seq(Steps) /\ Len(DeleteScene) = 12
  /\ \A i \in 1 .. 12 : DeleteScene[i] = IF i < 12 THEN SceneReleaseSteps[i] ELSE "deleteScene"
  /\ LoadTurnSteps \in Seq(Steps) /\ Len(LoadTurnSteps) = 22
  /\ \A i \in 1 .. 22 : LoadTurnSteps[i] = IF i < 12 THEN SceneReleaseSteps[i] ELSE LoadSteps[i - 11]
  /\ EndSceneSteps \in Seq(Steps) /\ Len(EndSceneSteps) = 25
  /\ \A i \in 1 .. 12 : EndSceneSteps[i] = DeleteScene[i]
  /\ EndSceneSteps = DeleteScene \o From(ReleaseSteps, 3)
  /\ From(EndSceneSteps, 13) = From(ReleaseSteps, 3)
<1>1. SceneReleaseSteps \in Seq(Steps) /\ Len(SceneReleaseSteps) = 11  BY DropIs
<1>2. LoadSteps \in Seq(Steps) /\ Len(LoadSteps) = 11  BY LoadIs
<1>3. ReleaseSteps \in Seq(Steps) /\ Len(ReleaseSteps) = 15  BY ReleaseIs
<1>4. /\ DeleteScene \in Seq(Steps) /\ Len(DeleteScene) = 12
      /\ \A i \in 1 .. 12 : DeleteScene[i] = IF i < 12 THEN SceneReleaseSteps[i] ELSE "deleteScene"
  <2> DEFINE S == Steps \cup {"deleteScene"}
             last == <<"deleteScene">>
  <2>1. SceneReleaseSteps \in Seq(S) /\ last \in Seq(S)  BY <1>1
  <2>2. Len(last) = 1 /\ last[1] = "deleteScene"  OBVIOUS
  <2>3. DeleteScene = SceneReleaseSteps \o last  BY DEF DeleteScene
  <2> HIDE DEF S, last
  <2>4. /\ DeleteScene \in Seq(S) /\ Len(DeleteScene) = 12
        /\ \A i \in 1 .. 12 : DeleteScene[i] = IF i <= 11 THEN SceneReleaseSteps[i] ELSE last[i - 11]
    <3>1. Concats(DeleteScene, SceneReleaseSteps, last, S)  BY <2>1, <2>3, ConcatIs
    <3>2. QED  BY <1>1, <2>2, <3>1 DEF Concats
  <2>5. \A i \in 1 .. 12 : DeleteScene[i] = IF i < 12 THEN SceneReleaseSteps[i] ELSE "deleteScene"
    BY <2>2, <2>4
  <2>6. DeleteScene \in Seq(Steps)
    <3>1. DOMAIN DeleteScene = 1 .. 12  BY <2>4
    <3>2. \A i \in 1 .. 12 : DeleteScene[i] \in Steps  BY <3>1 DEF Steps
    <3>3. \A i \in 1 .. Len(DeleteScene) : DeleteScene[i] \in Steps  BY <2>4, <3>2
    <3>4. QED  BY <2>4, <3>3, SeqIn
  <2>7. QED  BY <2>4, <2>5, <2>6
<1>5. /\ LoadTurnSteps \in Seq(Steps) /\ Len(LoadTurnSteps) = 22
      /\ \A i \in 1 .. 22 : LoadTurnSteps[i] = IF i < 12 THEN SceneReleaseSteps[i] ELSE LoadSteps[i - 11]
  <2>1. /\ LoadTurnSteps \in Seq(Steps) /\ Len(LoadTurnSteps) = 22
        /\ \A i \in 1 .. 22 : LoadTurnSteps[i] = IF i <= 11 THEN SceneReleaseSteps[i] ELSE LoadSteps[i - 11]
    <3>1. Concats(LoadTurnSteps, SceneReleaseSteps, LoadSteps, Steps)
      BY <1>1, <1>2, ConcatIs DEF LoadTurnSteps
    <3>2. QED  BY <1>1, <1>2, <3>1 DEF Concats
  <2>2. QED  BY <2>1
<1> DEFINE rest == From(ReleaseSteps, 3)
<1>6. EndSceneSteps = DeleteScene \o rest  BY <1>3 DEF EndSceneSteps, From
<1>7. rest \in Seq(Steps) /\ Len(rest) = 13
  <2>1. 3 \in 1 .. Len(ReleaseSteps) + 1  BY <1>3
  <2>2. Suffix(rest, ReleaseSteps, 3, Steps)  BY <1>3, <2>1, SuffixIs
  <2>3. QED  BY <1>3, <2>2 DEF Suffix
<1> HIDE DEF rest
<1>8. /\ EndSceneSteps \in Seq(Steps) /\ Len(EndSceneSteps) = 25
      /\ \A i \in 1 .. 25 : EndSceneSteps[i] = IF i <= 12 THEN DeleteScene[i] ELSE rest[i - 12]
  <2>1. Concats(EndSceneSteps, DeleteScene, rest, Steps)  BY <1>4, <1>6, <1>7, ConcatIs
  <2>2. QED  BY <1>4, <1>7, <2>1 DEF Concats
<1>9. From(EndSceneSteps, 13) = rest
  <2> DEFINE s == From(EndSceneSteps, 13)
  <2>1. s \in Seq(Steps) /\ Len(s) = 13 /\ \A i \in 1 .. 13 : s[i] = EndSceneSteps[i + 12]
    <3>1. 13 \in 1 .. Len(EndSceneSteps) + 1 /\ EndSceneSteps \in Seq(Steps)  BY <1>8
    <3>2. Suffix(s, EndSceneSteps, 13, Steps)  BY <3>1, SuffixIs
    <3>3. QED  BY <1>8, <3>2 DEF Suffix
  <2> HIDE DEF s
  <2>2. \A i \in 1 .. 13 : s[i] = rest[i]
    <3> SUFFICES ASSUME NEW i \in 1 .. 13 PROVE s[i] = rest[i]  OBVIOUS
    <3>1. i + 12 \in 1 .. 25 /\ ~ (i + 12 <= 12) /\ (i + 12) - 12 = i  OBVIOUS
    <3>2. QED  BY <1>8, <2>1, <3>1
  <2>3. QED  BY <1>7, <2>1, <2>2, SeqEqual DEF s
<1>10. \A i \in 1 .. 12 : EndSceneSteps[i] = DeleteScene[i]
  <2>1. \A i \in 1 .. 12 : i \in 1 .. 25 /\ i <= 12  OBVIOUS
  <2>2. \A i \in 1 .. 25 : i <= 12 => EndSceneSteps[i] = DeleteScene[i]  BY <1>8, Zenon
  <2>3. QED  BY <2>1, <2>2, Zenon
<1>11. QED  BY <1>4, <1>5, <1>6, <1>8, <1>9, <1>10 DEF rest

(* Each name in them is one of the other lists.                            *)
LEMMA NamesAre ==
  /\ \A i \in 1 .. 12 : \/ i \in 1 .. 11 /\ DeleteScene[i] = SceneReleaseSteps[i]
                        \/ i = 12 /\ DeleteScene[i] = "deleteScene"
  /\ \A i \in 1 .. 12 : \/ i \in 1 .. 11 /\ EndSceneSteps[i] = SceneReleaseSteps[i]
                        \/ i = 12 /\ EndSceneSteps[i] = "deleteScene"
  /\ \A i \in 1 .. 22 : \/ i \in 1 .. 11 /\ LoadTurnSteps[i] = SceneReleaseSteps[i]
                        \/ \E k \in 1 .. 11 : i = k + 11 /\ LoadTurnSteps[i] = LoadSteps[k]
<1>1. \A i \in 1 .. 12 : DeleteScene[i] = IF i < 12 THEN SceneReleaseSteps[i] ELSE "deleteScene"
  BY ListsAre
<1>2. \A i \in 1 .. 12 : EndSceneSteps[i] = DeleteScene[i]  BY ListsAre
<1>3. \A i \in 1 .. 22 : LoadTurnSteps[i] = IF i < 12 THEN SceneReleaseSteps[i] ELSE LoadSteps[i - 11]
  BY ListsAre
<1>4. ASSUME NEW i \in 1 .. 22
      PROVE  \/ i \in 1 .. 11 /\ LoadTurnSteps[i] = SceneReleaseSteps[i]
             \/ \E k \in 1 .. 11 : i = k + 11 /\ LoadTurnSteps[i] = LoadSteps[k]
  <2>1. CASE i < 12  BY <1>3, <2>1
  <2>2. CASE ~ (i < 12)
    <3>1. i - 11 \in 1 .. 11 /\ i = (i - 11) + 11  BY <2>2
    <3>2. LoadTurnSteps[i] = LoadSteps[i - 11]  BY <1>3, <2>2
    <3>3. QED  BY <3>1, <3>2
  <2>3. QED  BY <2>1, <2>2
<1>5. QED  BY <1>1, <1>2, <1>4

(* The step at the head, and what is left of the list.                     *)
LEMMA FromIs ==
  ASSUME NEW list \in Seq(Steps), NEW i \in 1 .. Len(list)
  PROVE  /\ From(list, i) \in Seq(Steps) /\ From(list, i) # <<>>
         /\ Head(From(list, i)) = list[i]
         /\ Tail(From(list, i)) = From(list, i + 1)
         /\ From(list, Len(list) + 1) = <<>>
         /\ From(list, 1) = list
<1> DEFINE s == From(list, i)
           t == From(list, i + 1)
<1>1. /\ s \in Seq(Steps) /\ Len(s) = Len(list) - i + 1
      /\ \A k \in 1 .. Len(s) : s[k] = list[k + i - 1]
  BY DEF From
<1>2. /\ t \in Seq(Steps) /\ Len(t) = Len(list) - i
      /\ \A k \in 1 .. Len(t) : t[k] = list[k + i]
  BY DEF From
<1>3. From(list, Len(list) + 1) = <<>>  BY DEF From
<1>4. From(list, 1) = list
  <2>1. /\ From(list, 1) \in Seq(Steps) /\ Len(From(list, 1)) = Len(list)
        /\ \A k \in 1 .. Len(list) : From(list, 1)[k] = list[k]
    BY DEF From
  <2>2. QED  BY <2>1, SeqEqual
<1> HIDE DEF s, t
<1>5. s # <<>> /\ Head(s) = list[i]  BY <1>1
<1> DEFINE v == Tail(s)
<1>6. /\ v \in Seq(Steps) /\ Len(v) = Len(s) - 1
      /\ \A k \in 1 .. Len(v) : v[k] = s[k + 1]
  BY <1>1, <1>5
<1> HIDE DEF v
<1>7. v = t
  <2>1. Len(s) = Len(list) - i + 1 /\ Len(t) = Len(list) - i /\ Len(v) = Len(s) - 1  BY <1>1, <1>2, <1>6
  <2>2. Len(list) \in Nat /\ i \in Nat  OBVIOUS
  <2>3. Len(v) = Len(t)  BY <2>1, <2>2
  <2>4. \A k \in 1 .. Len(v) : v[k] = t[k]
    <3> SUFFICES ASSUME NEW k \in 1 .. Len(v) PROVE v[k] = t[k]  OBVIOUS
    <3>1. k \in 1 .. Len(t) /\ k + 1 \in 1 .. Len(s) /\ k + 1 + i - 1 = k + i
      BY <2>1, <2>2, <2>3
    <3>2. v[k] = s[k + 1] /\ s[k + 1] = list[k + 1 + i - 1]  BY <1>1, <1>6, <3>1
    <3>3. t[k] = list[k + i]  BY <1>2, <3>1
    <3>4. QED  BY <3>1, <3>2, <3>3
  <2>5. v \in Seq(Steps) /\ t \in Seq(Steps)  BY <1>2, <1>6
  <2>6. QED  BY <2>3, <2>4, <2>5, SeqEqual
<1>8. QED  BY <1>1, <1>3, <1>4, <1>5, <1>7 DEF s, t, v

-----------------------------------------------------------------------------
(* No name is in two lists, or twice in one.                               *)
LEMMA NamesDiffer ==
  /\ \A i \in 1 .. 12, k \in 1 .. 11 : CreateSteps[i] # LoadSteps[k]
  /\ \A i \in 1 .. 12, k \in 1 .. 11 : CreateSteps[i] # SceneReleaseSteps[k]
  /\ \A i \in 1 .. 12, k \in 1 .. 15 : CreateSteps[i] # ReleaseSteps[k]
  /\ \A i \in 1 .. 11, k \in 1 .. 11 : LoadSteps[i] # SceneReleaseSteps[k]
  /\ \A i \in 1 .. 11, k \in 1 .. 15 : LoadSteps[i] # ReleaseSteps[k]
  /\ \A i \in 1 .. 11, k \in 1 .. 15 : SceneReleaseSteps[i] # ReleaseSteps[k]
<1>1. \A i \in 1 .. 12, k \in 1 .. 11 : CreateSteps[i] # LoadSteps[k]  BY CreateIs, LoadIs
<1>2. \A i \in 1 .. 12, k \in 1 .. 11 : CreateSteps[i] # SceneReleaseSteps[k]  BY CreateIs, DropIs
<1>3. \A i \in 1 .. 12, k \in 1 .. 15 : CreateSteps[i] # ReleaseSteps[k]  BY CreateIs, ReleaseIs
<1>4. \A i \in 1 .. 11, k \in 1 .. 11 : LoadSteps[i] # SceneReleaseSteps[k]  BY LoadIs, DropIs
<1>5. \A i \in 1 .. 11, k \in 1 .. 15 : LoadSteps[i] # ReleaseSteps[k]  BY LoadIs, ReleaseIs
<1>6. \A i \in 1 .. 11, k \in 1 .. 15 : SceneReleaseSteps[i] # ReleaseSteps[k]  BY DropIs, ReleaseIs
<1>7. QED  BY <1>1, <1>2, <1>3, <1>4, <1>5, <1>6

LEMMA NamesOnce ==
  /\ \A i, k \in 1 .. 12 : CreateSteps[i] = CreateSteps[k] => i = k
  /\ \A i, k \in 1 .. 11 : LoadSteps[i] = LoadSteps[k] => i = k
  /\ \A i, k \in 1 .. 11 : SceneReleaseSteps[i] = SceneReleaseSteps[k] => i = k
  /\ \A i, k \in 1 .. 15 : ReleaseSteps[i] = ReleaseSteps[k] => i = k
  /\ \A i \in 1 .. 12 : CreateSteps[i] # "deleteScene"
  /\ \A i \in 1 .. 11 : LoadSteps[i] # "deleteScene"
  /\ \A i \in 1 .. 11 : SceneReleaseSteps[i] # "deleteScene"
  /\ \A i \in 1 .. 15 : ReleaseSteps[i] # "deleteScene"
<1>1. \A i, k \in 1 .. 12 : CreateSteps[i] = CreateSteps[k] => i = k  BY CreateIs
<1>2. \A i, k \in 1 .. 11 : LoadSteps[i] = LoadSteps[k] => i = k  BY LoadIs
<1>3. \A i, k \in 1 .. 11 : SceneReleaseSteps[i] = SceneReleaseSteps[k] => i = k  BY DropIs
<1>4. \A i, k \in 1 .. 15 : ReleaseSteps[i] = ReleaseSteps[k] => i = k  BY ReleaseIs
<1>5. \A i \in 1 .. 12 : CreateSteps[i] # "deleteScene"  BY CreateIs
<1>6. \A i \in 1 .. 11 : LoadSteps[i] # "deleteScene"  BY LoadIs
<1>7. \A i \in 1 .. 11 : SceneReleaseSteps[i] # "deleteScene"  BY DropIs
<1>8. \A i \in 1 .. 15 : ReleaseSteps[i] # "deleteScene"  BY ReleaseIs
<1>9. QED  BY <1>1, <1>2, <1>3, <1>4, <1>5, <1>6, <1>7, <1>8

(* The lists that a step to be taken is in, and its place.                 *)
InList(step, list, i) == list[i] = step /\ Tail(todo) = From(list, i + 1)

LEMMA HereIs ==
  ASSUME Here, NEW step, At(step)
  PROVE  \/ \E i \in 1 .. 12 : CreateAt(i) /\ InList(step, CreateSteps, i)
         \/ \E i \in 1 .. 12 : DeleteAt(i) /\ InList(step, DeleteScene, i)
         \/ \E i \in 1 .. 12 : EndSceneAt(i) /\ InList(step, EndSceneSteps, i)
         \/ \E i \in 1 .. 22 : LoadAt(i) /\ InList(step, LoadTurnSteps, i)
         \/ \E i \in 1 .. 15 : ReleaseAt(i) /\ InList(step, ReleaseSteps, i)
<1>1. todo # <<>> /\ Head(todo) = step  BY DEF At
<1>2. ASSUME NEW i \in 1 .. 12, CreateAt(i) PROVE InList(step, CreateSteps, i)
  <2>1. CreateSteps \in Seq(Steps) /\ i \in 1 .. Len(CreateSteps)  BY CreateIs
  <2>2. QED  BY <1>1, <1>2, <2>1, FromIs DEF CreateAt, InList
<1>3. ASSUME NEW i \in 1 .. 12, DeleteAt(i) PROVE InList(step, DeleteScene, i)
  <2>1. DeleteScene \in Seq(Steps) /\ i \in 1 .. Len(DeleteScene)  BY ListsAre
  <2>2. QED  BY <1>1, <1>3, <2>1, FromIs DEF DeleteAt, InList
<1>4. ASSUME NEW i \in 1 .. 12, EndSceneAt(i) PROVE InList(step, EndSceneSteps, i)
  <2>1. EndSceneSteps \in Seq(Steps) /\ i \in 1 .. Len(EndSceneSteps)  BY ListsAre
  <2>2. QED  BY <1>1, <1>4, <2>1, FromIs DEF EndSceneAt, InList
<1>5. ASSUME NEW i \in 1 .. 22, LoadAt(i) PROVE InList(step, LoadTurnSteps, i)
  <2>1. LoadTurnSteps \in Seq(Steps) /\ i \in 1 .. Len(LoadTurnSteps)  BY ListsAre
  <2>2. QED  BY <1>1, <1>5, <2>1, FromIs DEF LoadAt, InList
<1>6. ASSUME NEW i \in 1 .. 15, ReleaseAt(i) PROVE InList(step, ReleaseSteps, i)
  <2>1. ReleaseSteps \in Seq(Steps) /\ i \in 1 .. Len(ReleaseSteps)  BY ReleaseIs
  <2>2. QED  BY <1>1, <1>6, <2>1, FromIs DEF ReleaseAt, InList
<1>7. QED  BY <1>1, <1>2, <1>3, <1>4, <1>5, <1>6 DEF Here

(* And so, by the kind of step:                                            *)
LEMMA AtCreate ==
  ASSUME Here, NEW k \in 1 .. 12, At(CreateSteps[k])
  PROVE  CreateAt(k) /\ Tail(todo) = From(CreateSteps, k + 1)
<1> DEFINE step == CreateSteps[k]
<1>1. step # "deleteScene" /\ \A i \in 1 .. 11 : step # LoadSteps[i] /\ step # SceneReleaseSteps[i]
  BY NamesDiffer, NamesOnce
<1>2. \A i \in 1 .. 15 : step # ReleaseSteps[i]  BY NamesDiffer
<1>3. \A i \in 1 .. 12 : CreateSteps[i] = step => i = k  BY NamesOnce
<1>4. \A i \in 1 .. 12 : DeleteScene[i] # step /\ EndSceneSteps[i] # step  BY <1>1, NamesAre
<1>5. \A i \in 1 .. 22 : LoadTurnSteps[i] # step  BY <1>1, NamesAre
<1> HIDE DEF step
<1>6. At(step)  BY DEF step
<1>7. QED  BY <1>2, <1>3, <1>4, <1>5, <1>6, HereIs DEF InList

LEMMA AtLoad ==
  ASSUME Here, NEW k \in 1 .. 11, At(LoadSteps[k])
  PROVE  LoadAt(k + 11) /\ Tail(todo) = From(LoadTurnSteps, k + 12)
<1> DEFINE step == LoadSteps[k]
<1>1. step # "deleteScene" /\ \A i \in 1 .. 11 : step # SceneReleaseSteps[i]  BY NamesDiffer, NamesOnce
<1>2. /\ \A i \in 1 .. 15 : step # ReleaseSteps[i]
      /\ \A i \in 1 .. 12 : step # CreateSteps[i]
  BY NamesDiffer
<1>3. \A i \in 1 .. 12 : DeleteScene[i] # step /\ EndSceneSteps[i] # step  BY <1>1, NamesAre
<1>4. \A i \in 1 .. 22 : LoadTurnSteps[i] = step => i = k + 11  BY <1>1, NamesAre, NamesOnce
<1> HIDE DEF step
<1>5. At(step)  BY DEF step
<1>6. \E i \in 1 .. 22 : LoadAt(i) /\ InList(step, LoadTurnSteps, i)
  BY <1>2, <1>3, <1>5, HereIs DEF InList
<1>7. LoadAt(k + 11) /\ Tail(todo) = From(LoadTurnSteps, k + 11 + 1)  BY <1>4, <1>6 DEF InList
<1>8. QED  BY <1>7

LEMMA AtDrop ==
  ASSUME Here, NEW k \in 1 .. 11, At(SceneReleaseSteps[k])
  PROVE  \/ LoadAt(k) /\ Tail(todo) = From(LoadTurnSteps, k + 1)
         \/ DeleteAt(k) /\ Tail(todo) = From(DeleteScene, k + 1)
         \/ EndSceneAt(k) /\ Tail(todo) = From(EndSceneSteps, k + 1)
<1> DEFINE step == SceneReleaseSteps[k]
<1>1. /\ step # "deleteScene"
      /\ \A i \in 1 .. 11 : step # LoadSteps[i]
      /\ \A i \in 1 .. 15 : step # ReleaseSteps[i]
      /\ \A i \in 1 .. 12 : step # CreateSteps[i]
  BY NamesDiffer, NamesOnce
<1>2. \A i \in 1 .. 12 : DeleteScene[i] = step => i = k  BY <1>1, NamesAre, NamesOnce
<1>3. \A i \in 1 .. 12 : EndSceneSteps[i] = step => i = k  BY <1>1, NamesAre, NamesOnce
<1>4. \A i \in 1 .. 22 : LoadTurnSteps[i] = step => i = k  BY <1>1, NamesAre, NamesOnce
<1> HIDE DEF step
<1>5. At(step)  BY DEF step
<1>6. QED  BY <1>1, <1>2, <1>3, <1>4, <1>5, HereIs DEF InList

LEMMA AtDelete ==
  ASSUME Here, At("deleteScene")
  PROVE  \/ DeleteAt(12) /\ Tail(todo) = <<>>
         \/ EndSceneAt(12) /\ Tail(todo) = From(ReleaseSteps, 3)
<1>1. /\ \A i \in 1 .. 12 : CreateSteps[i] # "deleteScene"
      /\ \A i \in 1 .. 15 : ReleaseSteps[i] # "deleteScene"
  BY NamesOnce
<1>2. \A i \in 1 .. 22 : LoadTurnSteps[i] # "deleteScene"  BY NamesOnce, NamesAre
<1>3. \A i \in 1 .. 12 : DeleteScene[i] = "deleteScene" => i = 12  BY NamesOnce, NamesAre
<1>4. \A i \in 1 .. 12 : EndSceneSteps[i] = "deleteScene" => i = 12  BY NamesOnce, NamesAre
<1>5. From(DeleteScene, 13) = <<>> /\ From(EndSceneSteps, 13) = From(ReleaseSteps, 3)
  <2>1. DeleteScene \in Seq(Steps) /\ Len(DeleteScene) = 12 /\ 1 \in 1 .. Len(DeleteScene)  BY ListsAre
  <2>2. From(DeleteScene, Len(DeleteScene) + 1) = <<>>  BY <2>1, FromIs
  <2>3. From(EndSceneSteps, 13) = From(ReleaseSteps, 3)  BY ListsAre
  <2>4. QED  BY <2>1, <2>2, <2>3
<1>6. \/ DeleteAt(12) /\ Tail(todo) = From(DeleteScene, 12 + 1)
      \/ EndSceneAt(12) /\ Tail(todo) = From(EndSceneSteps, 12 + 1)
  BY <1>1, <1>2, <1>3, <1>4, HereIs DEF InList
<1>7. QED  BY <1>5, <1>6

LEMMA AtRelease ==
  ASSUME Here, NEW k \in 1 .. 15, At(ReleaseSteps[k])
  PROVE  ReleaseAt(k) /\ Tail(todo) = From(ReleaseSteps, k + 1)
<1> DEFINE step == ReleaseSteps[k]
<1>1. /\ step # "deleteScene"
      /\ \A i \in 1 .. 11 : step # LoadSteps[i] /\ step # SceneReleaseSteps[i]
      /\ \A i \in 1 .. 12 : step # CreateSteps[i]
  BY NamesDiffer, NamesOnce
<1>2. \A i \in 1 .. 15 : ReleaseSteps[i] = step => i = k  BY NamesOnce
<1>3. \A i \in 1 .. 12 : DeleteScene[i] # step /\ EndSceneSteps[i] # step  BY <1>1, NamesAre
<1>4. \A i \in 1 .. 22 : LoadTurnSteps[i] # step  BY <1>1, NamesAre
<1> HIDE DEF step
<1>5. At(step)  BY DEF step
<1>6. QED  BY <1>1, <1>2, <1>3, <1>4, <1>5, HereIs DEF InList

(* Where the lists begin and end.                                          *)
LEMMA ListEnds ==
  /\ From(CreateSteps, 1) = CreateSteps /\ From(CreateSteps, 13) = <<>>
  /\ From(LoadTurnSteps, 1) = LoadTurnSteps /\ From(LoadTurnSteps, 23) = <<>>
  /\ From(DeleteScene, 1) = DeleteScene /\ From(DeleteScene, 13) = <<>>
  /\ From(EndSceneSteps, 1) = EndSceneSteps
  /\ From(ReleaseSteps, 1) = ReleaseSteps /\ From(ReleaseSteps, 16) = <<>>
<1>1. ASSUME NEW list \in Seq(Steps), 1 \in 1 .. Len(list)
      PROVE  From(list, 1) = list /\ From(list, Len(list) + 1) = <<>>
  BY <1>1, FromIs
<1>2. From(CreateSteps, 1) = CreateSteps /\ From(CreateSteps, 13) = <<>>
  <2>1. CreateSteps \in Seq(Steps) /\ Len(CreateSteps) = 12  BY CreateIs
  <2>2. From(CreateSteps, 1) = CreateSteps /\ From(CreateSteps, Len(CreateSteps) + 1) = <<>>
    <3>1. 1 \in 1 .. Len(CreateSteps)  BY <2>1
    <3>2. QED  BY <1>1, <2>1, <3>1, Zenon
  <2>3. QED  BY <2>1, <2>2
<1>3. From(LoadTurnSteps, 1) = LoadTurnSteps /\ From(LoadTurnSteps, 23) = <<>>
  <2>1. LoadTurnSteps \in Seq(Steps) /\ Len(LoadTurnSteps) = 22  BY ListsAre
  <2>2. From(LoadTurnSteps, 1) = LoadTurnSteps /\ From(LoadTurnSteps, Len(LoadTurnSteps) + 1) = <<>>
    <3>1. 1 \in 1 .. Len(LoadTurnSteps)  BY <2>1
    <3>2. QED  BY <1>1, <2>1, <3>1, Zenon
  <2>3. QED  BY <2>1, <2>2
<1>4. From(DeleteScene, 1) = DeleteScene /\ From(DeleteScene, 13) = <<>>
  <2>1. DeleteScene \in Seq(Steps) /\ Len(DeleteScene) = 12  BY ListsAre
  <2>2. From(DeleteScene, 1) = DeleteScene /\ From(DeleteScene, Len(DeleteScene) + 1) = <<>>
    <3>1. 1 \in 1 .. Len(DeleteScene)  BY <2>1
    <3>2. QED  BY <1>1, <2>1, <3>1, Zenon
  <2>3. QED  BY <2>1, <2>2
<1>5. From(EndSceneSteps, 1) = EndSceneSteps
  <2>1. EndSceneSteps \in Seq(Steps) /\ Len(EndSceneSteps) = 25  BY ListsAre
  <2>2. From(EndSceneSteps, 1) = EndSceneSteps /\ From(EndSceneSteps, Len(EndSceneSteps) + 1) = <<>>
    <3>1. 1 \in 1 .. Len(EndSceneSteps)  BY <2>1
    <3>2. QED  BY <1>1, <2>1, <3>1, Zenon
  <2>3. QED  BY <2>1, <2>2
<1>6. From(ReleaseSteps, 1) = ReleaseSteps /\ From(ReleaseSteps, 16) = <<>>
  <2>1. ReleaseSteps \in Seq(Steps) /\ Len(ReleaseSteps) = 15  BY ReleaseIs
  <2>2. From(ReleaseSteps, 1) = ReleaseSteps /\ From(ReleaseSteps, Len(ReleaseSteps) + 1) = <<>>
    <3>1. 1 \in 1 .. Len(ReleaseSteps)  BY <2>1
    <3>2. QED  BY <1>1, <2>1, <3>1, Zenon
  <2>3. QED  BY <2>1, <2>2
<1>7. QED  BY <1>2, <1>3, <1>4, <1>5, <1>6

(* The lists are lists of steps, and so is what is left of them.           *)
LEMMA TodoTypes ==
  /\ CreateSteps \in Seq(Steps) /\ LoadTurnSteps \in Seq(Steps) /\ DeleteScene \in Seq(Steps)
  /\ ReleaseSteps \in Seq(Steps) /\ <<>> \in Seq(Steps)
  /\ \A list \in Seq(Steps) : list # <<>> => Tail(list) \in Seq(Steps)
<1>1. CreateSteps \in Seq(Steps)  BY CreateIs
<1>2. ReleaseSteps \in Seq(Steps)  BY ReleaseIs
<1>3. LoadTurnSteps \in Seq(Steps) /\ DeleteScene \in Seq(Steps)  BY ListsAre
<1>4. \A list \in Seq(Steps) : list # <<>> => Tail(list) \in Seq(Steps)  OBVIOUS
<1>5. <<>> \in Seq(Steps)  OBVIOUS
<1>6. QED  BY <1>1, <1>2, <1>3, <1>4, <1>5

-----------------------------------------------------------------------------
(* What is true of the tables, whatever the program does.                  *)
Owned ==
  /\ Noted(held, scene)
  /\ "scene" \notin parts => Gone(held, scene)
  /\ "listener" \in parts /\ crash = "none" => camera \in held.cameras

LEMMA IInvIs ==
  IInv <=> /\ ControlTypes /\ Tables /\ Standing(parts) /\ Owned
           /\ crash # "end erased" /\ (crash = "none" => Here)
BY Zenon DEF IInv, Owned

LEMMA IInvNext ==
  ASSUME ControlTypes', Tables', Standing(parts'), Owned', crash' # "end erased",
         crash' = "none" => Here'
  PROVE  IInv'
BY Zenon DEF IInv, Owned

(* Of parts that are made.                                                 *)
LEMMA OwnedByMore ==
  ASSUME Owned, held' = held, scene' = scene, camera' = camera, crash = "none",
         "scene" \in parts => "scene" \in parts',
         "listener" \in parts' => "listener" \in parts
  PROVE  Owned'
BY DEF Owned

LEMMA StageKeeps ==
  ASSUME IInv, NEW k \in 1 .. 12, k # 7, k # 12, NEW made \in SUBSET Parts, NEW left \in SUBSET Parts,
         Stage(CreateSteps[k], made, left), "listener" \notin made \cup left,
         CreateAt(k) => /\ Standing(parts \cup made) /\ Standing(parts \cup left)
                        /\ Creating(k + 1, parts \cup made, update, mode)
  PROVE  IInv'
<1>1. crash = "none" /\ Here /\ ControlTypes /\ Tables /\ Owned  BY IInvIs DEF Stage, At
<1>2. CreateAt(k) /\ Tail(todo) = From(CreateSteps, k + 1)
  <2>1. At(CreateSteps[k])  BY DEF Stage
  <2>2. QED  BY <1>1, <2>1, AtCreate
<1>3. todo # <<>> /\ UNCHANGED <<update, held, scene, bound, camera, crash, messages>>
  BY DEF Stage, At
<1>4. mode' \in {"uninitialized", "initialising", "ready", "running", "quit"}
  BY <1>1 DEF Stage, ControlTypes
<1>5. CASE todo' = Tail(todo) /\ parts' = parts \cup made /\ faults' = faults
  <2>1. ControlTypes'  BY <1>1, <1>3, <1>4, <1>5, TodoTypes DEF ControlTypes
  <2>2. Owned'  BY <1>1, <1>3, <1>5, OwnedByMore
  <2>3. Standing(parts')  BY <1>2, <1>5
  <2>4. CreateAt(k + 1)'
    <3>1. Creating(k + 1, parts', update', mode')  BY <1>2, <1>3, <1>5 DEF Creating
    <3>2. QED  BY <1>2, <1>5, <3>1 DEF CreateAt
  <2>5. Here'  BY <2>4 DEF Here
  <2>6. Tables'  BY <1>1, <1>3 DEF Tables
  <2>7. QED  BY <1>1, <1>3, <2>1, <2>2, <2>3, <2>5, <2>6, IInvNext
<1>6. CASE Fault /\ todo' = ReleaseSteps /\ parts' = parts \cup left
  <2>1. ControlTypes'
    <3>1. faults' \in 0 .. MaxFaults  BY <1>1, <1>6, BoundsNatural DEF ControlTypes, Fault, Faults
    <3>2. QED  BY <1>1, <1>3, <1>4, <1>6, <3>1, TodoTypes DEF ControlTypes
  <2>2. Owned'  BY <1>1, <1>3, <1>6, OwnedByMore
  <2>3. Standing(parts')  BY <1>2, <1>6
  <2>4. Here'
    <3>1. ReleaseAt(1)'  BY <1>6, ListEnds DEF ReleaseAt, Releasing
    <3>2. QED  BY <3>1 DEF Here
  <2>5. Tables'  BY <1>1, <1>3 DEF Tables
  <2>6. QED  BY <1>1, <1>3, <2>1, <2>2, <2>3, <2>4, <2>5, IInvNext
<1>7. QED  BY <1>5, <1>6 DEF Stage, Goes

LEMMA StagesKeep ==
  ASSUME IInv,
         \/ CreateTime \/ CreateJobs \/ CreateFiles \/ CreateLua \/ ReadConfig \/ CreateWindow
         \/ CreateInput \/ GetDevices
  PROVE  IInv'
<1> DEFINE Fits(k, made, left) ==
             CreateAt(k) => /\ Standing(parts \cup made) /\ Standing(parts \cup left)
                            /\ Creating(k + 1, parts \cup made, update, mode)
<1>1. Standing(parts)  BY DEF IInv
<1>2. ASSUME NEW k \in 1 .. 12, k # 7, k # 12, NEW made \in SUBSET Parts, NEW left \in SUBSET Parts,
             Stage(CreateSteps[k], made, left), "listener" \notin made \cup left,
             Fits(k, made, left)
      PROVE  IInv'
  BY <1>2, StageKeeps
<1>3. CASE CreateTime
  <2>1. CreateSteps[1] = "time"  BY DEF CreateSteps
  <2>2. Fits(1, {"time"}, {"time"})  BY <1>1 DEF Standing, Creating, CreateAt
  <2> DEFINE made == {"time"}
             left == {"time"}
  <2>3. made \in SUBSET Parts /\ left \in SUBSET Parts /\ "listener" \notin made \cup left
    BY DEF Parts
  <2>4. Stage(CreateSteps[1], made, left)  BY <1>3, <2>1 DEF CreateTime
  <2> HIDE DEF Fits, made, left
  <2>5. Fits(1, made, left)  BY <2>2 DEF made, left
  <2>6. QED  BY <1>2, <2>3, <2>4, <2>5
<1>4. CASE CreateJobs
  <2>1. CreateSteps[2] = "jobs"  BY DEF CreateSteps
  <2>2. Fits(2, {"jobs"}, {"jobs"})  BY <1>1 DEF Standing, Creating, CreateAt
  <2> DEFINE made == {"jobs"}
             left == {"jobs"}
  <2>3. made \in SUBSET Parts /\ left \in SUBSET Parts /\ "listener" \notin made \cup left
    BY DEF Parts
  <2>4. Stage(CreateSteps[2], made, left)  BY <1>4, <2>1 DEF CreateJobs
  <2> HIDE DEF Fits, made, left
  <2>5. Fits(2, made, left)  BY <2>2 DEF made, left
  <2>6. QED  BY <1>2, <2>3, <2>4, <2>5
<1>5. CASE CreateFiles
  <2>1. CreateSteps[3] = "files"  BY DEF CreateSteps
  <2>2. Fits(3, {"root", "native", "memory", "log"}, {"root", "native", "memory"})
    BY <1>1 DEF Standing, Creating, CreateAt
  <2> DEFINE made == {"root", "native", "memory", "log"}
             left == {"root", "native", "memory"}
  <2>3. made \in SUBSET Parts /\ left \in SUBSET Parts /\ "listener" \notin made \cup left
    BY DEF Parts
  <2>4. Stage(CreateSteps[3], made, left)  BY <1>5, <2>1 DEF CreateFiles
  <2> HIDE DEF Fits, made, left
  <2>5. Fits(3, made, left)  BY <2>2 DEF made, left
  <2>6. QED  BY <1>2, <2>3, <2>4, <2>5
<1>6. CASE CreateLua
  <2>1. CreateSteps[4] = "lua"  BY DEF CreateSteps
  <2>2. Fits(4, {"lua"}, {})  BY <1>1 DEF Standing, Creating, CreateAt
  <2> DEFINE made == {"lua"}
             left == {}
  <2>3. made \in SUBSET Parts /\ left \in SUBSET Parts /\ "listener" \notin made \cup left
    BY DEF Parts
  <2>4. Stage(CreateSteps[4], made, left)  BY <1>6, <2>1 DEF CreateLua
  <2> HIDE DEF Fits, made, left
  <2>5. Fits(4, made, left)  BY <2>2 DEF made, left
  <2>6. QED  BY <1>2, <2>3, <2>4, <2>5
<1>7. CASE ReadConfig
  <2>1. CreateSteps[5] = "config"  BY DEF CreateSteps
  <2>2. Fits(5, {}, {})  BY <1>1 DEF Standing, Creating, CreateAt
  <2> DEFINE made == {}
             left == {}
  <2>3. made \in SUBSET Parts /\ left \in SUBSET Parts /\ "listener" \notin made \cup left
    BY DEF Parts
  <2>4. Stage(CreateSteps[5], made, left)  BY <1>7, <2>1 DEF ReadConfig
  <2> HIDE DEF Fits, made, left
  <2>5. Fits(5, made, left)  BY <2>2 DEF made, left
  <2>6. QED  BY <1>2, <2>3, <2>4, <2>5
<1>8. CASE CreateWindow
  <2>1. CreateSteps[6] = "window"  BY DEF CreateSteps
  <2>2. Fits(6, {"window"}, {})  BY <1>1 DEF Standing, Creating, CreateAt
  <2> DEFINE made == {"window"}
             left == {}
  <2>3. made \in SUBSET Parts /\ left \in SUBSET Parts /\ "listener" \notin made \cup left
    BY DEF Parts
  <2>4. Stage(CreateSteps[6], made, left)  BY <1>8, <2>1 DEF CreateWindow
  <2> HIDE DEF Fits, made, left
  <2>5. Fits(6, made, left)  BY <2>2 DEF made, left
  <2>6. QED  BY <1>2, <2>3, <2>4, <2>5
<1>9. CASE CreateInput
  <2>1. CreateSteps[9] = "input"  BY DEF CreateSteps
  <2>2. Fits(9, {"input"}, {"input"})  BY <1>1 DEF Standing, Creating, CreateAt
  <2> DEFINE made == {"input"}
             left == {"input"}
  <2>3. made \in SUBSET Parts /\ left \in SUBSET Parts /\ "listener" \notin made \cup left
    BY DEF Parts
  <2>4. Stage(CreateSteps[9], made, left)  BY <1>9, <2>1 DEF CreateInput
  <2> HIDE DEF Fits, made, left
  <2>5. Fits(9, made, left)  BY <2>2 DEF made, left
  <2>6. QED  BY <1>2, <2>3, <2>4, <2>5
<1>10. CASE GetDevices
  <2>1. CreateSteps[11] = "devices"  BY DEF CreateSteps
  <2>2. Fits(11, {"classes"}, {"classes"})  BY <1>1 DEF Standing, Creating, CreateAt
  <2> DEFINE made == {"classes"}
             left == {"classes"}
  <2>3. made \in SUBSET Parts /\ left \in SUBSET Parts /\ "listener" \notin made \cup left
    BY DEF Parts
  <2>4. Stage(CreateSteps[11], made, left)  BY <1>10, <2>1 DEF GetDevices
  <2> HIDE DEF Fits, made, left
  <2>5. Fits(11, made, left)  BY <2>2 DEF made, left
  <2>6. QED  BY <1>2, <2>3, <2>4, <2>5
<1>11. QED  BY <1>3, <1>4, <1>5, <1>6, <1>7, <1>8, <1>9, <1>10

(* A failure has the application released; after it there is one less.     *)
LEMMA FaultTypes ==
  ASSUME ControlTypes, Fault
  PROVE  faults' \in 0 .. MaxFaults
<1>1. faults \in 0 .. MaxFaults  BY DEF ControlTypes
<1>2. 1 <= faults /\ faults' = faults - 1  BY DEF Fault, Faults
<1>3. MaxFaults \in Nat  BY BoundsNatural
<1>4. QED  BY <1>1, <1>2, <1>3

LEMMA ReleaseHere ==
  ASSUME todo' = ReleaseSteps
  PROVE  Here'
<1>1. ReleaseAt(1)'  BY ListEnds DEF ReleaseAt, Releasing
<1>2. QED  BY <1>1 DEF Here

LEMMA DisplayKeeps ==
  ASSUME IInv, CreateDisplay
  PROVE  IInv'
<1>1. At("display") /\ crash = "none"  BY DEF CreateDisplay, At
<1>2. Here /\ ControlTypes /\ Tables /\ Owned /\ Standing(parts)  BY <1>1, IInvIs
<1>3. CreateAt(7) /\ Tail(todo) = From(CreateSteps, 8)
  <2>1. CreateSteps[7] = "display"  BY DEF CreateSteps
  <2>2. QED  BY <1>1, <1>2, <2>1, AtCreate
<1>4. /\ parts' = parts \cup {"display"}
      /\ UNCHANGED <<update, held, scene, bound, camera, crash, messages>>
  BY DEF CreateDisplay
<1>5. todo # <<>>  BY <1>1 DEF At
<1>6. Owned' /\ Tables'
  <2>1. Owned'  BY <1>1, <1>2, <1>4, OwnedByMore
  <2>2. Tables'  BY <1>2, <1>4 DEF Tables
  <2>3. QED  BY <2>1, <2>2
<1>7. Standing(parts')  BY <1>2, <1>3, <1>4 DEF Standing, CreateAt, Creating
<1>8. CASE Goes /\ mode' = "ready" /\ UNCHANGED faults
  <2>1. ControlTypes'  BY <1>2, <1>4, <1>5, <1>8, TodoTypes DEF ControlTypes, Goes, Parts
  <2>2. CreateAt(8)'  BY <1>3, <1>4, <1>8 DEF CreateAt, Creating, Goes
  <2>3. Here'  BY <2>2 DEF Here
  <2>4. QED  BY <1>1, <1>4, <1>6, <1>7, <2>1, <2>3, IInvNext
<1>9. CASE Fault /\ mode' = "initialising" /\ todo' = ReleaseSteps
  <2>1. ControlTypes'  BY <1>2, <1>4, <1>9, TodoTypes, FaultTypes DEF ControlTypes, Parts
  <2>2. Here'  BY <1>9, ReleaseHere
  <2>3. QED  BY <1>1, <1>4, <1>6, <1>7, <2>1, <2>2, IInvNext
<1>10. QED  BY <1>8, <1>9 DEF CreateDisplay

LEMMA ViewportsKeep ==
  ASSUME IInv, AddViewports
  PROVE  IInv'
<1>1. At("viewports") /\ crash = "none"  BY DEF AddViewports, At
<1>2. Here /\ ControlTypes /\ Tables /\ Owned /\ Standing(parts)  BY <1>1, IInvIs
<1>3. CreateAt(8) /\ Tail(todo) = From(CreateSteps, 9)
  <2>1. CreateSteps[8] = "viewports"  BY DEF CreateSteps
  <2>2. QED  BY <1>1, <1>2, <2>1, AtCreate
<1>4. UNCHANGED <<update, parts, scene, bound, camera, crash, messages>>  BY DEF AddViewports
<1>5. todo # <<>>  BY <1>1 DEF At
<1>6. CASE /\ Goes /\ mode' = "initialising" /\ UNCHANGED faults
           /\ held' = [held EXCEPT !.creators = {"application"}]
  <2>1. ControlTypes'  BY <1>2, <1>4, <1>5, <1>6, TodoTypes DEF ControlTypes, Goes
  <2>2. Tables'  BY <1>2, <1>4, <1>6 DEF Tables, HeldTypes
  <2>3. Owned'
    <3>1. Noted(held', scene')  BY <1>2, <1>4, <1>6 DEF Owned, Noted, Tables, HeldTypes
    <3>2. "scene" \notin parts' => Gone(held', scene')
      BY <1>2, <1>4, <1>6 DEF Owned, Gone, NothingHeld
    <3>3. held'.cameras = held.cameras  BY <1>2, <1>6 DEF Tables, HeldTypes
    <3>4. QED  BY <1>2, <1>4, <3>1, <3>2, <3>3 DEF Owned
  <2>4. CreateAt(9)'  BY <1>3, <1>4, <1>6 DEF CreateAt, Creating, Goes
  <2>5. Here'  BY <2>4 DEF Here
  <2>6. QED  BY <1>1, <1>2, <1>4, <2>1, <2>2, <2>3, <2>5, IInvNext
<1>7. CASE Fault /\ todo' = <<>> /\ UNCHANGED <<mode, held>>
  <2>1. ControlTypes'  BY <1>2, <1>4, <1>7, FaultTypes, TodoTypes DEF ControlTypes
  <2>2. Owned' /\ Tables'  BY <1>1, <1>2, <1>4, <1>7, OwnedByMore DEF Tables
  <2>3. Waiting'  BY <1>3, <1>4, <1>7 DEF CreateAt, Creating, Waiting
  <2>4. Here'  BY <1>7, <2>3 DEF Here
  <2>5. QED  BY <1>1, <1>2, <1>4, <2>1, <2>2, <2>4, IInvNext
<1>8. QED  BY <1>6, <1>7 DEF AddViewports

LEMMA LayersKeep ==
  ASSUME IInv, CreateLayers
  PROVE  IInv'
<1>1. At("layers") /\ crash = "none"  BY DEF CreateLayers, At
<1>2. Here /\ ControlTypes /\ Tables /\ Owned /\ Standing(parts)  BY <1>1, IInvIs
<1>3. CreateAt(10) /\ Tail(todo) = From(CreateSteps, 11)
  <2>1. CreateSteps[10] = "layers"  BY DEF CreateSteps
  <2>2. QED  BY <1>1, <1>2, <2>1, AtCreate
<1>4. /\ Goes /\ parts' = parts \cup {"layers"}
      /\ UNCHANGED <<mode, update, held, scene, bound, camera, crash, faults, messages>>
  BY DEF CreateLayers
<1>5. todo # <<>>  BY <1>1 DEF At
<1>6. ControlTypes'  BY <1>2, <1>4, <1>5, TodoTypes DEF ControlTypes, Goes, Parts
<1>7. Owned' /\ Tables'
  <2>1. Owned'  BY <1>1, <1>2, <1>4, OwnedByMore
  <2>2. Tables'  BY <1>2, <1>4 DEF Tables
  <2>3. QED  BY <2>1, <2>2
<1>8. Standing(parts')  BY <1>2, <1>3, <1>4 DEF Standing, CreateAt, Creating
<1>9. CreateAt(11)'  BY <1>3, <1>4 DEF CreateAt, Creating, Goes
<1>10. Here'  BY <1>9 DEF Here
<1>11. QED  BY <1>1, <1>4, <1>6, <1>7, <1>8, <1>10, IInvNext

LEMMA ActionsKeep ==
  ASSUME IInv, CreateActions
  PROVE  IInv'
<1>1. At("actions") /\ crash = "none"  BY DEF CreateActions, At
<1>2. Here /\ ControlTypes /\ Tables /\ Owned /\ Standing(parts)  BY <1>1, IInvIs
<1>3. CreateAt(12) /\ Tail(todo) = <<>>
  <2>1. CreateSteps[12] = "actions"  BY DEF CreateSteps
  <2>2. CreateAt(12) /\ Tail(todo) = From(CreateSteps, 13)  BY <1>1, <1>2, <2>1, AtCreate
  <2>3. QED  BY <2>2, ListEnds
<1>4. /\ parts' = parts \cup {"keybinds", "dispatcher"}
      /\ UNCHANGED <<held, scene, bound, camera, crash, messages>>
  BY DEF CreateActions
<1>5. todo # <<>>  BY <1>1 DEF At
<1>6. Owned' /\ Tables'
  <2>1. Owned'  BY <1>1, <1>2, <1>4, OwnedByMore
  <2>2. Tables'  BY <1>2, <1>4 DEF Tables
  <2>3. QED  BY <2>1, <2>2
<1>7. Standing(parts')  BY <1>2, <1>4 DEF Standing
<1>8. CASE Goes /\ mode' = "ready" /\ update' = "load" /\ UNCHANGED faults
  <2>1. ControlTypes'  BY <1>2, <1>4, <1>5, <1>8, TodoTypes DEF ControlTypes, Goes, Parts
  <2>2. Waiting'
    <3>1. {"display", "layers", "time"} \subseteq parts' /\ "listener" \notin parts'
      BY <1>3, <1>4 DEF CreateAt, Creating
    <3>2. QED  BY <1>8, <3>1 DEF Waiting
  <2>3. Here'  BY <1>3, <1>8, <2>2 DEF Here, Goes
  <2>4. QED  BY <1>1, <1>4, <1>6, <1>7, <2>1, <2>3, IInvNext
<1>9. CASE Fault /\ todo' = ReleaseSteps /\ UNCHANGED <<mode, update>>
  <2>1. ControlTypes'  BY <1>2, <1>4, <1>9, TodoTypes, FaultTypes DEF ControlTypes, Parts
  <2>2. Here'  BY <1>9, ReleaseHere
  <2>3. QED  BY <1>1, <1>4, <1>6, <1>7, <2>1, <2>2, IInvNext
<1>10. QED  BY <1>8, <1>9 DEF CreateActions

LEMMA CreationKeeps ==
  ASSUME IInv, Creation
  PROVE  IInv'
BY StagesKeep, DisplayKeeps, ViewportsKeep, LayersKeep, ActionsKeep DEF Creation

-----------------------------------------------------------------------------
(* The main loop: no step of a list is left.                               *)
LEMMA AtTurn ==
  ASSUME Here, todo = <<>>
  PROVE  Waiting
<1>1. ASSUME NEW list \in Seq(Steps), NEW i \in 1 .. Len(list)
      PROVE  todo # From(list, i)
  BY <1>1, FromIs
<1>2. \A i \in 1 .. 12 : ~ CreateAt(i)
  <2>1. CreateSteps \in Seq(Steps) /\ Len(CreateSteps) = 12  BY CreateIs
  <2>2. QED  BY <1>1, <2>1 DEF CreateAt
<1>3. \A i \in 1 .. 12 : ~ DeleteAt(i)
  <2>1. DeleteScene \in Seq(Steps) /\ Len(DeleteScene) = 12  BY ListsAre
  <2>2. QED  BY <1>1, <2>1 DEF DeleteAt
<1>4. \A i \in 1 .. 12 : ~ EndSceneAt(i)
  <2>1. EndSceneSteps \in Seq(Steps) /\ Len(EndSceneSteps) = 25  BY ListsAre
  <2>2. \A i \in 1 .. 12 : i \in 1 .. 25  OBVIOUS
  <2>3. QED  BY <1>1, <2>1, <2>2 DEF EndSceneAt
<1>5. \A i \in 1 .. 22 : ~ LoadAt(i)
  <2>1. LoadTurnSteps \in Seq(Steps) /\ Len(LoadTurnSteps) = 22  BY ListsAre
  <2>2. QED  BY <1>1, <2>1 DEF LoadAt
<1>6. \A i \in 1 .. 15 : ~ ReleaseAt(i)
  <2>1. ReleaseSteps \in Seq(Steps) /\ Len(ReleaseSteps) = 15  BY ReleaseIs
  <2>2. QED  BY <1>1, <2>1 DEF ReleaseAt
<1>7. QED  BY <1>2, <1>3, <1>4, <1>5, <1>6 DEF Here

LEMMA TurnsKeep ==
  ASSUME IInv, Message \/ QuitMessage \/ EmptyTurn
  PROVE  IInv'
<1>1. crash = "none" /\ todo = <<>> /\ mode \in {"ready", "running"}
  BY DEF Message, QuitMessage, EmptyTurn, Turns
<1>2. Here /\ ControlTypes /\ Tables /\ Owned /\ Standing(parts)  BY <1>1, IInvIs
<1>3. /\ mode' \in {"running", "quit"} /\ messages' \in 0 .. MaxMessages
      /\ UNCHANGED <<todo, update, parts, held, scene, bound, camera, crash, faults>>
  <2>1. CASE Message
    <3>1. messages \in 0 .. MaxMessages /\ MaxMessages \in Nat  BY <1>2, BoundsNatural DEF ControlTypes
    <3>2. messages' \in 0 .. MaxMessages  BY <2>1, <3>1 DEF Message
    <3>3. QED  BY <2>1, <3>2 DEF Message
  <2>2. CASE QuitMessage  BY <1>2, <2>2 DEF QuitMessage, ControlTypes
  <2>3. CASE EmptyTurn  BY <1>2, <2>3 DEF EmptyTurn, ControlTypes
  <2>4. QED  BY <2>1, <2>2, <2>3
<1>4. Waiting  BY <1>1, <1>2, AtTurn
<1>5. Waiting'  BY <1>1, <1>3, <1>4 DEF Waiting
<1>6. ControlTypes' /\ Tables'
  <2>1. ControlTypes'  BY <1>2, <1>3 DEF ControlTypes
  <2>2. Tables'  BY <1>2, <1>3 DEF Tables
  <2>3. QED  BY <2>1, <2>2
<1>7. Owned'  BY <1>1, <1>2, <1>3, OwnedByMore
<1>8. Here'  BY <1>1, <1>3, <1>5 DEF Here
<1>9. QED  BY <1>1, <1>2, <1>3, <1>6, <1>7, <1>8, IInvNext

LEMMA LoadTurnKeeps ==
  ASSUME IInv, LoadTurn
  PROVE  IInv'
<1>1. /\ crash = "none" /\ todo = <<>> /\ mode \in {"ready", "running"} /\ update = "load"
      /\ "scene" \notin parts /\ parts' = parts \cup {"scene"} /\ todo' = LoadTurnSteps
      /\ UNCHANGED <<mode, update, held, scene, bound, camera, crash, faults, messages>>
  BY DEF LoadTurn, Turns, LoadTurnSteps
<1>2. Here /\ ControlTypes /\ Tables /\ Owned /\ Standing(parts)  BY <1>1, IInvIs
<1>3. {"display", "layers", "time"} \subseteq parts /\ "listener" \notin parts
  <2>1. Waiting  BY <1>1, <1>2, AtTurn
  <2>2. QED  BY <1>1, <2>1 DEF Waiting
<1>4. ControlTypes'  BY <1>1, <1>2, TodoTypes DEF ControlTypes, Parts
<1>5. Tables'  BY <1>1, <1>2 DEF Tables
<1>6. Owned'  BY <1>1, <1>2, OwnedByMore
<1>7. Standing(parts')  BY <1>1, <1>2, <1>3 DEF Standing
<1>8. LoadAt(1)'
  <2>1. InTurn'  BY <1>1, <1>3 DEF InTurn
  <2>2. Loading(1, held', scene', bound')  BY DEF Loading, Dropped
  <2>3. todo' = From(LoadTurnSteps, 1)  BY <1>1, ListEnds
  <2>4. QED  BY <2>1, <2>2, <2>3 DEF LoadAt
<1>9. Here'  BY <1>8 DEF Here
<1>10. QED  BY <1>1, <1>4, <1>5, <1>6, <1>7, <1>9, IInvNext

LEMMA RenderTurnKeeps ==
  ASSUME IInv, RenderTurn
  PROVE  IInv'
<1>1. /\ crash = "none" /\ todo = <<>> /\ mode \in {"ready", "running"} /\ update = "render"
      /\ scene' = [scene EXCEPT !.dummies = TRUE]
      /\ UNCHANGED <<todo, mode, update, parts, held, bound, camera, crash, faults, messages>>
  BY DEF RenderTurn, Turns
<1>2. Here /\ ControlTypes /\ Tables /\ Owned /\ Standing(parts)  BY <1>1, IInvIs
<1>3. Waiting  BY <1>1, <1>2, AtTurn
<1>4. "listener" \in parts /\ scene.octree  BY <1>1, <1>3 DEF Waiting
<1>5. ControlTypes'  BY <1>1, <1>2 DEF ControlTypes
<1>6. Tables'  BY <1>1, <1>2 DEF Tables, SceneTypes
<1>7. Owned'
  <2>1. Noted(held', scene')  BY <1>1, <1>2, <1>4 DEF Owned, Noted, Tables, SceneTypes
  <2>2. "scene" \in parts'  BY <1>1, <1>2, <1>4 DEF Standing
  <2>3. QED  BY <1>1, <1>2, <2>1, <2>2 DEF Owned
<1>8. Here'
  <2>1. scene'.octree = scene.octree  BY <1>1, <1>2 DEF Tables, SceneTypes
  <2>2. Waiting'  BY <1>1, <1>3, <2>1 DEF Waiting
  <2>3. QED  BY <1>1, <2>2 DEF Here
<1>9. QED  BY <1>1, <1>2, <1>5, <1>6, <1>7, <1>8, IInvNext

LEMMA LeaveLoopKeeps ==
  ASSUME IInv, LeaveLoop
  PROVE  IInv'
<1>1. /\ crash = "none" /\ todo' = ReleaseSteps
      /\ UNCHANGED <<mode, update, parts, held, scene, bound, camera, crash, faults, messages>>
  BY DEF LeaveLoop
<1>2. ControlTypes /\ Tables /\ Owned /\ Standing(parts)  BY <1>1, IInvIs
<1>3. ControlTypes'  BY <1>1, <1>2, TodoTypes DEF ControlTypes
<1>4. Tables'  BY <1>1, <1>2 DEF Tables
<1>5. Owned'  BY <1>1, <1>2, OwnedByMore
<1>6. Here'  BY <1>1, ReleaseHere
<1>7. QED  BY <1>1, <1>2, <1>3, <1>4, <1>5, <1>6, IInvNext

LEMMA MainLoopKeeps ==
  ASSUME IInv, MainLoop
  PROVE  IInv'
BY TurnsKeep, LoadTurnKeeps, RenderTurnKeeps, LeaveLoopKeeps DEF MainLoop

-----------------------------------------------------------------------------
(* Scene::Release, in each of the three lists it is in.                    *)
LEMMA DropKeeps ==
  ASSUME IInv, NEW k \in 1 .. 11, At(SceneReleaseSteps[k]), Goes,
         UNCHANGED <<mode, update, parts, camera, crash, faults, messages>>,
         bound' \in {"none", "live", "dead"}, Tables',
         Dropped(k, held, scene) => Noted(held', scene') /\ Dropped(k + 1, held', scene')
  PROVE  IInv'
<1>1. crash = "none" /\ todo # <<>>  BY DEF At
<1>2. Here /\ ControlTypes /\ Standing(parts)  BY <1>1, IInvIs
<1>3. \/ LoadAt(k) /\ Tail(todo) = From(LoadTurnSteps, k + 1)
      \/ DeleteAt(k) /\ Tail(todo) = From(DeleteScene, k + 1)
      \/ EndSceneAt(k) /\ Tail(todo) = From(EndSceneSteps, k + 1)
  BY <1>2, AtDrop
<1>4. Dropped(k, held, scene) /\ "scene" \in parts /\ "listener" \notin parts
  <2>1. CASE LoadAt(k)
    <3>1. k < 12  OBVIOUS
    <3>2. Dropped(k, held, scene)  BY <2>1, <3>1 DEF LoadAt, Loading
    <3>3. QED  BY <2>1, <3>2 DEF LoadAt, InTurn
  <2>2. CASE DeleteAt(k)  BY <2>2 DEF DeleteAt, InTurn
  <2>3. CASE EndSceneAt(k)  BY <2>3 DEF EndSceneAt
  <2>4. QED  BY <1>3, <2>1, <2>2, <2>3
<1>5. Noted(held', scene') /\ Dropped(k + 1, held', scene')  BY <1>4
<1>6. ControlTypes'  BY <1>1, <1>2, TodoTypes DEF ControlTypes, Goes
<1>7. Owned'  BY <1>4, <1>5 DEF Owned
<1>8. Here'
  <2>1. CASE LoadAt(k) /\ Tail(todo) = From(LoadTurnSteps, k + 1)
    <3>1. InTurn'  BY <2>1 DEF LoadAt, InTurn
    <3>2. Loading(k + 1, held', scene', bound')
      <4>1. CASE k < 11  BY <1>5, <4>1 DEF Loading
      <4>2. CASE k = 11  BY <1>5, <4>2 DEF Loading, Dropped
      <4>3. QED  BY <4>1, <4>2
    <3>3. LoadAt(k + 1)'  BY <2>1, <3>1, <3>2 DEF LoadAt, Goes
    <3>4. k + 1 \in 1 .. 22  OBVIOUS
    <3>5. QED  BY <3>3, <3>4 DEF Here
  <2>2. CASE DeleteAt(k) /\ Tail(todo) = From(DeleteScene, k + 1)
    <3>1. DeleteAt(k + 1)'  BY <1>5, <2>2 DEF DeleteAt, InTurn, Goes
    <3>2. k + 1 \in 1 .. 12  OBVIOUS
    <3>3. QED  BY <3>1, <3>2 DEF Here
  <2>3. CASE EndSceneAt(k) /\ Tail(todo) = From(EndSceneSteps, k + 1)
    <3>1. EndSceneAt(k + 1)'  BY <1>5, <2>3 DEF EndSceneAt, Goes
    <3>2. k + 1 \in 1 .. 12  OBVIOUS
    <3>3. QED  BY <3>1, <3>2 DEF Here
  <2>4. QED  BY <1>3, <2>1, <2>2, <2>3
<1>9. QED  BY <1>1, <1>2, <1>6, <1>7, <1>8, IInvNext

(* What an object or the overlay uses is of no post process.               *)
LEMMA UsedApart ==
  ASSUME NEW posts \in SUBSET PostsOf(All(Stages))
  PROVE  OverlayMaterial \notin posts /\ \A o \in All(Objects) : o.material \notin posts
BY SceneFileLoads

LEMMA DropDummiesKeeps ==
  ASSUME IInv, DropDummies
  PROVE  IInv'
<1>1. At(SceneReleaseSteps[1])
  <2>1. SceneReleaseSteps[1] = "dropDummies"  BY DEF SceneReleaseSteps
  <2>2. QED  BY <2>1 DEF DropDummies
<1>2. Goes /\ UNCHANGED <<mode, update, parts, camera, crash, faults, messages>>  BY DEF DropDummies
<1>3. Noted(held, scene) /\ Tables /\ ControlTypes  BY IInvIs DEF Owned
<1>4. Tables'  BY <1>3 DEF DropDummies, Tables, HeldTypes, SceneTypes
<1>5. bound' \in {"none", "live", "dead"}  BY <1>3 DEF DropDummies, ControlTypes
<1>6. Dropped(1, held, scene) => Noted(held', scene') /\ Dropped(2, held', scene')
  BY <1>3, <1>4 DEF DropDummies, Noted, Dropped, Tables, HeldTypes, SceneTypes
<1>7. QED  BY <1>1, <1>2, <1>4, <1>5, <1>6, DropKeeps

LEMMA DropStagesKeeps ==
  ASSUME IInv, DropStages
  PROVE  IInv'
<1>1. At(SceneReleaseSteps[2])
  <2>1. SceneReleaseSteps[2] = "dropStages"  BY DEF SceneReleaseSteps
  <2>2. QED  BY <2>1 DEF DropStages
<1>2. Goes /\ UNCHANGED <<mode, update, parts, camera, crash, faults, messages>>  BY DEF DropStages
<1>3. Noted(held, scene) /\ Tables /\ ControlTypes  BY IInvIs DEF Owned
<1>4. Tables'  BY <1>3 DEF DropStages, Tables, HeldTypes, SceneTypes
<1>5. bound' \in {"none", "live", "dead"}  BY <1>3 DEF DropStages, ControlTypes
<1>6. Dropped(2, held, scene) => Noted(held', scene') /\ Dropped(3, held', scene')
  <2> DEFINE posts == PostsOf(scene.stages)
  <2>1. /\ held' = [held EXCEPT !.stages = @ \ scene.stages, !.materials = @ \ posts]
        /\ scene' = [scene EXCEPT !.stages = {}]
    BY DEF DropStages
  <2>2. /\ scene.stages \in SUBSET All(Stages) /\ scene.objects \in SUBSET All(Objects)
        /\ held \in HeldTypes /\ scene \in SceneTypes
    BY <1>3 DEF Tables, SceneTypes
  <2>3. posts \in SUBSET PostsOf(All(Stages))  BY <2>2 DEF PostsOf
  <2> HIDE DEF posts
  <2>4. OverlayMaterial \notin posts /\ \A o \in scene.objects : o.material \notin posts
    BY <2>2, <2>3, UsedApart
  <2>5. /\ held'.textures = held.textures /\ held'.cameras = held.cameras /\ held'.fonts = held.fonts
        /\ held'.stages = held.stages \ scene.stages /\ held'.materials = held.materials \ posts
        /\ held'.layerings = held.layerings
    BY <2>1, <2>2 DEF HeldTypes
  <2>6. /\ scene'.targets = scene.targets /\ scene'.cameras = scene.cameras /\ scene'.fonts = scene.fonts
        /\ scene'.stages = {} /\ scene'.materials = scene.materials /\ scene'.objects = scene.objects
        /\ scene'.octree = scene.octree /\ scene'.overlay = scene.overlay /\ scene'.dummies = scene.dummies
    BY <2>1, <2>2 DEF SceneTypes
  <2>7. Noted(held', scene')  BY <1>3, <2>4, <2>5, <2>6 DEF Noted
  <2>8. Dropped(2, held, scene) => Dropped(3, held', scene')  BY <2>6 DEF Dropped
  <2>9. QED  BY <2>7, <2>8
<1>7. QED  BY <1>1, <1>2, <1>4, <1>5, <1>6, DropKeeps

LEMMA DropCamerasKeeps ==
  ASSUME IInv, DropCameras
  PROVE  IInv'
<1>1. At(SceneReleaseSteps[3])
  <2>1. SceneReleaseSteps[3] = "dropCameras"  BY DEF SceneReleaseSteps
  <2>2. QED  BY <2>1 DEF DropCameras
<1>2. Goes /\ UNCHANGED <<mode, update, parts, camera, crash, faults, messages>>  BY DEF DropCameras
<1>3. Noted(held, scene) /\ Tables /\ ControlTypes  BY IInvIs DEF Owned
<1>4. Tables'  BY <1>3 DEF DropCameras, Tables, HeldTypes, SceneTypes
<1>5. bound' \in {"none", "live", "dead"}  BY <1>3 DEF DropCameras, ControlTypes
<1>6. Dropped(3, held, scene) => Noted(held', scene') /\ Dropped(4, held', scene')
  BY <1>3, <1>4 DEF DropCameras, Noted, Dropped, Tables, HeldTypes, SceneTypes
<1>7. QED  BY <1>1, <1>2, <1>4, <1>5, <1>6, DropKeeps

LEMMA DropOverlayKeeps ==
  ASSUME IInv, DropOverlay
  PROVE  IInv'
<1>1. At(SceneReleaseSteps[4])
  <2>1. SceneReleaseSteps[4] = "dropOverlay"  BY DEF SceneReleaseSteps
  <2>2. QED  BY <2>1 DEF DropOverlay
<1>2. Goes /\ UNCHANGED <<mode, update, parts, camera, crash, faults, messages>>  BY DEF DropOverlay
<1>3. Noted(held, scene) /\ Tables /\ ControlTypes  BY IInvIs DEF Owned
<1>4. Tables'  BY <1>3 DEF DropOverlay, Tables, HeldTypes, SceneTypes
<1>5. bound' \in {"none", "live", "dead"}  BY <1>3 DEF DropOverlay, ControlTypes
<1>6. Dropped(4, held, scene) => Noted(held', scene') /\ Dropped(5, held', scene')
  BY <1>3, <1>4 DEF DropOverlay, Noted, Dropped, Tables, HeldTypes, SceneTypes
<1>7. QED  BY <1>1, <1>2, <1>4, <1>5, <1>6, DropKeeps

LEMMA DropWaterKeeps ==
  ASSUME IInv, DropWater
  PROVE  IInv'
<1>1. At(SceneReleaseSteps[5])
  <2>1. SceneReleaseSteps[5] = "dropWater"  BY DEF SceneReleaseSteps
  <2>2. QED  BY <2>1 DEF DropWater
<1>2. Goes /\ UNCHANGED <<mode, update, parts, camera, crash, faults, messages>>  BY DEF DropWater
<1>3. Noted(held, scene) /\ Tables /\ ControlTypes  BY IInvIs DEF Owned
<1>4. Tables'  BY <1>3 DEF DropWater, Tables, HeldTypes, SceneTypes
<1>5. bound' \in {"none", "live", "dead"}  BY <1>3 DEF DropWater, ControlTypes
<1>6. Dropped(5, held, scene) => Noted(held', scene') /\ Dropped(6, held', scene')
  BY <1>3, <1>4 DEF DropWater, Noted, Dropped, Tables, HeldTypes, SceneTypes
<1>7. QED  BY <1>1, <1>2, <1>4, <1>5, <1>6, DropKeeps

LEMMA DropHierarchyKeeps ==
  ASSUME IInv, DropHierarchy
  PROVE  IInv'
<1>1. At(SceneReleaseSteps[6])
  <2>1. SceneReleaseSteps[6] = "dropHierarchy"  BY DEF SceneReleaseSteps
  <2>2. QED  BY <2>1 DEF DropHierarchy
<1>2. Goes /\ UNCHANGED <<mode, update, parts, camera, crash, faults, messages>>  BY DEF DropHierarchy
<1>3. Noted(held, scene) /\ Tables /\ ControlTypes  BY IInvIs DEF Owned
<1>4. Tables'  BY <1>3 DEF DropHierarchy, Tables, HeldTypes, SceneTypes
<1>5. bound' \in {"none", "live", "dead"}  BY <1>3 DEF DropHierarchy, ControlTypes
<1>6. Dropped(6, held, scene) => Noted(held', scene') /\ Dropped(7, held', scene')
  BY <1>3, <1>4 DEF DropHierarchy, Noted, Dropped, Tables, HeldTypes, SceneTypes
<1>7. QED  BY <1>1, <1>2, <1>4, <1>5, <1>6, DropKeeps

LEMMA DropLayeringsKeeps ==
  ASSUME IInv, DropLayerings
  PROVE  IInv'
<1>1. At(SceneReleaseSteps[7])
  <2>1. SceneReleaseSteps[7] = "dropLayerings"  BY DEF SceneReleaseSteps
  <2>2. QED  BY <2>1 DEF DropLayerings
<1>2. Goes /\ UNCHANGED <<mode, update, parts, camera, crash, faults, messages>>  BY DEF DropLayerings
<1>3. Noted(held, scene) /\ Tables /\ ControlTypes  BY IInvIs DEF Owned
<1>4. Tables'  BY <1>3 DEF DropLayerings, Tables, HeldTypes, SceneTypes
<1>5. bound' \in {"none", "live", "dead"}  BY <1>3 DEF DropLayerings, ControlTypes
<1>6. Dropped(7, held, scene) => Noted(held', scene') /\ Dropped(8, held', scene')
  BY <1>3, <1>4 DEF DropLayerings, Noted, Dropped, Tables, HeldTypes, SceneTypes
<1>7. QED  BY <1>1, <1>2, <1>4, <1>5, <1>6, DropKeeps

LEMMA DropOctreeKeeps ==
  ASSUME IInv, DropOctree
  PROVE  IInv'
<1>1. At(SceneReleaseSteps[8])
  <2>1. SceneReleaseSteps[8] = "dropOctree"  BY DEF SceneReleaseSteps
  <2>2. QED  BY <2>1 DEF DropOctree
<1>2. Goes /\ UNCHANGED <<mode, update, parts, camera, crash, faults, messages>>  BY DEF DropOctree
<1>3. Noted(held, scene) /\ Tables /\ ControlTypes  BY IInvIs DEF Owned
<1>4. Tables'  BY <1>3 DEF DropOctree, Tables, HeldTypes, SceneTypes
<1>5. bound' \in {"none", "live", "dead"}  BY <1>3 DEF DropOctree, ControlTypes
<1>6. Dropped(8, held, scene) => Noted(held', scene') /\ Dropped(9, held', scene')
  BY <1>3, <1>4 DEF DropOctree, Noted, Dropped, Tables, HeldTypes, SceneTypes
<1>7. QED  BY <1>1, <1>2, <1>4, <1>5, <1>6, DropKeeps

LEMMA DropMaterialsKeeps ==
  ASSUME IInv, DropMaterials
  PROVE  IInv'
<1>1. At(SceneReleaseSteps[9])
  <2>1. SceneReleaseSteps[9] = "dropMaterials"  BY DEF SceneReleaseSteps
  <2>2. QED  BY <2>1 DEF DropMaterials
<1>2. Goes /\ UNCHANGED <<mode, update, parts, camera, crash, faults, messages>>  BY DEF DropMaterials
<1>3. Noted(held, scene) /\ Tables /\ ControlTypes  BY IInvIs DEF Owned
<1>4. Tables'  BY <1>3 DEF DropMaterials, Tables, HeldTypes, SceneTypes
<1>5. bound' \in {"none", "live", "dead"}  BY <1>3 DEF DropMaterials, ControlTypes
<1>6. Dropped(9, held, scene) => Noted(held', scene') /\ Dropped(10, held', scene')
  BY <1>3, <1>4 DEF DropMaterials, Noted, Dropped, Tables, HeldTypes, SceneTypes
<1>7. QED  BY <1>1, <1>2, <1>4, <1>5, <1>6, DropKeeps

LEMMA DropCreatorsKeeps ==
  ASSUME IInv, DropCreators
  PROVE  IInv'
<1>1. At(SceneReleaseSteps[10])
  <2>1. SceneReleaseSteps[10] = "dropCreators"  BY DEF SceneReleaseSteps
  <2>2. QED  BY <2>1 DEF DropCreators
<1>2. Goes /\ UNCHANGED <<mode, update, parts, camera, crash, faults, messages>>  BY DEF DropCreators
<1>3. Noted(held, scene) /\ Tables /\ ControlTypes  BY IInvIs DEF Owned
<1>4. Tables'  BY <1>3 DEF DropCreators, Tables, HeldTypes, SceneTypes
<1>5. bound' \in {"none", "live", "dead"}  BY <1>3 DEF DropCreators, ControlTypes
<1>6. Dropped(10, held, scene) => Noted(held', scene') /\ Dropped(11, held', scene')
  BY <1>3, <1>4 DEF DropCreators, Noted, Dropped, Tables, HeldTypes, SceneTypes
<1>7. QED  BY <1>1, <1>2, <1>4, <1>5, <1>6, DropKeeps

LEMMA DropTargetsKeeps ==
  ASSUME IInv, DropTargets
  PROVE  IInv'
<1>1. At(SceneReleaseSteps[11])
  <2>1. SceneReleaseSteps[11] = "dropTargets"  BY DEF SceneReleaseSteps
  <2>2. QED  BY <2>1 DEF DropTargets
<1>2. Goes /\ UNCHANGED <<mode, update, parts, camera, crash, faults, messages>>  BY DEF DropTargets
<1>3. Noted(held, scene) /\ Tables /\ ControlTypes  BY IInvIs DEF Owned
<1>4. Tables'  BY <1>3 DEF DropTargets, Tables, HeldTypes, SceneTypes
<1>5. bound' \in {"none", "live", "dead"}  BY <1>3 DEF DropTargets, ControlTypes
<1>6. Dropped(11, held, scene) => Noted(held', scene') /\ Dropped(12, held', scene')
  BY <1>3, <1>4 DEF DropTargets, Noted, Dropped, Tables, HeldTypes, SceneTypes
<1>7. QED  BY <1>1, <1>2, <1>4, <1>5, <1>6, DropKeeps

(* The scene is given back entirely when it is deleted.                    *)
LEMMA AllDropped ==
  ASSUME Tables, Noted(held, scene), Dropped(12, held, scene)
  PROVE  Gone(held, scene)
<1>1. /\ scene.targets = {} /\ scene.materials = {} /\ scene.octree = FALSE /\ scene.objects = {}
      /\ scene.water = FALSE /\ scene.cameras = {} /\ scene.stages = {} /\ scene.fonts = {}
      /\ scene.overlay = FALSE /\ scene.dummies = FALSE
  BY DEF Dropped, Tables, SceneTypes
<1>2. /\ held.textures = {} /\ held.materials = {} /\ held.cameras = {} /\ held.stages = {}
      /\ held.fonts = {} /\ held.layerings = {}
  BY <1>1 DEF Noted, Dropped
<1>3. held.creators = {} \/ held.creators = {"application"}  BY DEF Dropped, Tables, HeldTypes
<1>4. scene = EmptyScene  BY <1>1 DEF Tables, SceneTypes, EmptyScene
<1>5. held \in {NothingHeld, [NothingHeld EXCEPT !.creators = {"application"}]}
  BY <1>2, <1>3 DEF Tables, HeldTypes, NothingHeld
<1>6. QED  BY <1>4, <1>5 DEF Gone

LEMMA DeletedKeeps ==
  ASSUME IInv, Deleted
  PROVE  IInv'
<1>1. /\ At("deleteScene") /\ crash = "none" /\ todo # <<>> /\ todo' = Tail(todo)
      /\ parts' = parts \ {"scene"}
      /\ UNCHANGED <<mode, update, held, scene, bound, camera, crash, faults, messages>>
  BY DEF Deleted, At, Goes
<1>2. Here /\ ControlTypes /\ Tables /\ Owned /\ Standing(parts)  BY <1>1, IInvIs
<1>3. \/ DeleteAt(12) /\ Tail(todo) = <<>>
      \/ EndSceneAt(12) /\ Tail(todo) = From(ReleaseSteps, 3)
  BY <1>1, <1>2, AtDelete
<1>4. "listener" \notin parts /\ Dropped(12, held, scene)
  BY <1>3 DEF DeleteAt, EndSceneAt, InTurn
<1>5. Gone(held, scene)  BY <1>2, <1>4, AllDropped DEF Owned
<1>6. ControlTypes'  BY <1>1, <1>2, TodoTypes DEF ControlTypes
<1>7. Tables'  BY <1>1, <1>2 DEF Tables
<1>8. Owned'  BY <1>1, <1>2, <1>4, <1>5 DEF Owned
<1>9. Standing(parts')  BY <1>1, <1>2, <1>4 DEF Standing
<1>10. Here'
  <2>1. CASE DeleteAt(12) /\ Tail(todo) = <<>>
    <3>1. Waiting'  BY <1>1, <2>1 DEF DeleteAt, InTurn, Waiting
    <3>2. QED  BY <1>1, <2>1, <3>1 DEF Here
  <2>2. CASE EndSceneAt(12) /\ Tail(todo) = From(ReleaseSteps, 3)
    <3>1. Releasing(3, parts', held')  BY <1>1, <1>4 DEF Releasing
    <3>2. ReleaseAt(3)'  BY <1>1, <2>2, <3>1 DEF ReleaseAt
    <3>3. QED  BY <3>2 DEF Here
  <2>3. QED  BY <1>3, <2>1, <2>2
<1>11. QED  BY <1>1, <1>6, <1>7, <1>8, <1>9, <1>10, IInvNext

LEMMA SceneReleaseKeeps ==
  ASSUME IInv, SceneRelease
  PROVE  IInv'
BY DropDummiesKeeps, DropStagesKeeps, DropCamerasKeeps, DropOverlayKeeps, DropWaterKeeps,
   DropHierarchyKeeps, DropLayeringsKeeps, DropOctreeKeeps, DropMaterialsKeeps,
   DropCreatorsKeeps, DropTargetsKeeps, DeletedKeeps
   DEF SceneRelease

-----------------------------------------------------------------------------
(* Application::Release, up to its last step.                              *)
LEMMA Onwards == \A k \in 1 .. 14 : k \in 1 .. 15 /\ k + 1 \in 1 .. 15
OBVIOUS

LEMMA EndKeeps ==
  ASSUME IInv, NEW k \in 1 .. 14, At(ReleaseSteps[k]), Goes,
         UNCHANGED <<mode, update, scene, bound, camera, faults, messages>>,
         parts' \in SUBSET parts, Tables', crash' \in {"none", "no display"},
         Releasing(k, parts, held) => /\ Standing(parts') /\ Owned'
                                      /\ crash' = "none" => Releasing(k + 1, parts', held')
  PROVE  IInv'
<1>1. crash = "none" /\ todo # <<>>  BY DEF At
<1>2. Here /\ ControlTypes  BY <1>1, IInvIs
<1>3. ReleaseAt(k) /\ Tail(todo) = From(ReleaseSteps, k + 1)
  <2>1. k \in 1 .. 15  BY Onwards, Zenon
  <2>2. QED  BY <1>2, <2>1, AtRelease
<1>4. Standing(parts') /\ Owned' /\ (crash' = "none" => Releasing(k + 1, parts', held'))
  BY <1>3 DEF ReleaseAt
<1>5. ControlTypes'  BY <1>1, <1>2, TodoTypes DEF ControlTypes, Goes
<1>6. ASSUME crash' = "none" PROVE Here'
  <2>1. ReleaseAt(k + 1)'  BY <1>3, <1>4, <1>6 DEF ReleaseAt, Goes
  <2>2. k + 1 \in 1 .. 15  BY Onwards, Zenon
  <2>3. QED  BY <2>1, <2>2 DEF Here
<1>7. QED  BY <1>4, <1>5, <1>6, IInvNext

(* Once the scene is gone nothing is held but by the application.          *)
LEMMA GoneIs ==
  ASSUME Gone(held, scene)
  PROVE  /\ held.textures = {} /\ held.materials = {} /\ held.cameras = {} /\ held.stages = {}
         /\ held.fonts = {} /\ held.layerings = {}
         /\ held.creators = {} \/ held.creators = {"application"}
BY DEF Gone, NothingHeld

LEMMA NothingIsNoted ==
  ASSUME NEW h, Gone(h, scene)
  PROVE  Noted(h, scene)
BY DEF Gone, Noted, NothingHeld, EmptyScene

LEMMA EndListenerKeeps ==
  ASSUME IInv, EndListener
  PROVE  IInv'
<1>1. At(ReleaseSteps[1])
  <2>1. ReleaseSteps[1] = "endListener"  BY DEF ReleaseSteps
  <2>2. QED  BY <2>1 DEF EndListener
<1>2. /\ Goes /\ parts' = parts \ {"listener"} /\ crash = "none"
      /\ UNCHANGED <<mode, update, held, scene, bound, camera, crash, faults, messages>>
  BY DEF EndListener, At
<1>3. Tables /\ Owned /\ Standing(parts)  BY IInvIs
<1>4. Tables'  BY <1>2, <1>3 DEF Tables
<1>5. Owned'  BY <1>2, <1>3, OwnedByMore
<1>6. Standing(parts')  BY <1>2, <1>3 DEF Standing
<1>7. Releasing(2, parts', held')  BY <1>2 DEF Releasing
<1>8. QED  BY <1>1, <1>2, <1>4, <1>5, <1>6, <1>7, EndKeeps

LEMMA EndSceneKeeps ==
  ASSUME IInv, EndScene
  PROVE  IInv'
<1>1. /\ At("endScene") /\ crash = "none" /\ todo # <<>>
      /\ todo' = IF "scene" \in parts THEN DeleteScene \o Tail(todo) ELSE Tail(todo)
      /\ UNCHANGED <<mode, update, parts, held, scene, bound, camera, crash, faults, messages>>
  BY DEF EndScene, At
<1>2. Here /\ ControlTypes /\ Tables /\ Owned /\ Standing(parts)  BY <1>1, IInvIs
<1>3. ReleaseAt(2) /\ Tail(todo) = From(ReleaseSteps, 3)
  <2>1. ReleaseSteps[2] = "endScene"  BY DEF ReleaseSteps
  <2>2. QED  BY <1>1, <1>2, <2>1, AtRelease
<1>4. "listener" \notin parts  BY <1>3 DEF ReleaseAt, Releasing
<1>5. todo' \in Seq(Steps) /\ Here'
  <2>1. CASE "scene" \in parts
    <3>1. /\ todo' = EndSceneSteps /\ EndSceneSteps \in Seq(Steps)
          /\ EndSceneSteps = From(EndSceneSteps, 1)
      <4>1. todo' = DeleteScene \o From(ReleaseSteps, 3)  BY <1>1, <1>3, <2>1
      <4>2. EndSceneSteps = DeleteScene \o From(ReleaseSteps, 3)  BY ListsAre
      <4>3. EndSceneSteps \in Seq(Steps)  BY ListsAre
      <4>4. EndSceneSteps = From(EndSceneSteps, 1)  BY ListEnds
      <4>5. QED  BY <4>1, <4>2, <4>3, <4>4
    <3>2. Dropped(1, held', scene')  BY DEF Dropped
    <3>3. todo' = From(EndSceneSteps, 1)  BY <3>1
    <3>4. EndSceneAt(1)'  BY <1>1, <1>4, <2>1, <3>2, <3>3 DEF EndSceneAt
    <3>5. Here'  BY <3>4 DEF Here
    <3>6. QED  BY <3>1, <3>5
  <2>2. CASE "scene" \notin parts
    <3>1. Releasing(3, parts', held')  BY <1>1, <1>4, <2>2 DEF Releasing
    <3>2. ReleaseAt(3)'  BY <1>1, <1>3, <2>2, <3>1 DEF ReleaseAt
    <3>3. Here'  BY <3>2 DEF Here
    <3>4. todo' \in Seq(Steps)  BY <1>1, <1>2, <2>2, TodoTypes DEF ControlTypes
    <3>5. QED  BY <3>3, <3>4
  <2>3. QED  BY <2>1, <2>2
<1>6. ControlTypes'  BY <1>1, <1>2, <1>5 DEF ControlTypes
<1>7. Tables'  BY <1>1, <1>2 DEF Tables
<1>8. Owned'  BY <1>1, <1>2, OwnedByMore
<1>9. QED  BY <1>1, <1>2, <1>5, <1>6, <1>7, <1>8, IInvNext

LEMMA EndPartsKeep ==
  ASSUME IInv, EndParts
  PROVE  IInv'
<1>1. PICK step \in DOMAIN Ends : At(step) /\ parts' = parts \ Ends[step]  BY DEF EndParts
<1>2. /\ Goes /\ crash = "none"
      /\ UNCHANGED <<mode, update, held, scene, bound, camera, crash, faults, messages>>
  BY <1>1 DEF EndParts, At
<1>3. Tables /\ Owned /\ Standing(parts)  BY IInvIs
<1>4. Tables'  BY <1>2, <1>3 DEF Tables
<1>5. ASSUME NEW k \in 1 .. 14, ReleaseSteps[k] = step, NEW ends, Ends[step] = ends,
             "scene" \notin ends, "listener" \notin ends,
             Releasing(k, parts, held) => /\ Standing(parts \ ends)
                                          /\ Releasing(k + 1, parts \ ends, held)
      PROVE  IInv'
  <2>1. parts' = parts \ ends /\ At(ReleaseSteps[k])  BY <1>1, <1>5
  <2>2. Owned'  BY <1>2, <1>3, <1>5, <2>1, OwnedByMore
  <2>3. Releasing(k, parts, held) => /\ Standing(parts') /\ Owned'
                                     /\ crash' = "none" => Releasing(k + 1, parts', held')
    BY <1>2, <1>5, <2>1, <2>2
  <2>4. QED  BY <1>2, <1>4, <2>1, <2>3, EndKeeps
<1> DEFINE Fits(k, ends) == Releasing(k, parts, held) => /\ Standing(parts \ ends)
                                                        /\ Releasing(k + 1, parts \ ends, held)
<1>6. step \in {"endActions", "endInput", "endClasses", "endLua", "endLog", "endMemory", "endNative",
                "endRoot", "endJobs"}
  BY <1>1 DEF Ends
<1>7. CASE step = "endActions"
  <2> DEFINE ends == {"dispatcher", "keybinds"}
  <2>1. ReleaseSteps[3] = step  BY <1>7 DEF ReleaseSteps
  <2>2. Ends[step] = ends  BY <1>7 DEF Ends
  <2>3. "scene" \notin ends /\ "listener" \notin ends  OBVIOUS
  <2>4. Fits(3, ends)  BY <1>3 DEF Standing, Releasing
  <2> HIDE DEF ends
  <2>5. QED  BY <1>5, <2>1, <2>2, <2>3, <2>4
<1>8. CASE step = "endInput"
  <2> DEFINE ends == {"input"}
  <2>1. ReleaseSteps[4] = step  BY <1>8 DEF ReleaseSteps
  <2>2. Ends[step] = ends  BY <1>8 DEF Ends
  <2>3. "scene" \notin ends /\ "listener" \notin ends  OBVIOUS
  <2>4. Fits(4, ends)  BY <1>3 DEF Standing, Releasing
  <2> HIDE DEF ends
  <2>5. QED  BY <1>5, <2>1, <2>2, <2>3, <2>4
<1>9. CASE step = "endClasses"
  <2> DEFINE ends == {"classes"}
  <2>1. ReleaseSteps[5] = step  BY <1>9 DEF ReleaseSteps
  <2>2. Ends[step] = ends  BY <1>9 DEF Ends
  <2>3. "scene" \notin ends /\ "listener" \notin ends  OBVIOUS
  <2>4. Fits(5, ends)  BY <1>3 DEF Standing, Releasing
  <2> HIDE DEF ends
  <2>5. QED  BY <1>5, <2>1, <2>2, <2>3, <2>4
<1>10. CASE step = "endLua"
  <2> DEFINE ends == {"lua"}
  <2>1. ReleaseSteps[9] = step  BY <1>10 DEF ReleaseSteps
  <2>2. Ends[step] = ends  BY <1>10 DEF Ends
  <2>3. "scene" \notin ends /\ "listener" \notin ends  OBVIOUS
  <2>4. Fits(9, ends)  BY <1>3 DEF Standing, Releasing
  <2> HIDE DEF ends
  <2>5. QED  BY <1>5, <2>1, <2>2, <2>3, <2>4
<1>11. CASE step = "endLog"
  <2> DEFINE ends == {"log"}
  <2>1. ReleaseSteps[10] = step  BY <1>11 DEF ReleaseSteps
  <2>2. Ends[step] = ends  BY <1>11 DEF Ends
  <2>3. "scene" \notin ends /\ "listener" \notin ends  OBVIOUS
  <2>4. Fits(10, ends)  BY <1>3 DEF Standing, Releasing
  <2> HIDE DEF ends
  <2>5. QED  BY <1>5, <2>1, <2>2, <2>3, <2>4
<1>12. CASE step = "endMemory"
  <2> DEFINE ends == {"memory"}
  <2>1. ReleaseSteps[11] = step  BY <1>12 DEF ReleaseSteps
  <2>2. Ends[step] = ends  BY <1>12 DEF Ends
  <2>3. "scene" \notin ends /\ "listener" \notin ends  OBVIOUS
  <2>4. Fits(11, ends)  BY <1>3 DEF Standing, Releasing
  <2> HIDE DEF ends
  <2>5. QED  BY <1>5, <2>1, <2>2, <2>3, <2>4
<1>13. CASE step = "endNative"
  <2> DEFINE ends == {"native"}
  <2>1. ReleaseSteps[12] = step  BY <1>13 DEF ReleaseSteps
  <2>2. Ends[step] = ends  BY <1>13 DEF Ends
  <2>3. "scene" \notin ends /\ "listener" \notin ends  OBVIOUS
  <2>4. Fits(12, ends)  BY <1>3 DEF Standing, Releasing
  <2> HIDE DEF ends
  <2>5. QED  BY <1>5, <2>1, <2>2, <2>3, <2>4
<1>14. CASE step = "endRoot"
  <2> DEFINE ends == {"root"}
  <2>1. ReleaseSteps[13] = step  BY <1>14 DEF ReleaseSteps
  <2>2. Ends[step] = ends  BY <1>14 DEF Ends
  <2>3. "scene" \notin ends /\ "listener" \notin ends  OBVIOUS
  <2>4. Fits(13, ends)  BY <1>3 DEF Standing, Releasing
  <2> HIDE DEF ends
  <2>5. QED  BY <1>5, <2>1, <2>2, <2>3, <2>4
<1>15. CASE step = "endJobs"
  <2> DEFINE ends == {"jobs"}
  <2>1. ReleaseSteps[14] = step  BY <1>15 DEF ReleaseSteps
  <2>2. Ends[step] = ends  BY <1>15 DEF Ends
  <2>3. "scene" \notin ends /\ "listener" \notin ends  OBVIOUS
  <2>4. Fits(14, ends)  BY <1>3 DEF Standing, Releasing
  <2> HIDE DEF ends
  <2>5. QED  BY <1>5, <2>1, <2>2, <2>3, <2>4
<1>16. QED  BY <1>6, <1>7, <1>8, <1>9, <1>10, <1>11, <1>12, <1>13, <1>14, <1>15

LEMMA EndLayersKeeps ==
  ASSUME IInv, EndLayers
  PROVE  IInv'
<1>1. At(ReleaseSteps[6])
  <2>1. ReleaseSteps[6] = "endLayers"  BY DEF ReleaseSteps
  <2>2. QED  BY <2>1 DEF EndLayers
<1>2. /\ Goes /\ crash = "none" /\ parts' = parts \ {"layers"} /\ held' = [held EXCEPT !.layerings = {}]
      /\ UNCHANGED <<mode, update, scene, bound, camera, crash, faults, messages>>
  BY DEF EndLayers, At
<1>3. Tables /\ Owned /\ Standing(parts)  BY IInvIs
<1>4. Tables'  BY <1>2, <1>3 DEF Tables, HeldTypes
<1>5. ASSUME Releasing(6, parts, held)
      PROVE  Standing(parts') /\ Owned' /\ Releasing(7, parts', held')
  <2>1. "scene" \notin parts /\ "listener" \notin parts  BY <1>5 DEF Releasing
  <2>2. Standing(parts')  BY <1>2, <1>3, <2>1 DEF Standing
  <2>3. Gone(held, scene)  BY <1>3, <2>1 DEF Owned
  <2>4. held' = held  BY <1>2, <1>3, <2>3, GoneIs DEF Tables, HeldTypes
  <2>5. Owned'  BY <1>2, <1>3, <2>1, <2>4 DEF Owned
  <2>6. Releasing(7, parts', held')  BY <1>2, <1>5 DEF Releasing
  <2>7. QED  BY <2>2, <2>5, <2>6
<1>6. QED  BY <1>1, <1>2, <1>4, <1>5, EndKeeps

LEMMA EndCreatorsKeeps ==
  ASSUME IInv, EndCreators
  PROVE  IInv'
<1>1. At(ReleaseSteps[7])
  <2>1. ReleaseSteps[7] = "endCreators"  BY DEF ReleaseSteps
  <2>2. QED  BY <2>1 DEF EndCreators
<1>2. /\ Goes /\ crash = "none"
      /\ UNCHANGED <<mode, update, parts, scene, bound, camera, faults, messages>>
      /\ \/ /\ "display" \in parts /\ crash' = crash
            /\ held' = [held EXCEPT !.creators = @ \ {"application"}]
         \/ crash' = "no display" /\ held' = held
  BY DEF EndCreators, At
<1>3. Tables /\ Owned /\ Standing(parts)  BY IInvIs
<1>4. Tables' /\ crash' \in {"none", "no display"}
  <2>1. Tables'  BY <1>2, <1>3 DEF Tables, HeldTypes
  <2>2. QED  BY <1>2, <2>1
<1>5. ASSUME Releasing(7, parts, held)
      PROVE  Owned' /\ (crash' = "none" => Releasing(8, parts', held'))
  <2>1. "scene" \notin parts /\ "listener" \notin parts  BY <1>5 DEF Releasing
  <2>2. Gone(held, scene)  BY <1>3, <2>1 DEF Owned
  <2>3. CASE crash' = crash /\ "display" \in parts /\ held' = [held EXCEPT !.creators = @ \ {"application"}]
    <3>1. held' = NothingHeld  BY <1>3, <2>2, <2>3, GoneIs DEF Tables, HeldTypes, NothingHeld
    <3>2. Gone(held', scene')  BY <1>2, <2>2, <3>1 DEF Gone
    <3>3. Noted(held', scene)  BY <1>2, <3>2, NothingIsNoted
    <3>4. Owned'  BY <1>2, <2>1, <3>2, <3>3 DEF Owned
    <3>5. "window" \in parts'  BY <1>2, <1>3, <2>3 DEF Standing
    <3>6. "application" \notin held'.creators  BY <3>1 DEF NothingHeld
    <3>7. parts' = parts  BY <1>2
    <3>8. Releasing(8, parts', held')  BY <1>5, <3>5, <3>6, <3>7 DEF Releasing
    <3>9. QED  BY <3>4, <3>8
  <2>4. CASE crash' = "no display" /\ held' = held  BY <1>2, <1>3, <2>4 DEF Owned
  <2>5. QED  BY <1>2, <2>3, <2>4
<1>6. Standing(parts') /\ parts' \in SUBSET parts  BY <1>2, <1>3
<1>7. Goes /\ UNCHANGED <<mode, update, scene, bound, camera, faults, messages>>  BY <1>2
<1>8. Releasing(7, parts, held) => /\ Standing(parts') /\ Owned'
                                   /\ crash' = "none" => Releasing(7 + 1, parts', held')
  BY <1>5, <1>6
<1>9. 7 \in 1 .. 14  OBVIOUS
<1>10. QED  BY <1>1, <1>4, <1>6, <1>7, <1>8, <1>9, EndKeeps, Zenon

(* No camera is left when the display closes.                              *)
LEMMA EndDisplayKeeps ==
  ASSUME IInv, EndDisplay
  PROVE  IInv'
<1>1. At(ReleaseSteps[8]) /\ crash = "none"
  <2>1. ReleaseSteps[8] = "endDisplay"  BY DEF ReleaseSteps
  <2>2. QED  BY <2>1 DEF EndDisplay, At
<1>2. /\ Goes /\ parts' = parts \ {"display"}
      /\ held' = [NothingHeld EXCEPT !.layerings = held.layerings]
      /\ crash' = IF Cardinality(held.cameras) % 2 = 1 THEN "end erased" ELSE crash
      /\ UNCHANGED <<mode, update, scene, bound, camera, faults, messages>>
  BY DEF EndDisplay
<1>3. Tables /\ Owned /\ Standing(parts) /\ Here  BY <1>1, IInvIs
<1>4. ReleaseAt(8)  BY <1>1, <1>3, AtRelease
<1>5. Releasing(8, parts, held)  BY <1>4 DEF ReleaseAt
<1>6. "scene" \notin parts /\ "listener" \notin parts /\ "layers" \notin parts  BY <1>5 DEF Releasing
<1>7. Gone(held, scene)  BY <1>3, <1>6 DEF Owned
<1>8. crash' = "none"
  <2>1. Cardinality(held.cameras) = 0  BY <1>7, GoneIs, FS_EmptySet
  <2>2. QED  BY <1>1, <1>2, <2>1
<1>9. held' = NothingHeld  BY <1>2, <1>7, GoneIs DEF NothingHeld
<1>10. Tables'
  <2>1. NothingHeld \in HeldTypes  BY DEF NothingHeld, HeldTypes
  <2>2. QED  BY <1>2, <1>3, <1>9, <2>1 DEF Tables
<1>11. Owned'
  <2>1. Gone(held', scene')  BY <1>2, <1>7, <1>9 DEF Gone
  <2>2. Noted(held', scene)  BY <1>2, <2>1, NothingIsNoted
  <2>3. QED  BY <1>2, <1>6, <2>1, <2>2 DEF Owned
<1>12. Standing(parts')  BY <1>2, <1>3, <1>6 DEF Standing
<1>13. Releasing(9, parts', held')
  <2>1. "application" \notin held'.creators  BY <1>9 DEF NothingHeld
  <2>2. parts' = parts \ {"display"}  BY <1>2
  <2>3. QED  BY <1>5, <2>1, <2>2 DEF Releasing
<1>14. QED  BY <1>1, <1>2, <1>8, <1>10, <1>11, <1>12, <1>13, EndKeeps

LEMMA EndTimeKeeps ==
  ASSUME IInv, EndTime
  PROVE  IInv'
<1>1. At(ReleaseSteps[15]) /\ crash = "none" /\ todo # <<>>
  <2>1. ReleaseSteps[15] = "endTime"  BY DEF ReleaseSteps
  <2>2. QED  BY <2>1 DEF EndTime, At
<1>2. /\ todo' = Tail(todo) /\ parts' = parts \ {"time"} /\ mode' = "uninitialized"
      /\ UNCHANGED <<update, held, scene, bound, camera, crash, faults, messages>>
  BY DEF EndTime, Goes
<1>3. Tables /\ ControlTypes /\ Owned /\ Standing(parts) /\ Here  BY <1>1, IInvIs
<1>4. ReleaseAt(15) /\ Tail(todo) = <<>>
  <2>1. ReleaseAt(15) /\ Tail(todo) = From(ReleaseSteps, 16)  BY <1>1, <1>3, AtRelease
  <2>2. QED  BY <2>1, ListEnds
<1>5. Releasing(15, parts, held)  BY <1>4 DEF ReleaseAt
<1>6. /\ "scene" \notin parts /\ "listener" \notin parts /\ "dispatcher" \notin parts
      /\ "layers" \notin parts /\ "log" \notin parts /\ "memory" \notin parts
      /\ "native" \notin parts /\ "display" \notin parts /\ "window" \in parts
      /\ "application" \notin held.creators
  BY <1>5 DEF Releasing
<1>7. parts' = {"window"}
  <2>1. parts \subseteq Parts  BY <1>3 DEF ControlTypes
  <2>2. /\ "keybinds" \notin parts /\ "input" \notin parts /\ "classes" \notin parts
        /\ "lua" \notin parts /\ "root" \notin parts /\ "jobs" \notin parts
    BY <1>5 DEF Releasing
  <2>3. QED  BY <1>2, <1>6, <2>1, <2>2 DEF Parts
<1>8. held' = NothingHeld
  <2>1. Gone(held, scene)  BY <1>3, <1>6 DEF Owned
  <2>2. QED  BY <1>2, <1>6, <2>1 DEF Gone, NothingHeld
<1>9. ControlTypes'  BY <1>1, <1>2, <1>3, TodoTypes DEF ControlTypes
<1>10. Tables'  BY <1>2, <1>3 DEF Tables
<1>11. Owned'  BY <1>2, <1>3, <1>6 DEF Owned
<1>12. Standing(parts')  BY <1>7 DEF Standing
<1>13. Here'
  <2>1. Waiting'  BY <1>2, <1>7, <1>8 DEF Waiting
  <2>2. QED  BY <1>2, <1>4, <2>1 DEF Here
<1>14. QED  BY <1>1, <1>2, <1>9, <1>10, <1>11, <1>12, <1>13, IInvNext

LEMMA ReleaseKeeps ==
  ASSUME IInv, Release
  PROVE  IInv'
BY EndListenerKeeps, EndSceneKeeps, EndPartsKeep, EndLayersKeeps, EndCreatorsKeeps,
   EndDisplayKeeps, EndTimeKeeps
   DEF Release

-----------------------------------------------------------------------------
(* Scene::Create, up to its last step: it goes on, or is abandoned.        *)
LEMMA Places ==
  \A k \in 1 .. 10 : /\ k \in 1 .. 11 /\ k + 11 \in 1 .. 22
                      /\ k + 12 \in 1 .. 22 /\ k + 12 = (k + 11) + 1
OBVIOUS

LEMMA AbandonHere ==
  ASSUME InTurn', Abandon
  PROVE  Here'
<1>1. Dropped(1, held', scene')  BY DEF Dropped
<1>2. DeleteAt(1)'  BY <1>1, ListEnds DEF DeleteAt, Abandon
<1>3. QED  BY <1>2 DEF Here

LEMMA LoadKeeps ==
  ASSUME IInv, NEW k \in 1 .. 10, At(LoadSteps[k]),
         UNCHANGED <<mode, update, parts, camera, crash, messages>>,
         faults' \in 0 .. MaxFaults, bound' \in {"none", "live", "dead"}, Tables',
         Loading(k + 11, held, scene, bound) =>
           /\ Noted(held', scene')
           /\ \/ Goes /\ Loading(k + 12, held', scene', bound')
              \/ UNCHANGED todo /\ Loading(k + 11, held', scene', bound')
              \/ Abandon
  PROVE  IInv'
<1>1. crash = "none" /\ todo # <<>>  BY DEF At
<1>2. Here /\ ControlTypes /\ Standing(parts)  BY <1>1, IInvIs
<1>3. LoadAt(k + 11) /\ Tail(todo) = From(LoadTurnSteps, k + 12)
  <2>1. k \in 1 .. 11  BY Places, Zenon
  <2>2. QED  BY <1>2, <2>1, AtLoad, Zenon
<1>4. Loading(k + 11, held, scene, bound) /\ InTurn  BY <1>3, Zenon DEF LoadAt
<1>5. /\ Noted(held', scene')
      /\ \/ Goes /\ Loading(k + 12, held', scene', bound')
         \/ UNCHANGED todo /\ Loading(k + 11, held', scene', bound')
         \/ Abandon
  BY <1>4, Zenon
<1>6. InTurn'  BY <1>4 DEF InTurn
<1>7. Owned'  BY <1>5, <1>6 DEF Owned, InTurn
<1>8. todo' \in Seq(Steps) /\ Here'
  <2>1. CASE Goes /\ Loading(k + 12, held', scene', bound')
    <3>1. LoadAt(k + 12)'  BY <1>3, <1>6, <2>1, Zenon DEF LoadAt, Goes
    <3>2. k + 12 \in 1 .. 22  BY Places, Zenon
    <3>3. Here'  BY <3>1, <3>2 DEF Here
    <3>4. todo' \in Seq(Steps)  BY <1>1, <1>2, <2>1, TodoTypes DEF ControlTypes, Goes
    <3>5. QED  BY <3>3, <3>4
  <2>2. CASE Abandon
    <3>1. Here'  BY <1>6, <2>2, AbandonHere
    <3>2. todo' \in Seq(Steps)  BY <2>2, TodoTypes DEF Abandon
    <3>3. QED  BY <3>1, <3>2
  <2>3. CASE UNCHANGED todo /\ Loading(k + 11, held', scene', bound')
    <3>1. LoadAt(k + 11)'  BY <1>3, <1>6, <2>3, Zenon DEF LoadAt
    <3>2. k + 11 \in 1 .. 22  BY Places, Zenon
    <3>3. Here'  BY <3>1, <3>2 DEF Here
    <3>4. todo' \in Seq(Steps)  BY <1>2, <2>3 DEF ControlTypes
    <3>5. QED  BY <3>3, <3>4
  <2>4. QED  BY <1>5, <2>1, <2>2, <2>3
<1>9. ControlTypes'  BY <1>2, <1>8 DEF ControlTypes
<1>10. Standing(parts') /\ crash' = "none"  BY <1>1, <1>2
<1>11. QED  BY <1>7, <1>8, <1>9, <1>10, IInvNext

(* The first names of a list are names of the list.                        *)
LEMMA FirstIs ==
  ASSUME NEW list, NEW n \in 0 .. Len(list), Len(list) \in Nat
  PROVE  /\ First(list, n) \subseteq All(list)
         /\ \A x \in First(list, n) : \E i \in 1 .. n : x = list[i]
BY DEF First, All

(* They are finitely many.                                                 *)
LEMMA FirstFinite ==
  ASSUME NEW list, NEW n \in Nat
  PROVE  IsFiniteSet(First(list, n))
<1> DEFINE f == [i \in 1 .. n |-> list[i]]
           names == First(list, n)
<1>1. f \in Surjection(1 .. n, names)
  <2>1. f \in [1 .. n -> names]  BY DEF First
  <2>2. \A x \in names : \E i \in 1 .. n : f[i] = x  BY DEF First
  <2> HIDE DEF f, names
  <2>3. QED  BY <2>1, <2>2 DEF Surjection
<1>2. IsFiniteSet(1 .. n)  BY FS_Interval
<1> HIDE DEF f, names
<1>3. QED  BY <1>1, <1>2, FS_Surjection DEF names

LEMMA ListTypes ==
  /\ Len(Targets) \in Nat /\ Len(Materials) \in Nat /\ Len(Cameras) \in Nat
  /\ Len(Objects) \in Nat /\ Len(Stages) \in Nat
<1>1. Targets \in Seq(All(Targets)) /\ Materials \in Seq(All(Materials)) /\ Cameras \in Seq(All(Cameras))
  BY SceneFileLists
<1>2. Objects \in Seq(All(Objects)) /\ Stages \in Seq(All(Stages))  BY SceneFileLists
<1>3. QED  BY <1>1, <1>2

LEMMA LoadFaults ==
  ASSUME ControlTypes, Fault \/ UNCHANGED faults \/ \E n \in Nat : Faults(n)
  PROVE  faults' \in 0 .. MaxFaults
<1>1. CASE Fault  BY <1>1, FaultTypes
<1>2. CASE UNCHANGED faults  BY <1>2 DEF ControlTypes
<1>3. CASE \E n \in Nat : Faults(n)
  <2>1. PICK n \in Nat : n <= faults /\ faults' = faults - n  BY <1>3 DEF Faults
  <2>2. faults \in 0 .. MaxFaults /\ MaxFaults \in Nat  BY BoundsNatural DEF ControlTypes
  <2>3. QED  BY <2>1, <2>2
<1>4. QED  BY <1>1, <1>2, <1>3

(* No stage is in the scene file twice.                                    *)
LEMMA StagesDiffer ==
  \A i, k \in 1 .. Len(Stages) : Stages[i] = Stages[k] => i = k
<1> DEFINE n == Len(Stages)
           names == {s.name : s \in All(Stages)}
           f == [i \in 1 .. n |-> Stages[i].name]
<1>1. n \in Nat  BY ListTypes
<1>2. f \in Surjection(1 .. n, names)
  <2>1. f \in [1 .. n -> names]  BY DEF All, First
  <2>2. \A x \in names : \E i \in 1 .. n : f[i] = x  BY DEF All, First
  <2> HIDE DEF f, names
  <2>3. QED  BY <2>1, <2>2 DEF Surjection
<1>3. IsFiniteSet(1 .. n) /\ Cardinality(1 .. n) = n
  <2>1. 1 \in Int /\ n \in Int  BY <1>1
  <2> HIDE DEF n
  <2>2. IsFiniteSet(1 .. n) /\ Cardinality(1 .. n) = IF 1 > n THEN 0 ELSE n - 1 + 1  BY <2>1, FS_Interval
  <2>3. QED  BY <1>1, <2>2
<1>4. Cardinality(names) = n  BY SceneFileLoads
<1>5. f \in Injection(1 .. n, names)
  <2> HIDE DEF f, names, n
  <2>1. QED  BY <1>2, <1>3, <1>4, FS_SurjSameCardinalityImpliesInj
<1>6. \A i, k \in 1 .. n : f[i] = f[k] => i = k
  <2> HIDE DEF f, names, n
  <2>1. QED  BY <1>5 DEF Injection, IsInjective
<1>7. QED  BY <1>6

-----------------------------------------------------------------------------
(* Scene::Create, step by step.                                            *)
LEMMA LoadFileKeeps ==
  ASSUME IInv, LoadFile
  PROVE  IInv'
<1>1. At(LoadSteps[1])
  <2>1. LoadSteps[1] = "file"  BY DEF LoadSteps
  <2>2. QED  BY <2>1 DEF LoadFile
<1>2. UNCHANGED <<mode, update, parts, camera, crash, messages>>  BY DEF LoadFile
<1>3. Noted(held, scene) /\ Tables /\ ControlTypes  BY IInvIs DEF Owned
<1>4. held \in HeldTypes /\ scene \in SceneTypes  BY <1>3 DEF Tables
<1>5. Tables'  BY <1>4 DEF LoadFile, Tables, HeldTypes, SceneTypes
<1>6. bound' \in {"none", "live", "dead"}  BY <1>3 DEF LoadFile, ControlTypes
<1>7. faults' \in 0 .. MaxFaults  BY <1>3, LoadFaults DEF LoadFile
<1>8. ASSUME Loading(12, held, scene, bound)
      PROVE  /\ Noted(held', scene')
             /\ (Goes /\ Loading(13, held', scene', bound')) \/ Abandon
  BY <1>3, <1>4, <1>8 DEF LoadFile, GoesIf, Noted, Loading, HeldTypes, SceneTypes
<1>9. QED  BY <1>1, <1>2, <1>5, <1>6, <1>7, <1>8, LoadKeeps

LEMMA LoadTargetsKeeps ==
  ASSUME IInv, LoadTargets
  PROVE  IInv'
<1>1. At(LoadSteps[2])
  <2>1. LoadSteps[2] = "targets"  BY DEF LoadSteps
  <2>2. QED  BY <2>1 DEF LoadTargets
<1>2. UNCHANGED <<mode, update, parts, camera, crash, messages>>  BY DEF LoadTargets
<1>3. Noted(held, scene) /\ Tables /\ ControlTypes  BY IInvIs DEF Owned
<1>4. held \in HeldTypes /\ scene \in SceneTypes  BY <1>3 DEF Tables
<1>5. PICK n \in 0 .. Len(Targets) :
        /\ \E k \in Nat : Faults(k)
        /\ held' = [held EXCEPT !.textures = @ \cup First(Targets, n)]
        /\ scene' = [scene EXCEPT !.targets = @ \cup First(Targets, n)]
        /\ Goes \/ Abandon
  <2>1. 0 \in Nat /\ 0 + 1 \in Nat  OBVIOUS
  <2>2. QED  BY <2>1 DEF LoadTargets, LoadedTo, GoesIf
<1>6. First(Targets, n) \subseteq All(Targets)  BY FirstIs, ListTypes
<1> DEFINE more == First(Targets, n)
<1> HIDE DEF more
<1>7. Tables'
  <2>1. held' \in HeldTypes  BY <1>4, <1>5, <1>6 DEF HeldTypes
  <2>2. scene' \in SceneTypes  BY <1>4, <1>5, <1>6 DEF SceneTypes
  <2>3. QED  BY <2>1, <2>2 DEF Tables
<1>8. bound' = bound /\ bound \in {"none", "live", "dead"}  BY <1>3 DEF LoadTargets, ControlTypes
<1>9. faults' \in 0 .. MaxFaults  BY <1>3, <1>5, LoadFaults
<1>10. ASSUME Loading(13, held, scene, bound)
       PROVE  Noted(held', scene') /\ Loading(14, held', scene', bound')
  <2>1. /\ held' = [held EXCEPT !.textures = @ \cup more]
        /\ scene' = [scene EXCEPT !.targets = @ \cup more]
    BY <1>5 DEF more
  <2>2. Noted(held', scene')  BY <1>3, <1>4, <2>1 DEF Noted, HeldTypes, SceneTypes
  <2>3. Loading(14, held', scene', bound')  BY <1>4, <1>8, <1>10, <2>1 DEF Loading, SceneTypes
  <2>4. QED  BY <2>2, <2>3
<1>11. QED  BY <1>1, <1>2, <1>5, <1>7, <1>8, <1>9, <1>10, LoadKeeps

LEMMA LoadMaterialsKeeps ==
  ASSUME IInv, LoadMaterials
  PROVE  IInv'
<1>1. At(LoadSteps[3])
  <2>1. LoadSteps[3] = "materials"  BY DEF LoadSteps
  <2>2. QED  BY <2>1 DEF LoadMaterials
<1>2. UNCHANGED <<mode, update, parts, camera, crash, messages>>  BY DEF LoadMaterials
<1>3. Noted(held, scene) /\ Tables /\ ControlTypes  BY IInvIs DEF Owned
<1>4. held \in HeldTypes /\ scene \in SceneTypes  BY <1>3 DEF Tables
<1>5. PICK n \in 0 .. Len(Materials) :
        /\ \E k \in Nat : Faults(k)
        /\ held' = [held EXCEPT !.materials = @ \cup First(Materials, n)]
        /\ scene' = [scene EXCEPT !.materials = @ \cup First(Materials, n)]
        /\ Goes \/ Abandon
  <2>1. 0 \in Nat /\ 0 + 1 \in Nat  OBVIOUS
  <2>2. QED  BY <2>1 DEF LoadMaterials, LoadedTo, GoesIf
<1>6. First(Materials, n) \subseteq All(Materials)  BY FirstIs, ListTypes
<1> DEFINE more == First(Materials, n)
<1> HIDE DEF more
<1>7. Tables'
  <2>1. held' \in HeldTypes  BY <1>4, <1>5, <1>6 DEF HeldTypes
  <2>2. scene' \in SceneTypes  BY <1>4, <1>5, <1>6 DEF SceneTypes
  <2>3. QED  BY <2>1, <2>2 DEF Tables
<1>8. bound' = bound /\ bound \in {"none", "live", "dead"}  BY <1>3 DEF LoadMaterials, ControlTypes
<1>9. faults' \in 0 .. MaxFaults  BY <1>3, <1>5, LoadFaults
<1>10. ASSUME Loading(14, held, scene, bound)
       PROVE  Noted(held', scene') /\ Loading(15, held', scene', bound')
  <2>1. /\ held' = [held EXCEPT !.materials = @ \cup more]
        /\ scene' = [scene EXCEPT !.materials = @ \cup more]
    BY <1>5 DEF more
  <2>2. Noted(held', scene')  BY <1>3, <1>4, <2>1 DEF Noted, HeldTypes, SceneTypes
  <2>3. Loading(15, held', scene', bound')  BY <1>4, <1>8, <1>10, <2>1 DEF Loading, SceneTypes
  <2>4. QED  BY <2>2, <2>3
<1>11. QED  BY <1>1, <1>2, <1>5, <1>7, <1>8, <1>9, <1>10, LoadKeeps

LEMMA LoadOctreeKeeps ==
  ASSUME IInv, LoadOctree
  PROVE  IInv'
<1>1. At(LoadSteps[4])
  <2>1. LoadSteps[4] = "octree"  BY DEF LoadSteps
  <2>2. QED  BY <2>1 DEF LoadOctree
<1>2. UNCHANGED <<mode, update, parts, camera, crash, messages>>  BY DEF LoadOctree
<1>3. Noted(held, scene) /\ Tables /\ ControlTypes  BY IInvIs DEF Owned
<1>4. held \in HeldTypes /\ scene \in SceneTypes  BY <1>3 DEF Tables
<1>5. Tables'  BY <1>4 DEF LoadOctree, Tables, HeldTypes, SceneTypes
<1>6. bound' \in {"none", "live", "dead"}  BY <1>3 DEF LoadOctree, ControlTypes
<1>7. faults' \in 0 .. MaxFaults  BY <1>3, LoadFaults DEF LoadOctree
<1>8. ASSUME Loading(15, held, scene, bound)
      PROVE  /\ Noted(held', scene')
             /\ (Goes /\ Loading(16, held', scene', bound')) \/ Abandon
  BY <1>3, <1>4, <1>8 DEF LoadOctree, GoesIf, Noted, Loading, HeldTypes, SceneTypes
<1>9. QED  BY <1>1, <1>2, <1>5, <1>6, <1>7, <1>8, LoadKeeps

(* A part of a heightmap's name: nothing, or the name.                     *)
LEMMA KeptIs ==
  ASSUME NEW o, NEW kept \in SUBSET HeightmapsOf({o})
  PROVE  /\ kept = {} \/ kept = {o.heightmap}
         /\ IsFiniteSet(kept) /\ Cardinality(kept) \in Nat
<1>1. kept = {} \/ kept = {o.heightmap}  BY DEF HeightmapsOf
<1> DEFINE h == o.heightmap
<1>2. IsFiniteSet({}) /\ IsFiniteSet({h})  BY FS_EmptySet, FS_Singleton
<1> HIDE DEF h
<1>3. IsFiniteSet(kept)  BY <1>1, <1>2 DEF h
<1>4. QED  BY <1>1, <1>3, FS_CardinalityType

(* An object of the hierarchy, loaded or not, when those before it are.    *)
LEMMA LoadObjectKeeps ==
  ASSUME IInv, At(LoadSteps[5]), NEW o \in All(Objects), LoadObject(o),
         UNCHANGED <<mode, update, parts, bound, camera, crash, messages>>
  PROVE  IInv'
<1>1. Noted(held, scene) /\ Tables /\ ControlTypes  BY IInvIs DEF Owned
<1>2. held \in HeldTypes /\ scene \in SceneTypes  BY <1>1 DEF Tables
<1>3. bound' = bound /\ bound' \in {"none", "live", "dead"}  BY <1>1 DEF ControlTypes
<1>4. CASE Abandon /\ UNCHANGED <<held, scene, faults>>
  <2>1. Tables' /\ Noted(held', scene')  BY <1>1, <1>4 DEF Tables
  <2>2. faults' \in 0 .. MaxFaults  BY <1>1, <1>4, LoadFaults
  <2>3. QED  BY <1>3, <1>4, <2>1, <2>2, LoadKeeps
<1>5. ASSUME NEW kept \in SUBSET HeightmapsOf({o}), NEW got \in SUBSET LayeringsOf({o}),
             NEW failed \in {0, 1}, failed = 1 \/ got = LayeringsOf({o}),
             Faults(Cardinality(kept) + failed),
             held' = [held EXCEPT !.layerings = @ \cup got],
             IF failed = 0 /\ o.material \in held.materials
             THEN scene' = [scene EXCEPT !.objects = @ \cup {o}] /\ UNCHANGED todo
             ELSE Abandon /\ UNCHANGED scene
      PROVE  IInv'
  <2>1. faults' \in 0 .. MaxFaults
    <3>1. Cardinality(kept) \in Nat  BY KeptIs, Zenon
    <3>2. Cardinality(kept) + failed \in Nat  BY <3>1
    <3>3. QED  BY <1>1, <1>5, <3>2, LoadFaults
  <2>2. got \subseteq {x.layering : x \in All(Objects)} \ {NoLayering}  BY DEF LayeringsOf
  <2>3. held' \in HeldTypes  BY <1>2, <1>5, <2>2 DEF HeldTypes
  <2>4. CASE /\ failed = 0 /\ o.material \in held.materials
             /\ scene' = [scene EXCEPT !.objects = @ \cup {o}] /\ UNCHANGED todo
    <3>1. scene' \in SceneTypes  BY <1>2, <2>4 DEF SceneTypes
    <3>2. Tables'  BY <2>3, <3>1 DEF Tables
    <3>3. o.layering \in got \cup {NoLayering}  BY <1>5, <2>4 DEF LayeringsOf
    <3>4. ASSUME Loading(16, held, scene, bound)
          PROVE  Noted(held', scene') /\ Loading(16, held', scene', bound')
      <4>1. scene.octree  BY <3>4 DEF Loading
      <4>2. Noted(held', scene')
        BY <1>1, <1>2, <1>5, <2>4, <3>3, <4>1 DEF Noted, HeldTypes, SceneTypes
      <4>3. Loading(16, held', scene', bound')
        BY <1>2, <1>3, <2>4, <3>4 DEF Loading, SceneTypes
      <4>4. QED  BY <4>2, <4>3
    <3>5. QED  BY <1>3, <2>1, <2>4, <3>2, <3>4, LoadKeeps
  <2>5. CASE Abandon /\ UNCHANGED scene
    <3>1. Tables'  BY <1>2, <2>3, <2>5 DEF Tables
    <3>2. Noted(held', scene')  BY <1>1, <1>2, <1>5, <2>5 DEF Noted, HeldTypes
    <3>3. QED  BY <1>3, <2>1, <2>5, <3>1, <3>2, LoadKeeps
  <2>6. QED  BY <1>5, <2>4, <2>5
<1>6. QED  BY <1>4, <1>5 DEF LoadObject

LEMMA LoadHierarchyKeeps ==
  ASSUME IInv, LoadHierarchy
  PROVE  IInv'
<1>1. At(LoadSteps[5])
  <2>1. LoadSteps[5] = "hierarchy"  BY DEF LoadSteps
  <2>2. QED  BY <2>1 DEF LoadHierarchy
<1>2. UNCHANGED <<mode, update, parts, bound, camera, crash, messages>>  BY DEF LoadHierarchy
<1>3. Noted(held, scene) /\ Tables /\ ControlTypes  BY IInvIs DEF Owned
<1>4. CASE Goes /\ UNCHANGED <<held, scene, faults>>
  <2>1. Tables' /\ Noted(held', scene')  BY <1>3, <1>4 DEF Tables
  <2>2. faults' \in 0 .. MaxFaults /\ bound' \in {"none", "live", "dead"}
    BY <1>2, <1>3, <1>4, LoadFaults DEF ControlTypes
  <2>3. Loading(16, held, scene, bound) => Loading(17, held', scene', bound')
    BY <1>2, <1>4 DEF Loading
  <2>4. QED  BY <1>1, <1>2, <1>4, <2>1, <2>2, <2>3, LoadKeeps
<1>5. ASSUME NEW i \in 1 .. Len(Objects), LoadObject(Objects[i]) PROVE IInv'
  <2>1. Objects[i] \in All(Objects)  BY DEF All, First
  <2>2. QED  BY <1>1, <1>2, <1>5, <2>1, LoadObjectKeeps
<1>6. QED  BY <1>4, <1>5 DEF LoadHierarchy

LEMMA LoadWaterKeeps ==
  ASSUME IInv, LoadWater
  PROVE  IInv'
<1>1. At(LoadSteps[6])
  <2>1. LoadSteps[6] = "water"  BY DEF LoadSteps
  <2>2. QED  BY <2>1 DEF LoadWater
<1>2. UNCHANGED <<mode, update, parts, camera, crash, messages>>  BY DEF LoadWater
<1>3. Noted(held, scene) /\ Tables /\ ControlTypes  BY IInvIs DEF Owned
<1>4. held \in HeldTypes /\ scene \in SceneTypes  BY <1>3 DEF Tables
<1>5. Tables'  BY <1>4 DEF LoadWater, Tables, HeldTypes, SceneTypes
<1>6. bound' \in {"none", "live", "dead"}  BY <1>3 DEF LoadWater, ControlTypes
<1>7. faults' \in 0 .. MaxFaults  BY <1>3, LoadFaults DEF LoadWater
<1>8. ASSUME Loading(17, held, scene, bound)
      PROVE  /\ Noted(held', scene')
             /\ (Goes /\ Loading(18, held', scene', bound')) \/ Abandon
  BY <1>3, <1>4, <1>8 DEF LoadWater, GoesIf, Noted, Loading, HeldTypes, SceneTypes
<1>9. QED  BY <1>1, <1>2, <1>5, <1>6, <1>7, <1>8, LoadKeeps

LEMMA LoadCamerasKeeps ==
  ASSUME IInv, LoadCameras
  PROVE  IInv'
<1>1. At(LoadSteps[7])
  <2>1. LoadSteps[7] = "cameras"  BY DEF LoadSteps
  <2>2. QED  BY <2>1 DEF LoadCameras
<1>2. UNCHANGED <<mode, update, parts, camera, crash, messages>>  BY DEF LoadCameras
<1>3. Noted(held, scene) /\ Tables /\ ControlTypes  BY IInvIs DEF Owned
<1>4. held \in HeldTypes /\ scene \in SceneTypes  BY <1>3 DEF Tables
<1>5. PICK n \in 0 .. Len(Cameras) :
        \E failed \in SUBSET First(Cameras, n) :
          /\ Faults(Cardinality(failed)) \/ Faults(Cardinality(failed) + 1)
          /\ held' = [held EXCEPT !.cameras = @ \cup (First(Cameras, n) \ failed)]
          /\ scene' = [scene EXCEPT !.cameras = @ \cup First(Cameras, n)]
          /\ Goes
  BY DEF LoadCameras, LoadedTo
<1>6. PICK failed \in SUBSET First(Cameras, n) :
         /\ Faults(Cardinality(failed)) \/ Faults(Cardinality(failed) + 1)
         /\ held' = [held EXCEPT !.cameras = @ \cup (First(Cameras, n) \ failed)]
         /\ scene' = [scene EXCEPT !.cameras = @ \cup First(Cameras, n)]
         /\ Goes
  BY <1>5
<1>7. First(Cameras, n) \subseteq All(Cameras)  BY FirstIs, ListTypes
<1> DEFINE more == First(Cameras, n)
<1> HIDE DEF more
<1>8. Tables'
  <2>1. held' \in HeldTypes  BY <1>4, <1>6, <1>7 DEF HeldTypes
  <2>2. scene' \in SceneTypes  BY <1>4, <1>6, <1>7 DEF SceneTypes
  <2>3. QED  BY <2>1, <2>2 DEF Tables
<1>9. bound' = bound /\ bound \in {"none", "live", "dead"}  BY <1>3 DEF LoadCameras, ControlTypes
<1>10. faults' \in 0 .. MaxFaults
  <2>1. IsFiniteSet(First(Cameras, n))  BY FirstFinite, ListTypes
  <2>2. IsFiniteSet(failed)  BY <2>1, FS_Subset
  <2>3. Cardinality(failed) \in Nat /\ Cardinality(failed) + 1 \in Nat  BY <2>2, FS_CardinalityType
  <2>4. QED  BY <1>3, <1>6, <2>3, LoadFaults
<1>11. ASSUME Loading(18, held, scene, bound)
       PROVE  Noted(held', scene') /\ Loading(19, held', scene', bound')
  <2>1. /\ held' = [held EXCEPT !.cameras = @ \cup (more \ failed)]
        /\ scene' = [scene EXCEPT !.cameras = @ \cup more]
    BY <1>6 DEF more
  <2>2. Noted(held', scene')  BY <1>3, <1>4, <2>1 DEF Noted, HeldTypes, SceneTypes
  <2>3. Loading(19, held', scene', bound')  BY <1>4, <1>9, <1>11, <2>1 DEF Loading, SceneTypes
  <2>4. QED  BY <2>2, <2>3
<1>12. QED  BY <1>1, <1>2, <1>6, <1>8, <1>9, <1>10, <1>11, LoadKeeps

LEMMA LoadStagesKeeps ==
  ASSUME IInv, LoadStages
  PROVE  IInv'
<1>1. At(LoadSteps[8])
  <2>1. LoadSteps[8] = "stages"  BY DEF LoadSteps
  <2>2. QED  BY <2>1 DEF LoadStages
<1>2. UNCHANGED <<mode, update, parts, camera, crash, messages>>  BY DEF LoadStages
<1>3. Noted(held, scene) /\ Tables /\ ControlTypes  BY IInvIs DEF Owned
<1>4. held \in HeldTypes /\ scene \in SceneTypes  BY <1>3 DEF Tables
<1>5. PICK n \in 0 .. Len(Stages) :
        /\ \A i \in 1 .. n : Stages[i].posts \subseteq held.materials
        /\ scene' = [scene EXCEPT !.stages = @ \cup First(Stages, n)]
        /\ \/ n = Len(Stages) /\ Goes /\ held' = held /\ UNCHANGED faults
           \/ /\ n < Len(Stages) /\ Abandon /\ (Fault \/ UNCHANGED faults)
              /\ \E made \in SUBSET Stages[n + 1].posts : held' = [held EXCEPT !.materials = @ \ made]
  <2>1. \A n \in 0 .. Len(Stages) : n # Len(Stages) => n < Len(Stages)  BY ListTypes
  <2>2. QED  BY <2>1 DEF LoadStages, GoesIf
<1> DEFINE more == First(Stages, n)
<1>6. more \subseteq All(Stages) /\ \A s \in more : s.posts \subseteq held.materials
  <2>1. more \subseteq All(Stages) /\ \A s \in more : \E i \in 1 .. n : s = Stages[i]
    BY FirstIs, ListTypes
  <2>2. QED  BY <1>5, <2>1
<1>7. scene' = [scene EXCEPT !.stages = @ \cup more]  BY <1>5
<1>8. scene' \in SceneTypes
  <2> HIDE DEF more
  <2>1. QED  BY <1>4, <1>6, <1>7 DEF SceneTypes
<1>9. bound' = bound /\ bound \in {"none", "live", "dead"}  BY <1>3 DEF LoadStages, ControlTypes
<1>10. faults' \in 0 .. MaxFaults  BY <1>3, <1>5, LoadFaults
<1>11. CASE n = Len(Stages) /\ Goes /\ held' = held
  <2>1. Tables'  BY <1>4, <1>8, <1>11 DEF Tables
  <2>2. more = All(Stages)  BY <1>11 DEF All
  <2> HIDE DEF more
  <2>3. ASSUME Loading(19, held, scene, bound)
        PROVE  Noted(held', scene') /\ Loading(20, held', scene', bound')
    <3>1. scene.stages = {}  BY <2>3 DEF Loading
    <3>2. Noted(held', scene')  BY <1>3, <1>4, <1>6, <1>7, <1>11, <3>1 DEF Noted, SceneTypes
    <3>3. Loading(20, held', scene', bound')
      BY <1>4, <1>7, <1>9, <2>2, <2>3, <3>1 DEF Loading, SceneTypes
    <3>4. QED  BY <3>2, <3>3
  <2>4. QED  BY <1>1, <1>2, <1>9, <1>10, <1>11, <2>1, <2>3, LoadKeeps
<1>12. CASE /\ n < Len(Stages) /\ Abandon
            /\ \E made \in SUBSET Stages[n + 1].posts : held' = [held EXCEPT !.materials = @ \ made]
  <2>1. PICK made \in SUBSET Stages[n + 1].posts : held' = [held EXCEPT !.materials = @ \ made]
    BY <1>12
  <2>2. n + 1 \in 1 .. Len(Stages)  BY <1>12, ListTypes
  <2>3. Stages[n + 1] \in All(Stages)  BY <2>2 DEF All, First
  <2>4. made \in SUBSET PostsOf(All(Stages))  BY <2>3 DEF PostsOf
  <2>5. OverlayMaterial \notin made /\ \A o \in scene.objects : o.material \notin made
    BY <1>4, <2>4, UsedApart DEF SceneTypes
  <2>6. \A s \in more : s.posts \cap made = {}
    <3> SUFFICES ASSUME NEW s \in more PROVE s.posts \cap made = {}  OBVIOUS
    <3>1. PICK i \in 1 .. n : s = Stages[i]  BY FirstIs, ListTypes
    <3>2. i \in 1 .. Len(Stages) /\ i # n + 1  BY <2>2, ListTypes
    <3>3. s # Stages[n + 1]  BY <2>2, <3>1, <3>2, StagesDiffer
    <3>4. s.posts \cap Stages[n + 1].posts = {}  BY <1>6, <2>3, <3>3, SceneFileLoads
    <3>5. QED  BY <3>4
  <2> HIDE DEF more
  <2>7. Tables'
    <3>1. held' \in HeldTypes  BY <1>4, <2>1 DEF HeldTypes
    <3>2. QED  BY <1>8, <3>1 DEF Tables
  <2>8. ASSUME Loading(19, held, scene, bound) PROVE Noted(held', scene')
    <3>1. scene.stages = {}  BY <2>8 DEF Loading
    <3>2. /\ held'.textures = held.textures /\ held'.cameras = held.cameras /\ held'.fonts = held.fonts
          /\ held'.stages = held.stages /\ held'.materials = held.materials \ made
          /\ held'.layerings = held.layerings
      BY <1>4, <2>1 DEF HeldTypes
    <3>3. /\ scene'.targets = scene.targets /\ scene'.cameras = scene.cameras /\ scene'.fonts = scene.fonts
          /\ scene'.stages = more /\ scene'.materials = scene.materials /\ scene'.objects = scene.objects
          /\ scene'.octree = scene.octree /\ scene'.overlay = scene.overlay /\ scene'.dummies = scene.dummies
      BY <1>4, <1>7, <3>1 DEF SceneTypes
    <3>4. \A s \in more : s.posts \subseteq held'.materials  BY <1>6, <2>6, <3>2
    <3>5. QED  BY <1>3, <2>5, <3>1, <3>2, <3>3, <3>4 DEF Noted
  <2>9. QED  BY <1>1, <1>2, <1>9, <1>10, <1>12, <2>7, <2>8, LoadKeeps
<1>13. QED  BY <1>5, <1>11, <1>12

LEMMA BindSemanticsKeeps ==
  ASSUME IInv, BindSemantics
  PROVE  IInv'
<1>1. At(LoadSteps[9])
  <2>1. LoadSteps[9] = "semantics"  BY DEF LoadSteps
  <2>2. QED  BY <2>1 DEF BindSemantics
<1>2. UNCHANGED <<mode, update, parts, camera, crash, messages>>  BY DEF BindSemantics
<1>3. Noted(held, scene) /\ Tables /\ ControlTypes  BY IInvIs DEF Owned
<1>4. held \in HeldTypes /\ scene \in SceneTypes  BY <1>3 DEF Tables
<1>5. Tables'  BY <1>4 DEF BindSemantics, Tables, HeldTypes, SceneTypes
<1>6. bound' \in {"none", "live", "dead"}  BY <1>3 DEF BindSemantics, ControlTypes
<1>7. faults' \in 0 .. MaxFaults  BY <1>3, LoadFaults DEF BindSemantics
<1>8. ASSUME Loading(20, held, scene, bound)
      PROVE  /\ Noted(held', scene')
             /\ (Goes /\ Loading(21, held', scene', bound')) \/ Abandon
  BY <1>3, <1>4, <1>8 DEF BindSemantics, GoesIf, Noted, Loading, HeldTypes, SceneTypes
<1>9. QED  BY <1>1, <1>2, <1>5, <1>6, <1>7, <1>8, LoadKeeps

LEMMA CreateOverlayKeeps ==
  ASSUME IInv, CreateOverlay
  PROVE  IInv'
<1>1. At(LoadSteps[10])
  <2>1. LoadSteps[10] = "overlay"  BY DEF LoadSteps
  <2>2. QED  BY <2>1 DEF CreateOverlay
<1>2. UNCHANGED <<mode, update, parts, camera, crash, messages>>  BY DEF CreateOverlay
<1>3. Noted(held, scene) /\ Tables /\ ControlTypes  BY IInvIs DEF Owned
<1>4. held \in HeldTypes /\ scene \in SceneTypes  BY <1>3 DEF Tables
<1>5. \/ \E has \in BOOLEAN :
            /\ has => OverlayMaterial \in held.materials
            /\ held' = [held EXCEPT !.fonts = {OverlayFont}]
            /\ scene' = [scene EXCEPT !.fonts = {OverlayFont}, !.overlay = has]
            /\ Goes \/ Abandon
            /\ UNCHANGED faults
      \/ Abandon /\ Fault /\ UNCHANGED <<held, scene>>
  <2> DEFINE has == OverlayMaterial \in held.materials
  <2>1. has \in BOOLEAN  OBVIOUS
  <2>2. CASE /\ held' = [held EXCEPT !.fonts = {OverlayFont}]
             /\ scene' = [scene EXCEPT !.fonts = {OverlayFont}, !.overlay = has]
             /\ GoesIf(has) /\ UNCHANGED faults
    <3>1. Goes \/ Abandon  BY <2>2, Zenon DEF GoesIf
    <3>2. QED  BY <2>1, <2>2, <3>1, Zenon
  <2>3. QED  BY <2>2, Zenon DEF CreateOverlay
<1>6. bound' = bound /\ bound \in {"none", "live", "dead"}  BY <1>3 DEF CreateOverlay, ControlTypes
<1>7. faults' \in 0 .. MaxFaults  BY <1>3, <1>5, LoadFaults
<1>8. CASE Abandon /\ UNCHANGED <<held, scene>>
  <2>1. Tables' /\ Noted(held', scene')  BY <1>3, <1>8 DEF Tables
  <2>2. QED  BY <1>1, <1>2, <1>6, <1>7, <1>8, <2>1, LoadKeeps
<1>9. CASE \E has \in BOOLEAN :
             /\ has => OverlayMaterial \in held.materials
             /\ held' = [held EXCEPT !.fonts = {OverlayFont}]
             /\ scene' = [scene EXCEPT !.fonts = {OverlayFont}, !.overlay = has]
             /\ Goes \/ Abandon
  <2>1. PICK has \in BOOLEAN :
          /\ has => OverlayMaterial \in held.materials
          /\ held' = [held EXCEPT !.fonts = {OverlayFont}]
          /\ scene' = [scene EXCEPT !.fonts = {OverlayFont}, !.overlay = has]
          /\ Goes \/ Abandon
    BY <1>9
  <2>2. held' \in HeldTypes  BY <1>4, <2>1 DEF HeldTypes
  <2>3. scene' \in SceneTypes  BY <1>4, <2>1 DEF SceneTypes
  <2>4. Noted(held', scene')  BY <1>3, <1>4, <2>1 DEF Noted, HeldTypes, SceneTypes
  <2>5. Loading(21, held, scene, bound) => Loading(22, held', scene', bound')
    BY <1>4, <1>6, <2>1 DEF Loading, SceneTypes
  <2>6. Tables'  BY <2>2, <2>3 DEF Tables
  <2>7. QED  BY <1>1, <1>2, <1>6, <1>7, <2>1, <2>4, <2>5, <2>6, LoadKeeps
<1>10. QED  BY <1>5, <1>8, <1>9

(* The scene is loaded: it is shown from the next turn on.                 *)
LEMMA ShowKeeps ==
  ASSUME IInv, Show
  PROVE  IInv'
<1>1. /\ At("show") /\ crash = "none" /\ todo # <<>> /\ todo' = Tail(todo)
      /\ held' = [held EXCEPT !.stages = scene.stages] /\ parts' = parts \cup {"listener"}
      /\ UNCHANGED <<mode, scene, bound, faults, messages>>
      /\ \/ /\ MainCamera \in held.cameras /\ camera' = MainCamera /\ update' = "render"
            /\ crash' = crash
         \/ crash' = "no camera" /\ UNCHANGED <<camera, update>>
  BY DEF Show, At, Goes
<1>2. Here /\ ControlTypes /\ Tables /\ Owned /\ Standing(parts)  BY <1>1, IInvIs
<1>3. LoadAt(22) /\ Tail(todo) = <<>>
  <2>1. LoadSteps[11] = "show"  BY DEF LoadSteps
  <2>2. LoadAt(22) /\ Tail(todo) = From(LoadTurnSteps, 23)
    <3>1. 11 \in 1 .. 11 /\ 11 + 11 = 22 /\ 11 + 12 = 23  OBVIOUS
    <3>2. At(LoadSteps[11])  BY <1>1, <2>1
    <3>3. LoadAt(11 + 11) /\ Tail(todo) = From(LoadTurnSteps, 11 + 12)
      BY <1>2, <3>1, <3>2, AtLoad, Zenon
    <3>4. QED  BY <3>1, <3>3
  <2>3. QED  BY <2>2, ListEnds
<1>4. InTurn /\ Loading(22, held, scene, bound)  BY <1>3 DEF LoadAt
<1>5. scene.stages = All(Stages) /\ scene.octree /\ bound = "live"  BY <1>4 DEF Loading
<1>6. MainCamera \in All(Cameras)  BY SceneFileLoads
<1>7. ControlTypes'  BY <1>1, <1>2, <1>6, TodoTypes DEF ControlTypes, Parts
<1>8. Tables'
  <2>1. held \in HeldTypes /\ scene.stages \in SUBSET All(Stages)  BY <1>2 DEF Tables, SceneTypes
  <2>2. held' = [held EXCEPT !.stages = scene.stages]  BY <1>1
  <2>3. held' \in HeldTypes  BY <2>1, <2>2 DEF HeldTypes
  <2>4. scene' = scene  BY <1>1
  <2>5. QED  BY <1>2, <2>3, <2>4 DEF Tables
<1>9. /\ held'.textures = held.textures /\ held'.cameras = held.cameras /\ held'.fonts = held.fonts
      /\ held'.stages = scene.stages /\ held'.materials = held.materials
      /\ held'.layerings = held.layerings
  <2>1. held \in HeldTypes  BY <1>2 DEF Tables
  <2>2. held' = [held EXCEPT !.stages = scene.stages]  BY <1>1
  <2>3. QED  BY <2>1, <2>2 DEF HeldTypes
<1>10. Owned'
  <2>1. Noted(held', scene')  BY <1>1, <1>2, <1>9 DEF Owned, Noted
  <2>2. "scene" \in parts'  BY <1>1, <1>4 DEF InTurn
  <2>3. crash' = "none" => camera' \in held'.cameras  BY <1>1, <1>9
  <2>4. QED  BY <2>1, <2>2, <2>3 DEF Owned
<1>11. Standing(parts')  BY <1>1, <1>2, <1>4 DEF Standing, InTurn
<1>12. ASSUME crash' = "none" PROVE Here'
  <2>1. mode' \in {"ready", "running"} /\ update' = "render" /\ "listener" \in parts'
    BY <1>1, <1>4, <1>12 DEF InTurn
  <2>2. Waiting'  BY <1>1, <1>5, <1>9, <2>1 DEF Waiting
  <2>3. QED  BY <1>1, <1>3, <2>2 DEF Here
<1>13. crash' # "end erased"  BY <1>1
<1>14. QED  BY <1>7, <1>8, <1>10, <1>11, <1>12, <1>13, IInvNext

LEMMA SceneCreationKeeps ==
  ASSUME IInv, SceneCreation
  PROVE  IInv'
BY LoadFileKeeps, LoadTargetsKeeps, LoadMaterialsKeeps, LoadOctreeKeeps, LoadHierarchyKeeps,
   LoadWaterKeeps, LoadCamerasKeeps, LoadStagesKeeps, BindSemanticsKeeps, CreateOverlayKeeps,
   ShowKeeps
   DEF SceneCreation

-----------------------------------------------------------------------------
(* The program begins with nothing, before the first step of Create.       *)
LEMMA BeginsSo == Init => IInv
<1> SUFFICES ASSUME Init PROVE IInv  OBVIOUS
<1>1. /\ todo = CreateSteps /\ mode = "uninitialized" /\ update = "none" /\ parts = {}
      /\ held = NothingHeld /\ scene = EmptyScene /\ bound = "none" /\ camera = "none"
      /\ crash = "none" /\ faults = MaxFaults /\ messages = MaxMessages
  BY DEF Init
<1>2. ControlTypes  BY <1>1, TodoTypes, BoundsNatural DEF ControlTypes
<1>3. Tables
  <2>1. NothingHeld \in HeldTypes  BY DEF NothingHeld, HeldTypes
  <2>2. EmptyScene \in SceneTypes  BY DEF EmptyScene, SceneTypes
  <2>3. QED  BY <1>1, <2>1, <2>2 DEF Tables
<1>4. Standing(parts)  BY <1>1 DEF Standing
<1>5. Owned
  <2>1. Gone(held, scene)  BY <1>1 DEF Gone
  <2>2. QED  BY <1>1, <2>1, NothingIsNoted DEF Owned
<1>6. Here
  <2>1. Creating(1, parts, update, mode)  BY <1>1 DEF Creating
  <2>2. CreateAt(1)  BY <1>1, <2>1, ListEnds DEF CreateAt
  <2>3. QED  BY <2>2 DEF Here
<1>7. crash # "end erased"  BY <1>1
<1>8. QED  BY <1>2, <1>3, <1>4, <1>5, <1>6, <1>7, IInvIs

LEMMA StutterKeeps ==
  ASSUME IInv, UNCHANGED vars
  PROVE  IInv'
<1>1. UNCHANGED <<todo, mode, update, parts, held, scene, bound, camera, crash, faults, messages>>
  BY DEF vars
<1>2. ControlTypes /\ Tables /\ Standing(parts) /\ Owned /\ crash # "end erased"  BY IInvIs
<1>3. ControlTypes'  BY <1>1, <1>2 DEF ControlTypes
<1>4. Tables'  BY <1>1, <1>2 DEF Tables
<1>5. Standing(parts') /\ crash' # "end erased"  BY <1>1, <1>2
<1>6. Owned'  BY <1>1, <1>2 DEF Owned
<1>7. ASSUME crash' = "none" PROVE Here'
  <2>1. Here  BY <1>1, <1>7, IInvIs
  <2>2. QED  BY <1>1, <2>1 DEF Here, CreateAt, DeleteAt, EndSceneAt, LoadAt, ReleaseAt, InTurn, Waiting
<1>8. QED  BY <1>3, <1>4, <1>5, <1>6, <1>7, IInvNext

LEMMA NextKeeps == IInv /\ [Next]_vars => IInv'
<1> SUFFICES ASSUME IInv, [Next]_vars PROVE IInv'  OBVIOUS
<1>1. CASE Next  BY <1>1, CreationKeeps, MainLoopKeeps, SceneCreationKeeps, SceneReleaseKeeps, ReleaseKeeps DEF Next
<1>2. CASE UNCHANGED vars  BY <1>2, StutterKeeps
<1>3. QED  BY <1>1, <1>2

(* The place of the program in the lists of its functions tells what it    *)
(* has made and given back, whatever the scene file, the failures and the  *)
(* messages: what Application::Create, LoadScene, Scene::Release and       *)
(* Application::Release have of one another is always so (IInv).           *)
THEOREM ControlTellsState == Spec => []IInv
<1>1. Init => IInv  BY BeginsSo
<1>2. IInv /\ [Next]_vars => IInv'  BY NextKeeps
<1>3. QED  BY <1>1, <1>2, PTL DEF Spec

-----------------------------------------------------------------------------
(* The names of surfaces.  Only a failure to lock a heightmap's surface    *)
(* leaves one, and they go with the display.                               *)
Left ==
  /\ surfaces \subseteq HeightmapsOf(All(Objects)) /\ IsFiniteSet(surfaces)
  /\ Cardinality(surfaces) <= MaxFaults - faults
  /\ "display" \notin parts => surfaces = {}

(* What every other step does.                                             *)
Quiet ==
  /\ surfaces' = surfaces
  /\ faults' \in 0 .. faults
  /\ "display" \in parts => "display" \in parts'

LEMMA QuietKeeps ==
  ASSUME IInv, Left, Quiet
  PROVE  Left'
<1>1. faults \in 0 .. MaxFaults /\ MaxFaults \in Nat  BY BoundsNatural DEF IInv, ControlTypes
<1>2. Cardinality(surfaces) \in Nat  BY FS_CardinalityType DEF Left
<1>3. Cardinality(surfaces') <= MaxFaults - faults'  BY <1>1, <1>2 DEF Left, Quiet
<1>4. QED  BY <1>3 DEF Left, Quiet

LEMMA QuietFaults ==
  ASSUME IInv
  PROVE  /\ faults' = faults => faults' \in 0 .. faults
         /\ Fault => faults' \in 0 .. faults
         /\ \A n \in Nat : Faults(n) => faults' \in 0 .. faults
<1>1. faults \in Nat
  <2>1. faults \in 0 .. MaxFaults  BY IInvIs DEF ControlTypes
  <2>2. MaxFaults \in Nat  BY BoundsNatural
  <2>3. QED  BY <2>1, <2>2
<1>2. \A n \in Nat : Faults(n) => faults' \in 0 .. faults  BY <1>1 DEF Faults
<1>3. Fault => faults' \in 0 .. faults  BY <1>2 DEF Fault
<1>4. faults' = faults => faults' \in 0 .. faults  BY <1>1
<1>5. QED  BY <1>2, <1>3, <1>4

LEMMA CreationQuiet ==
  ASSUME IInv, Creation
  PROVE  Quiet
<1>1. CASE \/ CreateTime \/ CreateJobs \/ CreateFiles \/ CreateLua \/ ReadConfig
           \/ CreateWindow \/ CreateInput \/ GetDevices
  <2>1. ASSUME NEW step, NEW made, NEW left, Stage(step, made, left) PROVE Quiet
    <3>1. faults' \in 0 .. faults  BY <2>1, QuietFaults DEF Stage
    <3>2. QED  BY <2>1, <3>1 DEF Stage, Quiet
  <2>2. QED
    BY <1>1, <2>1 DEF CreateTime, CreateJobs, CreateFiles, CreateLua, ReadConfig,
                      CreateWindow, CreateInput, GetDevices
<1>2. CASE CreateDisplay  BY <1>2, QuietFaults DEF CreateDisplay, Quiet
<1>3. CASE AddViewports  BY <1>3, QuietFaults DEF AddViewports, Quiet
<1>4. CASE CreateLayers  BY <1>4, QuietFaults DEF CreateLayers, Quiet
<1>5. CASE CreateActions  BY <1>5, QuietFaults DEF CreateActions, Quiet
<1>6. QED  BY <1>1, <1>2, <1>3, <1>4, <1>5 DEF Creation

LEMMA MainLoopQuiet ==
  ASSUME IInv, MainLoop
  PROVE  Quiet
BY QuietFaults
   DEF MainLoop, Message, QuitMessage, EmptyTurn, LoadTurn, RenderTurn, LeaveLoop, Quiet

LEMMA SceneReleaseQuiet ==
  ASSUME IInv, SceneRelease
  PROVE  Quiet
<1>1. UNCHANGED <<faults, surfaces>> /\ ("display" \in parts => "display" \in parts')
  BY DEF SceneRelease, DropDummies, DropStages, DropCameras, DropOverlay, DropWater,
         DropHierarchy, DropLayerings, DropOctree, DropMaterials, DropCreators,
         DropTargets, Deleted
<1>2. QED  BY <1>1, QuietFaults DEF Quiet

LEMMA ReleaseQuiet ==
  ASSUME IInv, Release, ~ EndDisplay
  PROVE  Quiet
<1>1. CASE EndParts
  <2>1. PICK step \in DOMAIN Ends : parts' = parts \ Ends[step]  BY <1>1 DEF EndParts
  <2>2. "display" \notin Ends[step]  BY DEF Ends
  <2>3. QED  BY <1>1, <2>1, <2>2, QuietFaults DEF EndParts, Quiet
<1>2. CASE EndListener \/ EndScene \/ EndLayers \/ EndCreators \/ EndTime
  BY <1>2, QuietFaults DEF EndListener, EndScene, EndLayers, EndCreators, EndTime, Quiet
<1>3. QED  BY <1>1, <1>2 DEF Release

LEMMA SceneCreationQuiet ==
  ASSUME IInv, SceneCreation, ~ LoadHierarchy
  PROVE  Quiet
<1>1. CASE LoadFile  BY <1>1, QuietFaults DEF LoadFile, Quiet
<1>2. CASE LoadTargets
  <2>1. \E k \in Nat : Faults(k)
    <3>1. 0 \in Nat /\ 0 + 1 \in Nat  OBVIOUS
    <3>2. QED  BY <1>2, <3>1 DEF LoadTargets, LoadedTo
  <2>2. QED  BY <1>2, <2>1, QuietFaults DEF LoadTargets, Quiet
<1>3. CASE LoadMaterials
  <2>1. \E k \in Nat : Faults(k)
    <3>1. 0 \in Nat /\ 0 + 1 \in Nat  OBVIOUS
    <3>2. QED  BY <1>3, <3>1 DEF LoadMaterials, LoadedTo
  <2>2. QED  BY <1>3, <2>1, QuietFaults DEF LoadMaterials, Quiet
<1>4. CASE LoadOctree  BY <1>4, QuietFaults DEF LoadOctree, Quiet
<1>5. CASE LoadWater  BY <1>5, QuietFaults DEF LoadWater, Quiet
<1>6. CASE LoadCameras
  <2>1. PICK n \in 0 .. Len(Cameras) : \E failed \in SUBSET First(Cameras, n) :
          Faults(Cardinality(failed)) \/ Faults(Cardinality(failed) + 1)
    BY <1>6 DEF LoadCameras, LoadedTo
  <2>2. PICK failed \in SUBSET First(Cameras, n) :
          Faults(Cardinality(failed)) \/ Faults(Cardinality(failed) + 1)
    BY <2>1
  <2>3. IsFiniteSet(First(Cameras, n))  BY FirstFinite, ListTypes
  <2>4. IsFiniteSet(failed)  BY <2>3, FS_Subset
  <2>5. Cardinality(failed) \in Nat /\ Cardinality(failed) + 1 \in Nat  BY <2>4, FS_CardinalityType
  <2>6. faults' \in 0 .. faults  BY <2>2, <2>5, QuietFaults
  <2>7. QED  BY <1>6, <2>6 DEF LoadCameras, Quiet
<1>7. CASE LoadStages
  <2>1. Fault \/ UNCHANGED faults  BY <1>7 DEF LoadStages
  <2>2. QED  BY <1>7, <2>1, QuietFaults DEF LoadStages, Quiet
<1>8. CASE BindSemantics  BY <1>8, QuietFaults DEF BindSemantics, Quiet
<1>9. CASE CreateOverlay  BY <1>9, QuietFaults DEF CreateOverlay, Quiet
<1>10. CASE Show  BY <1>10, QuietFaults DEF Show, Quiet
<1>11. QED
  BY <1>1, <1>2, <1>3, <1>4, <1>5, <1>6, <1>7, <1>8, <1>9, <1>10 DEF SceneCreation

LEMMA HierarchyLeaves ==
  ASSUME IInv, Left, LoadHierarchy
  PROVE  Left'
<1>1. parts' = parts /\ "display" \in parts
  <2>1. Here  BY IInvIs DEF LoadHierarchy, At
  <2>2. LoadSteps[5] = "hierarchy"  BY DEF LoadSteps
  <2>3. At(LoadSteps[5]) /\ 5 \in 1 .. 11  BY <2>2 DEF LoadHierarchy
  <2>4. LoadAt(5 + 11)  BY <2>1, <2>3, AtLoad
  <2>5. QED  BY <2>4 DEF LoadAt, InTurn, LoadHierarchy
<1>2. CASE UNCHANGED <<faults, surfaces>>
  <2>1. Quiet  BY <1>1, <1>2, QuietFaults DEF Quiet
  <2>2. QED  BY <2>1, QuietKeeps
<1>3. ASSUME NEW o \in All(Objects), NEW kept \in SUBSET HeightmapsOf({o}), NEW failed \in {0, 1},
             o.heightmap \notin surfaces, Faults(Cardinality(kept) + failed),
             surfaces' = surfaces \cup kept
      PROVE  Left'
  <2> DEFINE h == o.heightmap
  <2>1. kept = {} \/ kept = {h}  BY KeptIs
  <2>2. kept \subseteq HeightmapsOf(All(Objects))  BY DEF HeightmapsOf
  <2>3. /\ IsFiniteSet(surfaces) /\ Cardinality(surfaces) \in Nat
        /\ Cardinality(surfaces) <= MaxFaults - faults
        /\ surfaces \subseteq HeightmapsOf(All(Objects))
    BY FS_CardinalityType DEF Left
  <2>4. faults \in 0 .. MaxFaults /\ MaxFaults \in Nat  BY BoundsNatural DEF IInv, ControlTypes
  <2>5. faults' = faults - (Cardinality(kept) + failed)  BY <1>3 DEF Faults
  <2>6. h \notin surfaces  BY <1>3
  <2> HIDE DEF h
  <2>7. IsFiniteSet(surfaces') /\ Cardinality(surfaces') <= MaxFaults - faults'
    <3>1. CASE kept = {}
      <4>1. Cardinality(kept) = 0  BY <3>1, FS_EmptySet
      <4>2. surfaces' = surfaces  BY <1>3, <3>1
      <4>3. QED  BY <2>3, <2>4, <2>5, <4>1, <4>2
    <3>2. CASE kept = {h}
      <4>1. Cardinality(kept) = 1  BY <3>2, FS_Singleton
      <4>2. IsFiniteSet(surfaces \cup {h}) /\ Cardinality(surfaces \cup {h}) = Cardinality(surfaces) + 1
        BY <2>3, <2>6, FS_AddElement
      <4>3. surfaces' = surfaces \cup {h}  BY <1>3, <3>2
      <4>4. IsFiniteSet(surfaces') /\ Cardinality(surfaces') = Cardinality(surfaces) + 1  BY <4>2, <4>3
      <4>5. QED  BY <2>3, <2>4, <2>5, <4>1, <4>4
    <3>3. QED  BY <2>1, <3>1, <3>2
  <2>8. QED  BY <1>1, <1>3, <2>2, <2>3, <2>7 DEF Left
<1>4. ASSUME NEW i \in 1 .. Len(Objects), LoadObject(Objects[i]) PROVE Left'
  <2>1. Objects[i] \in All(Objects)  BY DEF All, First
  <2>2. QED  BY <1>2, <1>3, <1>4, <2>1 DEF LoadObject
<1>5. QED  BY <1>2, <1>4 DEF LoadHierarchy

LEMMA EndDisplayLeaves ==
  ASSUME IInv, Left, EndDisplay
  PROVE  Left'
<1>1. faults \in 0 .. MaxFaults /\ MaxFaults \in Nat  BY BoundsNatural DEF IInv, ControlTypes
<1>2. surfaces' = {} /\ faults' = faults  BY DEF EndDisplay
<1>3. IsFiniteSet(surfaces') /\ Cardinality(surfaces') = 0  BY <1>2, FS_EmptySet
<1>4. QED  BY <1>1, <1>2, <1>3 DEF Left

(* No name of a surface is left but a heightmap's, and no more of them     *)
(* than failures; none without a display, that is, none at the end         *)
(* (Landscape::LoadHeightmap, Display::CloseVideo).                        *)
THEOREM FailuresLeaveSurfaces == Spec => []Left
<1>1. Init => Left
  <2> SUFFICES ASSUME Init PROVE Left  OBVIOUS
  <2>1. surfaces = {} /\ faults = MaxFaults  BY DEF Init
  <2>2. IsFiniteSet(surfaces) /\ Cardinality(surfaces) = 0  BY <2>1, FS_EmptySet
  <2>3. QED  BY <2>1, <2>2, BoundsNatural DEF Left
<1>2. IInv /\ Left /\ [Next]_vars => Left'
  <2> SUFFICES ASSUME IInv, Left, [Next]_vars PROVE Left'  OBVIOUS
  <2>1. CASE LoadHierarchy  BY <2>1, HierarchyLeaves
  <2>2. CASE EndDisplay  BY <2>2, EndDisplayLeaves
  <2>3. CASE Next /\ ~ LoadHierarchy /\ ~ EndDisplay
    <3>1. Quiet
      BY <2>3, CreationQuiet, MainLoopQuiet, SceneCreationQuiet, SceneReleaseQuiet, ReleaseQuiet
         DEF Next
    <3>2. QED  BY <3>1, QuietKeeps
  <2>4. CASE UNCHANGED vars
    <3>1. UNCHANGED <<parts, faults, surfaces>>  BY <2>4 DEF vars
    <3>2. Quiet  BY <3>1, QuietFaults DEF Quiet
    <3>3. QED  BY <3>2, QuietKeeps
  <2>5. QED  BY <2>1, <2>2, <2>3, <2>4
<1>3. QED  BY <1>1, <1>2, ControlTellsState, PTL DEF Spec

(* Every variable of the life of the application keeps to its type: the    *)
(* managers hold only what the scene file names, and the steps to be taken *)
(* are steps of the five functions.                                        *)
THEOREM TypeCorrect == Spec => []TypeOK
<1>1. IInv /\ Left => TypeOK
  BY Zenon DEF IInv, Left, TypeOK, ControlTypes, Tables, HeldTypes, SceneTypes
<1>2. QED  BY <1>1, ControlTellsState, FailuresLeaveSurfaces, PTL

LEMMA StandingNeeds ==
  ASSUME Standing(parts), NEW p \in parts, parts \subseteq Parts
  PROVE  Needs[p] \subseteq parts
<1>1. p \in Parts  OBVIOUS
<1>2. CASE p = "listener"  BY <1>1, <1>2 DEF Standing, Needs
<1>3. CASE p = "scene"  BY <1>1, <1>3 DEF Standing, Needs
<1>4. CASE p = "dispatcher"  BY <1>1, <1>4 DEF Standing, Needs
<1>5. CASE p = "layers"  BY <1>1, <1>5 DEF Standing, Needs
<1>6. CASE p = "log"  BY <1>1, <1>6 DEF Standing, Needs
<1>7. CASE p \in {"memory", "native"}  BY <1>1, <1>7 DEF Standing, Needs
<1>8. CASE p \notin {"listener", "scene", "dispatcher", "layers", "log", "memory", "native"}
  BY <1>1, <1>8 DEF Needs
<1>9. QED  BY <1>2, <1>3, <1>4, <1>5, <1>6, <1>7, <1>8

(* What exists has what it uses, and nothing of a scene that is gone, or   *)
(* of a program that has ended, is left behind, but for the names of       *)
(* heightmaps whose surface could not be locked, no more of them than      *)
(* there were failures: for every scene file that can be loaded, and any   *)
(* number of failures of files, devices and allocations at any of the      *)
(* steps (Application::Create, LoadScene, Scene::Create, Scene::Release,   *)
(* Application::Release, CloseVideo).                                      *)
THEOREM OwnershipHolds == Spec => []Ownership
<1>1. IInv /\ Left => Ownership
  <2> SUFFICES ASSUME IInv, Left PROVE Ownership  OBVIOUS
  <2>1. ControlTypes /\ Tables /\ Standing(parts) /\ Owned /\ crash # "end erased"  BY IInvIs
  <2>2. ASSUME crash = "none", todo = <<>> PROVE Waiting  BY <2>2, IInvIs, AtTurn
  <2>3. NothingDangles
    <3>1. \A p \in parts : Needs[p] \subseteq parts  BY <2>1, StandingNeeds DEF ControlTypes
    <3>2. Noted(held, scene) /\ ("listener" \in parts /\ crash = "none" => camera \in held.cameras)
      BY <2>1 DEF Owned
    <3>3. Turns /\ update = "render" =>
            bound = "live" /\ "listener" \in parts /\ held.stages = All(Stages)
      BY <2>2 DEF Turns, Waiting
    <3>4. scene.fonts \subseteq held.fonts /\ held.stages \subseteq scene.stages  BY <3>2 DEF Noted
    <3>5. QED  BY <3>1, <3>2, <3>3, <3>4 DEF NothingDangles, Noted
  <2>4. NothingLeftBehind
    <3>1. "scene" \notin parts => Gone(held, scene)  BY <2>1 DEF Owned
    <3>2. Ended /\ crash = "none" =>
            parts = {"window"} /\ held = NothingHeld /\ surfaces = {}
      BY <2>2 DEF Ended, Waiting, Left
    <3>3. QED  BY <2>1, <3>1, <3>2 DEF NothingLeftBehind, Gone, Left
  <2>5. QED  BY <2>3, <2>4 DEF Ownership
<1>2. QED  BY <1>1, ControlTellsState, FailuresLeaveSurfaces, PTL
=============================================================================
