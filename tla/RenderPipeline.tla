-------------------------- MODULE RenderPipeline --------------------------
(***************************************************************************)
(* A frame of the display: Display::Update draws the stages of the scene   *)
(* one after the other (Display.cpp:105-161, 828-930).  A stage runs its   *)
(* normal processes, each of which draws the requested objects into render *)
(* targets, and then its post processes, which read what the targets hold  *)
(* and draw it again, each target alternating between two buffers and      *)
(* keeping the original scene in a third (RenderTarget.cpp).  What is left *)
(* in target 0 is copied to the back buffer at the end, unless the last    *)
(* process wrote to it directly.                                           *)
(*                                                                         *)
(* Data left out: geometry, shaders, viewports, depth.  An image is the    *)
(* list of the processes that made it in this frame; an image of an        *)
(* earlier frame, or one that was read and written at once, is Old.        *)
(***************************************************************************)
EXTENDS Naturals, Sequences, SequencesExt, FiniteSetsExt

CONSTANTS
  Count,        \* the render targets of the chain (m_uDXGBufferCount)
  Textures,     \* textures a process may draw into instead
  Scenes,       \* the stages of each scene the display may be given
  Objects,      \* the objects of a scene
  Requests,     \* lists of requests the scene may make for one process
  Material,     \* Material[o]: GetMaterial
  Effect,       \* Effect[m]: GetEffect
  PassCount     \* PassCount[m]: the passes of its technique

RT == 0 .. Count - 1
Materials == {Material[o] : o \in Objects}
Effects == {Effect[m] : m \in Materials}

\* What can be drawn into.  NULL is no surface, no texture.
NULL == <<>>
Back == <<"back buffer">>
Buffer(i, b) == <<"buffer", i, b>>
Texture(n) == <<"texture", n>>
Original == 2   \* c_uOriginalBuffer
Surfaces == {Back} \cup {Buffer(i, b) : i \in RT, b \in {0, 1, Original}} \cup {Texture(n) : n \in Textures}

\* A process: its name; targets, the render target of each entry with the
\* texture that overrides it or NULL, no target twice; a normal process clears
\* or does not; a post process writes to the back buffer directly or not, and
\* reads what is published under some semantics: <<"RT", i>> is RT2D0i,
\* <<"ORT", i>> ORT2D0i.
Semantics == {"RT", "ORT"} \X RT
IsProcess(p) ==
  /\ p.targets \in Seq([rt : RT, texture : {NULL} \cup {Texture(n) : n \in Textures}])
  /\ \A i, j \in DOMAIN p.targets : p.targets[i].rt = p.targets[j].rt => i = j
  /\ p.clear \in BOOLEAN /\ p.immediate \in BOOLEAN
  /\ p.reads \subseteq Semantics
IsList(s) == s \in Seq(Range(s))

ASSUME CountPositive == Count \in Nat \ {0}
\* A post process reads the frame it adds to, and lists its targets in their
\* order, as the scene file does: entry i is render target i.  The others would
\* be left on the device.
ASSUME ScenesWellFormed == \A scene \in Scenes : IsList(scene) /\ \A k \in DOMAIN scene :
  /\ IsList(scene[k].normal) /\ IsList(scene[k].post)
  /\ \A p \in Range(scene[k].normal) \cup Range(scene[k].post) : IsProcess(p)
  /\ \A p \in Range(scene[k].post) :
       <<"RT", 0>> \in p.reads /\ \A i \in DOMAIN p.targets : p.targets[i].rt = i - 1
\* The processes that write to the back buffer are the last ones, and the first
\* of them is a post process: the copy at the end is skipped, so what the
\* targets hold would not be seen otherwise (Display.cpp:132).
Wrote(scene, k) == \E h \in 1 .. k - 1 : \E p \in Range(scene[h].post) : p.immediate
ASSUME DirectWritesLast == \A scene \in Scenes : \A k \in DOMAIN scene :
  /\ \A p \in Range(scene[k].normal) : p.targets = <<>> <=> Wrote(scene, k)
  /\ \A p \in Range(scene[k].post) : Wrote(scene, k) => p.immediate
  /\ \A i, j \in DOMAIN scene[k].post :
       i < j /\ scene[k].post[i].immediate => scene[k].post[j].immediate
\* What is requested are objects of the scene.
ASSUME RequestsAreObjects == Requests \subseteq Seq(Objects)
ASSUME PassesPositive == \A m \in Materials : PassCount[m] \in Nat \ {0}

VARIABLES
  scene,      \* the stages added to the display (m_vRenderStages)
  pc,         \* where Display::Update is: <<step, stage, process>>
  gfx,        \* the chain of render targets, the device, what images hold
  lists,      \* the lists of requests: of the stage, effects and materials
  params,     \* params[p]: the textures set on the effect of post process p
  due,        \* history: the image the frame should show so far
  drawn       \* history: what the last process was asked to draw, and drew

vars == <<scene, pc, gfx, lists, params, due, drawn>>

Stage == scene[pc[2]]
Process == IF pc[1] = "post" THEN Stage.post[pc[3]] ELSE Stage.normal[pc[3]]

-----------------------------------------------------------------------------
(* Images.                                                                 *)
Old == <<"old">>
Add(image, name) ==
  IF image = Old \/ (Len(image) > 0 /\ Last(image) = name) THEN image ELSE Append(image, name)

-----------------------------------------------------------------------------
(* DisplayRenderTarget, and its chain.  Each operator takes the graphics   *)
(* state and returns the next one.                                         *)

NewTarget(i) ==
  [enabled |-> FALSE, index |-> i, state |-> "UNKNOWN", mode |-> "UNKNOWN", current |-> 0,
   texture |-> NULL, override |-> NULL, first |-> TRUE, immediate |-> FALSE, previous |-> NULL]

\* The device's render targets after each target i of the chain, in turn, has
\* set Sets[i] at its index, where it sets one.
SetRenderTargets(target, rt, Sets) ==
  [k \in RT |->
    LET setters == {i \in DOMAIN Sets : rt[i].index = k}
    IN IF setters = {} THEN target[k] ELSE Sets[Max(setters)]]

Ready(r, states) == r.enabled /\ r.state \in states

\* DisplayRenderTargetChain::RenderBegin.  A surface that was still held is
\* overwritten, and its reference is lost.
RenderBegin(g, mode) ==
  LET begun == {i \in RT : Ready(g.rt[i], {"UNKNOWN", "END"})}
      Begin(r) == [r EXCEPT !.state = "BEGIN", !.mode = mode,
                            !.previous = IF r.index = 0 THEN g.target[0] ELSE r.previous,
                            !.current = IF mode = "NORMAL" THEN 0 ELSE r.current,
                            !.first = mode = "NORMAL" \/ r.first,
                            !.texture = IF mode = "NORMAL" THEN NULL ELSE r.texture]
  IN [g EXCEPT !.rt = [i \in RT |-> IF i \in begun THEN Begin(g.rt[i]) ELSE g.rt[i]],
               !.lost = g.lost + Cardinality({i \in begun : g.rt[i].index = 0 /\ g.rt[i].previous # NULL})]

\* DisplayRenderTargetChain::RenderBeginPass.
RenderBeginPass(g) ==
  LET begun == {i \in RT : Ready(g.rt[i], {"BEGIN", "ENDPASS"})}
      Chosen(i) == IF g.rt[i].override # NULL THEN g.rt[i].override
                   ELSE Buffer(i, IF g.rt[i].first THEN Original ELSE g.rt[i].current)
      swapped == {i \in begun : /\ g.rt[i].mode = "POST" \/ g.rt[i].texture = NULL
                                /\ ~g.rt[i].immediate
                                /\ Chosen(i) # g.rt[i].texture}
      published == {i \in begun : g.rt[i].mode = "POST"}
  IN [g EXCEPT
       !.rt = [i \in RT |-> IF i \notin begun THEN g.rt[i]
                 ELSE [g.rt[i] EXCEPT !.state = "BEGINPASS",
                                      !.texture = IF i \in swapped THEN Chosen(i) ELSE g.rt[i].texture]],
       !.target = SetRenderTargets(g.target, g.rt, [i \in swapped |-> Chosen(i)]),
       !.semantic = [s \in Semantics |-> IF s[2] \notin published THEN g.semantic[s]
                       ELSE IF s[1] = "RT" THEN g.rt[s[2]].texture ELSE Buffer(s[2], Original)]]

(* Mutant: the same buffer is used again. *)
RenderEndPassSame(g) ==
  LET begun == {i \in RT : Ready(g.rt[i], {"BEGINPASS"})}
  IN [g EXCEPT !.rt = [i \in RT |-> IF i \in begun THEN [g.rt[i] EXCEPT !.state = "ENDPASS"] ELSE g.rt[i]],
               !.semantic = [s \in Semantics |->
                               IF s[2] \in begun /\ g.rt[s[2]].mode = "POST" THEN NULL ELSE g.semantic[s]]]

(* Mutant: the buffers are counted on. *)
RenderEndPassNext(g) ==
  LET begun == {i \in RT : Ready(g.rt[i], {"BEGINPASS"})}
  IN [g EXCEPT !.rt = [i \in RT |-> IF i \notin begun THEN g.rt[i]
                 ELSE [g.rt[i] EXCEPT !.state = "ENDPASS", !.current = g.rt[i].current + 1]]]

\* DisplayRenderTargetChain::RenderEndPass.
RenderEndPass(g) ==
  LET begun == {i \in RT : Ready(g.rt[i], {"BEGINPASS"})}
  IN [g EXCEPT
       !.rt = [i \in RT |-> IF i \notin begun THEN g.rt[i]
                 ELSE [g.rt[i] EXCEPT !.state = "ENDPASS",
                                      !.current = IF g.rt[i].immediate THEN g.rt[i].current ELSE 1 - g.rt[i].current]],
       !.semantic = [s \in Semantics |->
                       IF s[2] \in begun /\ g.rt[s[2]].mode = "POST" THEN NULL ELSE g.semantic[s]]]

(* Mutant: the surface is set again and kept. *)
RenderEndKeeps(g) ==
  LET begun == {i \in RT : Ready(g.rt[i], {"BEGIN", "ENDPASS"})}
      restored == {i \in begun : g.rt[i].index # 0 \/ g.rt[i].previous # NULL}
  IN [g EXCEPT !.rt = [i \in RT |-> IF i \notin begun THEN g.rt[i]
                         ELSE [g.rt[i] EXCEPT !.state = "END", !.first = FALSE]],
               !.target = SetRenderTargets(g.target, g.rt, [i \in restored |-> g.rt[i].previous])]

\* DisplayRenderTargetChain::RenderEnd.
RenderEnd(g) ==
  LET begun == {i \in RT : Ready(g.rt[i], {"BEGIN", "ENDPASS"})}
      restored == {i \in begun : g.rt[i].index # 0 \/ g.rt[i].previous # NULL}
  IN [g EXCEPT
       !.rt = [i \in RT |-> IF i \notin begun THEN g.rt[i]
                 ELSE [g.rt[i] EXCEPT !.state = "END", !.first = FALSE, !.previous = NULL]],
       !.target = SetRenderTargets(g.target, g.rt, [i \in restored |-> g.rt[i].previous])]

EnableAllRenderTargets(g) ==
  [g EXCEPT !.rt = [i \in RT |-> [g.rt[i] EXCEPT !.enabled = TRUE, !.override = NULL, !.index = i]]]

DisableAllRenderTargets(g) ==
  [g EXCEPT !.rt = [i \in RT |-> [g.rt[i] EXCEPT !.enabled = FALSE, !.override = NULL]]]

\* The render targets a process names (NormalProcess.cpp:152-173,
\* PostProcess.cpp:81-104): entry e takes index e - 1.
UseTargets(g, p) ==
  [g EXCEPT !.rt = [i \in RT |->
     LET entries == {e \in DOMAIN p.targets : p.targets[e].rt = i}
     IN IF entries = {} THEN g.rt[i]
        ELSE [g.rt[i] EXCEPT !.enabled = TRUE, !.index = Max(entries) - 1,
                             !.override = p.targets[Max(entries)].texture]]]

\* DisplayRenderTargetChain::SetImmediateWrite.
SetImmediateWrite(g, write) ==
  IF g.immediate = write THEN g
  ELSE
    LET changed == {i \in RT : g.rt[i].immediate # write}
        givenBack == {i \in changed : write /\ g.rt[i].previous # NULL}
        held == {i \in changed : ~write /\ g.rt[i].previous = NULL /\ g.rt[i].index = 0}
    IN [g EXCEPT
         !.immediate = write,
         !.rt = [i \in RT |-> [g.rt[i] EXCEPT
                   !.immediate = write,
                   !.previous = IF i \in givenBack THEN NULL
                                ELSE IF i \in held THEN g.target[0] ELSE g.rt[i].previous]],
         !.target = SetRenderTargets(g.target, g.rt, [i \in givenBack |-> g.rt[i].previous])]

\* IDirect3DDevice9::Clear, and a draw of the process: every render target of
\* the device gets the image.
Targets(g) == {g.target[k] : k \in RT} \ {NULL}
Clear(g, name) ==
  [g EXCEPT !.image = [s \in Surfaces |-> IF s \in Targets(g) THEN <<name>> ELSE g.image[s]]]
Paint(g, name) ==
  [g EXCEPT !.image = [s \in Surfaces |-> IF s \in Targets(g) THEN Add(g.image[s], name) ELSE g.image[s]]]

-----------------------------------------------------------------------------
(* Requests (Display.cpp:896-930): from the stage's list to the list of    *)
(* effects, to their materials, to their objects; then everything is drawn *)
(* and the lists are cleared.                                              *)

(* Mutant: a request is not looked for in its list. *)
PushAlways(list, x) == Append(list, x)

PushNew(list, x) == IF Contains(list, x) THEN list ELSE Append(list, x)

NoLists == [stage |-> <<>>, effects |-> <<>>, materials |-> [e \in Effects |-> <<>>],
            objects |-> [m \in Materials |-> <<>>]]

\* RenderRequest of Scene::Update's objects (RenderStage.cpp:93-99).
RenderRequests(l, requests) ==
  LET pushed[n \in 0 .. Len(requests)] ==
        IF n = 0 THEN l.stage ELSE PushNew(pushed[n - 1], requests[n])
  IN [l EXCEPT !.stage = pushed[Len(requests)]]

Sort(l, o) ==
  LET m == Material[o]
      e == Effect[m]
  IN [l EXCEPT !.effects = PushNew(@, e),
               !.materials[e] = PushNew(@, m),
               !.objects[m] = PushNew(@, o)]
SortAll(l) ==
  LET sorted[n \in 0 .. Len(l.stage)] == IF n = 0 THEN l ELSE Sort(sorted[n - 1], l.stage[n])
  IN [sorted[Len(l.stage)] EXCEPT !.stage = <<>>]

\* DisplayMaterial::Render: every pass draws every object of the list.
MaterialRender(l, m) == [k \in 1 .. PassCount[m] |-> l.objects[m]]
\* DisplayEffect::Render, and all of them: the passes in their order.
EffectRender(l, e) == FlattenSeq([k \in DOMAIN l.materials[e] |-> MaterialRender(l, l.materials[e][k])])
AllPasses(l) == FlattenSeq([k \in DOMAIN l.effects |-> EffectRender(l, l.effects[k])])
\* Each list that was drawn is cleared.
Cleared(l) ==
  [l EXCEPT !.effects = <<>>,
            !.materials = [e \in Effects |-> IF Contains(l.effects, e) THEN <<>> ELSE l.materials[e]],
            !.objects = [m \in Materials |->
              IF Contains(l.effects, Effect[m]) /\ Contains(l.materials[Effect[m]], m) THEN <<>> ELSE l.objects[m]]]

\* MRTRenderBeginPass, the objects, MRTRenderEndPass (Material.cpp:96-114).
DrawPass(g, name) == RenderEndPass(Paint(RenderBeginPass(g), name))
DrawPasses(g, name, passes) ==
  LET after[n \in 0 .. Len(passes)] == IF n = 0 THEN g ELSE DrawPass(after[n - 1], name)
  IN after[Len(passes)]

-----------------------------------------------------------------------------
Init ==
  /\ scene \in Scenes
  /\ pc = <<"frame", 0, 0>>
  /\ gfx = [rt |-> [i \in RT |-> NewTarget(i)], immediate |-> FALSE,
            target |-> [k \in RT |-> IF k = 0 THEN Back ELSE NULL],
            semantic |-> [s \in Semantics |-> NULL],
            image |-> [s \in Surfaces |-> Old], lost |-> 0]
  /\ lists = NoLists
  /\ params = [k \in DOMAIN scene |-> [p \in DOMAIN scene[k].post |-> [s \in scene[k].post[p].reads |-> NULL]]]
  /\ due = Old
  /\ drawn = [asked |-> <<>>, passes |-> <<>>]

NothingDrawn == [asked |-> <<>>, passes |-> <<>>]

\* RenderStage: where stage k begins (its normal processes, or the default).
BeginStage(k) ==
  IF k > Len(scene) THEN <<"copy", k, 0>>
  ELSE IF scene[k].normal = <<>> THEN <<"default", k, 0>> ELSE <<"normal", k, 1>>
BeginPost(k) == IF scene[k].post = <<>> THEN BeginStage(k + 1) ELSE <<"postbegin", k, 0>>

\* Display::Update begins: SetImmediateWrite(false).
BeginFrame ==
  /\ pc[1] = "frame"
  /\ gfx' = [SetImmediateWrite(gfx, FALSE) EXCEPT !.image = [s \in Surfaces |-> Old], !.lost = 0]
  /\ pc' = BeginStage(1)
  /\ due' = Old
  /\ UNCHANGED <<scene, lists, params, drawn>>

\* DisplayNormalProcess::RenderBegin.
NormalBegin(g, p) ==
  LET begun == RenderBegin(SetImmediateWrite(UseTargets(DisableAllRenderTargets(g), p), p.targets = <<>>), "NORMAL")
  IN IF p.clear THEN RenderEndPass(Clear(RenderBeginPass(begun), p.name)) ELSE begun

\* What a normal process should add to the frame: it replaces the scene when
\* it clears target 0, and draws over the frame when it has no target.
DueAfter(p, passes) ==
  CASE p.targets = <<>> /\ passes # <<>> -> Add(due, p.name)
    [] \E e \in Range(p.targets) : e.rt = 0 /\ e.texture = NULL ->
         IF p.clear THEN <<p.name>> ELSE due
    [] OTHER -> due

\* around: a pass begun before the requests lasts until they are drawn.
Draw(requests, g, p, around) ==
  LET sorted == SortAll(RenderRequests(lists, requests))
      passes == AllPasses(sorted)
      painted == DrawPasses(g, p.name, passes)
  IN /\ gfx' = RenderEnd(IF around THEN RenderEndPass(painted) ELSE painted)
     /\ lists' = Cleared(sorted)
     /\ drawn' = [asked |-> requests, passes |-> passes]
     /\ due' = DueAfter(p, passes)

\* One normal process of the stage: RenderBegin, Render, RenderEnd.
NormalProcess ==
  /\ pc[1] = "normal"
  /\ \E requests \in Requests :
       Draw(requests, NormalBegin(gfx, Process), Process, FALSE)
  /\ pc' = IF pc[3] < Len(Stage.normal) THEN [pc EXCEPT ![3] = @ + 1] ELSE BeginPost(pc[2])
  /\ UNCHANGED <<scene, params>>

\* A stage without normal processes draws into all targets
\* (Display.cpp:856-865): the pass around the clear is the first material's.
DefaultProcess == [name |-> "default", targets |-> <<[rt |-> 0, texture |-> NULL]>>, clear |-> TRUE]
DefaultDraw ==
  /\ pc[1] = "default"
  /\ LET begun == RenderBeginPass(RenderBegin(EnableAllRenderTargets(gfx), "NORMAL"))
     IN \E requests \in Requests :
          Draw(requests, Clear(begun, "default"), DefaultProcess, TRUE)
  /\ pc' = BeginPost(pc[2])
  /\ UNCHANGED <<scene, params>>

PostBegin ==
  /\ pc[1] = "postbegin"
  /\ gfx' = RenderBegin(EnableAllRenderTargets(gfx), "POST")
  /\ pc' = <<"post", pc[2], 1>>
  /\ UNCHANGED <<scene, lists, params, due, drawn>>

\* One that writes directly, after one that went to the buffers: only target 0
\* was given back, and the others are read while they are bound.
StillBound ==
  /\ Process.immediate /\ \E i \in RT \ {0} : <<"RT", i>> \in Process.reads
  /\ \E k \in 1 .. pc[3] - 1 : ~Stage.post[k].immediate

\* One post process: RenderBegin, RenderObjectFunction, RenderEnd.  Its effect
\* keeps a texture when none is published (DisplayEffectParamSEMANTICTEX::Use).
PostProcess ==
  /\ pc[1] = "post"
  /\ LET p == Process
         set == SetImmediateWrite(gfx, p.immediate)
         begun == RenderBeginPass(IF p.immediate THEN set ELSE UseTargets(set, p))
         used == [s \in p.reads |-> IF begun.semantic[s] # NULL THEN begun.semantic[s]
                                    ELSE params[pc[2]][pc[3]][s]]
         sources == {used[s] : s \in p.reads} \ {NULL}
         undefined == \/ used[<<"RT", 0>>] = NULL
                      \/ sources \cap Targets(begun) # {}
                      \/ <<"ORT", 0>> \in p.reads /\ Len(begun.image[used[<<"ORT", 0>>]]) # 1
         result == IF undefined THEN Old ELSE Add(begun.image[used[<<"RT", 0>>]], p.name)
     IN /\ params' = [params EXCEPT ![pc[2]][pc[3]] = used]
        /\ gfx' = RenderEndPass([begun EXCEPT !.image[begun.target[0]] = result])
        /\ due' = IF StillBound THEN Old ELSE Add(due, p.name)
  /\ pc' = IF pc[3] < Len(Stage.post) THEN [pc EXCEPT ![3] = @ + 1] ELSE <<"postend", pc[2], 0>>
  /\ UNCHANGED <<scene, lists, drawn>>

PostEnd ==
  /\ pc[1] = "postend"
  /\ gfx' = RenderEnd(gfx)
  /\ pc' = BeginStage(pc[2] + 1)
  /\ UNCHANGED <<scene, lists, params, due, drawn>>

\* The end of Display::Update: copy target 0 to the back buffer, unless the
\* last process wrote there.  Without a texture, GetBase is called on NULL.
Copy ==
  /\ pc[1] = "copy"
  /\ LET final == gfx.rt[0].texture
     IN \/ /\ gfx.immediate
           /\ gfx' = gfx /\ pc' = <<"presented", 0, 0>>
        \/ /\ ~gfx.immediate /\ final = NULL
           /\ gfx' = gfx /\ pc' = <<"crashed", 0, 0>>
        \/ /\ ~gfx.immediate /\ final # NULL
           /\ gfx' = [gfx EXCEPT !.image[gfx.target[0]] = gfx.image[final]]
           /\ pc' = <<"presented", 0, 0>>
  /\ UNCHANGED <<scene, lists, params, due, drawn>>

Present ==
  /\ pc[1] = "presented"
  /\ pc' = <<"frame", 0, 0>>
  /\ UNCHANGED <<scene, gfx, lists, params, due, drawn>>

Next ==
  \/ BeginFrame \/ NormalProcess \/ DefaultDraw
  \/ PostBegin \/ PostProcess \/ PostEnd \/ Copy \/ Present

Spec == Init /\ [][Next]_vars
-----------------------------------------------------------------------------
(* Properties.                                                             *)

\* Type invariant: the fields of Display and of every DisplayRenderTarget.
TargetType ==
  [enabled : BOOLEAN, index : RT, state : {"UNKNOWN", "BEGIN", "BEGINPASS", "ENDPASS", "END"},
   mode : {"UNKNOWN", "NORMAL", "POST"}, current : {0, 1}, texture : Surfaces \cup {NULL},
   override : Surfaces \cup {NULL}, first : BOOLEAN, immediate : BOOLEAN, previous : Surfaces \cup {NULL}]
TypeOK ==
  /\ scene \in Scenes
  /\ pc[1] \in {"frame", "normal", "default", "postbegin", "post", "postend", "copy", "presented", "crashed"}
  /\ gfx.rt \in [RT -> TargetType] /\ gfx.immediate \in BOOLEAN
  /\ gfx.target \in [RT -> Surfaces \cup {NULL}]
  /\ gfx.semantic \in [Semantics -> Surfaces \cup {NULL}]
  /\ lists.stage \in Seq(Objects) /\ lists.effects \in Seq(Effects)
  /\ lists.materials \in [Effects -> Seq(Materials)] /\ lists.objects \in [Materials -> Seq(Objects)]

\* When a frame is presented, the back buffer shows the scene with every post
\* process applied in the order of the stage: between processes the device draws
\* to the back buffer again, no buffer is overwritten before it is read, and a
\* process that reads the original scene finds it (RenderTarget.h:29).
\* Only a scene whose last process for target 0 neither cleared nor drew has no
\* texture to copy (Display.cpp:137).
FrameShown ==
  /\ pc[1] = "presented" => gfx.image[Back] = due
  /\ pc[1] = "crashed" => due = Old /\ drawn.passes = <<>>

\* An object that was requested, once or more, is drawn once in every pass of
\* its material, whatever the materials and effects it shares with others; and
\* nothing that was not requested for this process is drawn (Display.cpp:896-930).
EachObjectOnce ==
  \A o \in Objects :
    /\ \A k \in DOMAIN drawn.passes : Cardinality({j \in DOMAIN drawn.passes[k] : drawn.passes[k][j] = o}) <= 1
    /\ Cardinality({k \in DOMAIN drawn.passes : Contains(drawn.passes[k], o)})
         = IF Contains(drawn.asked, o) THEN PassCount[Material[o]] ELSE 0

\* Between frames no target holds a surface, and every reference to the back
\* buffer was given back, save the one that the return from direct writes takes
\* and the next RenderBegin overwrites (RenderTarget.cpp:248-267, 392-409).
ReferencesGivenBack ==
  pc[1] = "presented" =>
    /\ \A i \in RT : gfx.rt[i].previous = NULL
    /\ gfx.lost <= IF gfx.immediate THEN 1 ELSE 0
=============================================================================
