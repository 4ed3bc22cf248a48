--------------------------- MODULE DisplayBinding ---------------------------
(***************************************************************************)
(* Vertex and index buffers by key, and what the device has bound.         *)
(*                                                                         *)
(* The display makes buffers through an ObjectCreator, which hands out     *)
(* keys and gives the object of a released key to the next one             *)
(* (ObjectCreator.h).  It remembers the keys it bound last and does not    *)
(* bind them again (Display.cpp:376-388, 418-430); and it remembers the    *)
(* declaration it set last (762-773).  Meshes (the terrain's levels and    *)
(* spheres) draw from buffers.  Overlays draw from memory: texts, the quad *)
(* of the post processes and lines; they set their own declaration, and    *)
(* the device forgets its stream when it draws from memory.                *)
(*                                                                         *)
(* Left out: the data of the buffers, and the references GetStreamSource   *)
(* and GetIndices add, which are never given back.                         *)
(***************************************************************************)
EXTENDS Naturals

CONSTANTS
  Parts,        \* what draws from a vertex buffer: a level of the terrain, a sphere
  Meshes,       \* what has an index buffer: the terrain, a sphere
  MeshOf,       \* MeshOf[p]: the mesh p is a part of
  Buffers,      \* the addresses of the buffers the device makes
  NULL,         \* no buffer
  MaxDecls      \* bound: declarations made in a run

Overlays == {"text", "quad", "lines"}

ASSUME PartsAssumption == MeshOf \in [Parts -> Meshes]
ASSUME BuffersAssumption == Buffers \subseteq Nat /\ NULL \notin Buffers
ASSUME MaxDeclsAssumption == MaxDecls \in Nat

VARIABLES
  vertexBuffers,  \* m_oVertexBuffers: its objects by key
  vertexInUse,    \* m_oVertexBuffers: the keys of m_mInUse
  indexBuffers,   \* m_oIndexBuffer: its objects by key
  indexInUse,     \* m_oIndexBuffer: the keys of m_mInUse
  declared,       \* m_uVertexDeclID; m_mVertexDecls keeps every key so far
  alive,          \* the declarations that were not released
  current,        \* m_uCurrentVertexBuffer, m_uCurrentIndexBuffer, m_uCurrentVertexDecl
  device,         \* what the device draws from
  vertexKey,      \* the key each part holds, 0 for none
  indexKey,       \* the key each mesh holds
  declKey,        \* the declaration each overlay holds
  undone          \* history: whether what is current may not be what the device has

keys == <<vertexBuffers, vertexInUse, indexBuffers, indexInUse>>
owners == <<vertexKey, indexKey, declKey>>
vars == <<keys, declared, alive, current, device, owners, undone>>

-----------------------------------------------------------------------------
(* ObjectCreator.                                                          *)

(* Mutant: a new object is not noted. *)
PutAgain(f, k, x) == IF k \in DOMAIN f THEN [f EXCEPT ![k] = x] ELSE f

Put(f, k, x) == [i \in DOMAIN f \cup {k} |-> IF i = k THEN x ELSE f[i]]

\* The key New tries: the first available one, or one more than all so far.
IsNext(k, objects, inUse) ==
  IF DOMAIN objects \ inUse = {} THEN k \in Nat /\ k \notin DOMAIN objects /\ \A j \in DOMAIN objects : j < k
  ELSE k \in DOMAIN objects \ inUse /\ \A j \in DOMAIN objects \ inUse : k <= j
NewKeys(objects) == DOMAIN objects \cup {1} \cup {k + 1 : k \in DOMAIN objects}

\* An object that could not be created stays available as it is; a new one is
\* deleted.
NotCreated(objects, k, x) == IF k \in DOMAIN objects THEN [objects EXCEPT ![k] = x] ELSE objects

NoVertexBuffer == [buffer |-> NULL, decl |-> 0]
\* The device takes the first address that holds no buffer of the kind; which
\* one makes no difference, as buffers of a kind are only compared for equality.
Free(held) == {b \in Buffers \ held : \A c \in Buffers \ held : b <= c}
FreeForVertices == Free({vertexBuffers[k].buffer : k \in DOMAIN vertexBuffers} \cup {device.stream})
FreeForIndices == Free({indexBuffers[k] : k \in DOMAIN indexBuffers} \cup {device.indices})

-----------------------------------------------------------------------------
(* Declarations.                                                           *)

(* Mutant: the current key is kept. *)
DeclKeptAfterRelease(decl) == current.decl

\* ReleaseVertexDeclaration: what is left of the current key.
DeclAfterRelease(decl) == IF current.decl = decl THEN 0 ELSE current.decl

\* SetVertexDeclaration: the device is asked when the key is not the current one.
\* It may refuse; the key is current all the same.
DeclBefore == [decl |-> device.decl, undone |-> undone.decl]
DeclsAfterSet(decl) ==
  IF current.decl = decl THEN {DeclBefore}
  ELSE {[decl |-> decl, undone |-> FALSE], [decl |-> device.decl, undone |-> TRUE]}

-----------------------------------------------------------------------------
(* Buffers.                                                                *)

\* CreateVertexBufferKey: the device may refuse the buffer, or the declaration.
CreateVertexBuffer(p) ==
  /\ vertexKey[p] = 0 /\ declared < MaxDecls
  /\ \E k \in NewKeys(vertexBuffers) :
       /\ IsNext(k, vertexBuffers, vertexInUse)
       /\ \/ /\ vertexBuffers' = NotCreated(vertexBuffers, k, NoVertexBuffer)
             /\ UNCHANGED <<vertexInUse, vertexKey, declared, alive>>
          \/ \E b \in FreeForVertices :
               \/ /\ vertexBuffers' = NotCreated(vertexBuffers, k, [buffer |-> b, decl |-> 0])
                  /\ UNCHANGED <<vertexInUse, vertexKey, declared, alive>>
               \/ /\ declared' = declared + 1
                  /\ alive' = alive \cup {declared'}
                  /\ vertexBuffers' = Put(vertexBuffers, k, [buffer |-> b, decl |-> declared'])
                  /\ vertexInUse' = vertexInUse \cup {k}
                  /\ vertexKey' = [vertexKey EXCEPT ![p] = k]
  /\ UNCHANGED <<indexBuffers, indexInUse, current, device, indexKey, declKey, undone>>

CreateIndexBuffer(m) ==
  /\ indexKey[m] = 0
  /\ \E k \in NewKeys(indexBuffers) :
       /\ IsNext(k, indexBuffers, indexInUse)
       /\ \/ /\ indexBuffers' = NotCreated(indexBuffers, k, NULL)
             /\ UNCHANGED <<indexInUse, indexKey>>
          \/ \E b \in FreeForIndices :
               /\ indexBuffers' = Put(indexBuffers, k, b)
               /\ indexInUse' = indexInUse \cup {k}
               /\ indexKey' = [indexKey EXCEPT ![m] = k]
  /\ UNCHANGED <<vertexBuffers, vertexInUse, declared, alive, current, device, vertexKey, declKey, undone>>

\* ReleaseVertexBufferKey compares with the current index buffer.
ReleaseVertexBuffer(p) ==
  LET k == vertexKey[p]
      decl == vertexBuffers[k].decl
  IN /\ k # 0
     /\ vertexInUse' = vertexInUse \ {k}
     /\ vertexBuffers' = [vertexBuffers EXCEPT ![k] = NoVertexBuffer]
     /\ alive' = alive \ {decl}
     /\ current' = [current EXCEPT !.decl = DeclAfterRelease(decl),
                                   !.vertex = IF current.index = k THEN 0 ELSE @]
     /\ vertexKey' = [vertexKey EXCEPT ![p] = 0]
     /\ undone' = [undone EXCEPT !.vertex = @ \/ current.vertex = k]
     /\ UNCHANGED <<indexBuffers, indexInUse, declared, device, indexKey, declKey>>

(* Mutant: compared with the current vertex buffer, as its sibling is not.  *)
ReleaseIndexBufferSwapped(m) ==
  LET k == indexKey[m]
  IN /\ k # 0
     /\ indexInUse' = indexInUse \ {k}
     /\ indexBuffers' = [indexBuffers EXCEPT ![k] = NULL]
     /\ current' = [current EXCEPT !.index = IF current.vertex = k THEN 0 ELSE @]
     /\ indexKey' = [indexKey EXCEPT ![m] = 0]
     /\ UNCHANGED <<vertexBuffers, vertexInUse, declared, alive, device, vertexKey, declKey, undone>>

ReleaseIndexBuffer(m) ==
  LET k == indexKey[m]
  IN /\ k # 0
     /\ indexInUse' = indexInUse \ {k}
     /\ indexBuffers' = [indexBuffers EXCEPT ![k] = NULL]
     /\ current' = [current EXCEPT !.index = IF @ = k THEN 0 ELSE @]
     /\ indexKey' = [indexKey EXCEPT ![m] = 0]
     /\ UNCHANGED <<vertexBuffers, vertexInUse, declared, alive, device, vertexKey, declKey, undone>>

-----------------------------------------------------------------------------
(* Drawing a part: SetCurrentVertexBufferKey, SetCurrentIndexBufferKey and   *)
(* DrawIndexedPrimitive.  The device may refuse a buffer it has not bound:   *)
(* nothing is drawn then, but the display has noted the key.                 *)

\* What is bound when the display has set key k, or i: what was bound before,
\* when it is the current one, or else what Use of its buffer binds.
StreamFor(k) == IF current.vertex = k THEN device.stream ELSE vertexBuffers[k].buffer
DeclFor(k) == IF current.vertex = k THEN current.decl ELSE vertexBuffers[k].decl
DeviceDeclsFor(k) == IF current.vertex = k THEN {DeclBefore} ELSE DeclsAfterSet(vertexBuffers[k].decl)
IndicesFor(i) == IF current.index = i THEN device.indices ELSE indexBuffers[i]

VertexRefused(k) ==
  /\ current.vertex # k /\ device.stream # vertexBuffers[k].buffer
  /\ current' = [current EXCEPT !.vertex = k]
  /\ undone' = [undone EXCEPT !.vertex = TRUE]
  /\ UNCHANGED device

IndexRefused(k, i) ==
  /\ current.index # i /\ device.indices # indexBuffers[i]
  /\ current' = [vertex |-> k, index |-> i, decl |-> DeclFor(k)]
  /\ \E d \in DeviceDeclsFor(k) :
       /\ device' = [device EXCEPT !.stream = StreamFor(k), !.decl = d.decl]
       /\ undone' = [vertex |-> undone.vertex /\ current.vertex = k, index |-> TRUE, decl |-> d.undone]

Drawn(k, i) ==
  /\ current' = [vertex |-> k, index |-> i, decl |-> DeclFor(k)]
  /\ \E d \in DeviceDeclsFor(k) :
       /\ device' = [stream |-> StreamFor(k), indices |-> IndicesFor(i), decl |-> d.decl]
       /\ undone' = [vertex |-> undone.vertex /\ current.vertex = k,
                     index |-> undone.index /\ current.index = i, decl |-> d.undone]

DrawPart(p) ==
  LET k == vertexKey[p]
      i == indexKey[MeshOf[p]]
  IN /\ k # 0 /\ i # 0
     /\ VertexRefused(k) \/ IndexRefused(k, i) \/ Drawn(k, i)
     /\ UNCHANGED <<keys, declared, alive, owners>>

-----------------------------------------------------------------------------
(* Drawing an overlay.                                                       *)

CreateOverlay(o) ==
  /\ declKey[o] = 0 /\ declared < MaxDecls
  /\ declared' = declared + 1
  /\ alive' = alive \cup {declared'}
  /\ declKey' = [declKey EXCEPT ![o] = declared']
  /\ UNCHANGED <<keys, current, device, vertexKey, indexKey, undone>>

ReleaseOverlay(o) ==
  /\ declKey[o] # 0
  /\ alive' = alive \ {declKey[o]}
  /\ current' = [current EXCEPT !.decl = DeclAfterRelease(declKey[o])]
  /\ declKey' = [declKey EXCEPT ![o] = 0]
  /\ UNCHANGED <<keys, declared, device, vertexKey, indexKey, undone>>

\* A text sets its declaration, and at the end the one it found, if there was
\* one: the device may refuse the first, the second, or both.
TextDecl == IF current.decl = 0 THEN declKey["text"] ELSE current.decl
DeviceDeclsAfterText ==
  IF current.decl \in {0, declKey["text"]} THEN DeclsAfterSet(declKey["text"])
  ELSE {[decl |-> current.decl, undone |-> FALSE]}
       \cup {[decl |-> d.decl, undone |-> TRUE] : d \in DeclsAfterSet(declKey["text"])}

\* A text without letters draws nothing.
DrawText ==
  /\ declKey["text"] # 0
  /\ current' = [current EXCEPT !.decl = TextDecl]
  /\ \E letters \in BOOLEAN, d \in DeviceDeclsAfterText :
       /\ device' = [device EXCEPT !.decl = d.decl, !.stream = IF letters THEN NULL ELSE @]
       /\ undone' = [undone EXCEPT !.vertex = @ \/ letters, !.decl = d.undone]
  /\ UNCHANGED <<keys, declared, alive, owners>>

DrawQuad ==
  /\ declKey["quad"] # 0
  /\ current' = [current EXCEPT !.decl = declKey["quad"]]
  /\ \E d \in DeclsAfterSet(declKey["quad"]) :
       /\ device' = [device EXCEPT !.decl = d.decl, !.stream = NULL]
       /\ undone' = [undone EXCEPT !.vertex = TRUE, !.decl = d.undone]
  /\ UNCHANGED <<keys, declared, alive, owners>>

\* Lines come with their own indices.
DrawLines ==
  /\ declKey["lines"] # 0
  /\ current' = [current EXCEPT !.decl = declKey["lines"]]
  /\ \E strips \in BOOLEAN, d \in DeclsAfterSet(declKey["lines"]) :
       /\ device' = [decl |-> d.decl,
                     stream |-> IF strips THEN NULL ELSE device.stream,
                     indices |-> IF strips THEN NULL ELSE device.indices]
       /\ undone' = [vertex |-> TRUE, index |-> undone.index \/ strips, decl |-> d.undone]
  /\ UNCHANGED <<keys, declared, alive, owners>>

-----------------------------------------------------------------------------
Init ==
  /\ vertexBuffers = <<>> /\ vertexInUse = {} /\ indexBuffers = <<>> /\ indexInUse = {}
  /\ declared = 0 /\ alive = {}
  /\ current = [vertex |-> 0, index |-> 0, decl |-> 0]
  /\ device = [stream |-> NULL, indices |-> NULL, decl |-> 0]
  /\ vertexKey = [p \in Parts |-> 0] /\ indexKey = [m \in Meshes |-> 0] /\ declKey = [o \in Overlays |-> 0]
  /\ undone = [vertex |-> FALSE, index |-> FALSE, decl |-> FALSE]

Next ==
  \/ \E p \in Parts : CreateVertexBuffer(p) \/ ReleaseVertexBuffer(p) \/ DrawPart(p)
  \/ \E m \in Meshes : CreateIndexBuffer(m) \/ ReleaseIndexBuffer(m)
  \/ \E o \in Overlays : CreateOverlay(o) \/ ReleaseOverlay(o)
  \/ DrawText \/ DrawQuad \/ DrawLines

Spec == Init /\ [][Next]_vars

-----------------------------------------------------------------------------
(* Properties.                                                               *)

\* Type invariant: the two ObjectCreators and the current keys of the display.
TypeOK ==
  /\ vertexInUse \subseteq DOMAIN vertexBuffers /\ indexInUse \subseteq DOMAIN indexBuffers
  /\ DOMAIN vertexBuffers \subseteq Nat \ {0} /\ DOMAIN indexBuffers \subseteq Nat \ {0}
  /\ vertexBuffers \in [DOMAIN vertexBuffers -> [buffer : Buffers \cup {NULL}, decl : Nat]]
  /\ indexBuffers \in [DOMAIN indexBuffers -> Buffers \cup {NULL}]
  /\ declared \in Nat /\ alive \subseteq 1 .. declared
  /\ current \in [vertex : Nat, index : Nat, decl : Nat]
  /\ device \in [stream : Buffers \cup {NULL}, indices : Buffers \cup {NULL}, decl : Nat]
  /\ vertexKey \in [Parts -> Nat] /\ indexKey \in [Meshes -> Nat] /\ declKey \in [Overlays -> Nat]
  /\ undone \in [vertex : BOOLEAN, index : BOOLEAN, decl : BOOLEAN]

\* No two users hold one key or one declaration, what they hold is in use, and
\* the display never sets a declaration again that was released: it keeps the
\* key of every declaration for ever (Display.cpp:780-790), and a text sets
\* what it finds.
KeysOwned ==
  /\ \A p \in Parts : vertexKey[p] # 0 => vertexKey[p] \in vertexInUse
  /\ \A p, q \in Parts : vertexKey[p] # 0 /\ p # q => vertexKey[p] # vertexKey[q]
  /\ \A m \in Meshes : indexKey[m] # 0 => indexKey[m] \in indexInUse
  /\ \A m, n \in Meshes : indexKey[m] # 0 /\ m # n => indexKey[m] # indexKey[n]
DeclsOwned ==
  /\ \A k \in vertexInUse : vertexBuffers[k].decl \in alive
  /\ \A j, k \in vertexInUse : j # k => vertexBuffers[j].decl # vertexBuffers[k].decl
  /\ \A o \in Overlays : declKey[o] # 0 =>
       /\ declKey[o] \in alive
       /\ \A k \in vertexInUse : declKey[o] # vertexBuffers[k].decl
       /\ \A q \in Overlays : o # q => declKey[o] # declKey[q]
  /\ current.decl # 0 => current.decl \in alive
NothingReleasedIsUsed == KeysOwned /\ DeclsOwned

\* A part is drawn from its own buffers with its own declaration, after its
\* keys or those of others were released and given out again - unless its key
\* was the current one and, since it was bound, an overlay was drawn, the device
\* refused it, or the vertex buffer of that key was released; or the device
\* refused the declaration the display counts as set (Display.cpp:769).  Nothing
\* else may come between what the display remembers and what the device has.
DrawnAsAsked(p) ==
  LET k == vertexKey[p]
      i == indexKey[MeshOf[p]]
  IN k # 0 /\ i # 0 /\ Drawn(k, i) =>
       /\ ~undone'.vertex => /\ device'.stream = vertexBuffers[k].buffer
                             /\ undone'.decl \/ device'.decl = vertexBuffers[k].decl
       /\ ~undone'.index => device'.indices = indexBuffers[i]
DrawAsAsked == [][\A p \in Parts : DrawnAsAsked(p)]_vars
=============================================================================
