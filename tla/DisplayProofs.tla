---------------------------- MODULE DisplayProofs ----------------------------
(***************************************************************************)
(* What the display binds, for every number of meshes, parts, buffers and  *)
(* declarations, and the states of the device, for every set of states,    *)
(* texture stages and values: proofs.                                      *)
(*                                                                         *)
(* Who owns what is inductive together with the types.  That parts are     *)
(* drawn as asked needs Bound as well: as long as nothing was undone, the  *)
(* device has what the display believes it has.                            *)
(***************************************************************************)
EXTENDS DisplayBinding, StateManager, TLAPS

\* What the display believes bound is bound, unless it was undone.
VertexBound ==
  current.vertex # 0 /\ ~undone.vertex =>
    /\ current.vertex \in vertexInUse
    /\ device.stream = vertexBuffers[current.vertex].buffer
    /\ current.decl = vertexBuffers[current.vertex].decl
IndexBound ==
  current.index # 0 /\ ~undone.index =>
    /\ current.index \in indexInUse
    /\ device.indices = indexBuffers[current.index]
DeclBound == current.decl # 0 /\ ~undone.decl => device.decl = current.decl
Bound == VertexBound /\ IndexBound /\ DeclBound

IInv == TypeOK /\ KeysOwned /\ DeclsOwned /\ Bound

-----------------------------------------------------------------------------
(* The key New hands out is a key, and nobody has it (ObjectCreator.h).    *)
LEMMA NextIsFree ==
  ASSUME NEW objects, NEW inUse, DOMAIN objects \subseteq Nat \ {0}, inUse \subseteq DOMAIN objects,
         NEW k \in NewKeys(objects), IsNext(k, objects, inUse)
  PROVE  k \in Nat \ {0} /\ k \notin inUse
BY DEF NewKeys, IsNext

(* The objects after a creation that failed.                               *)
LEMMA NotCreatedIsFunction ==
  ASSUME NEW D, NEW S, NEW objects \in [D -> S], NEW k, NEW x \in S
  PROVE  /\ NotCreated(objects, k, x) \in [D -> S]
         /\ DOMAIN NotCreated(objects, k, x) = D
         /\ \A j \in D : j # k => NotCreated(objects, k, x)[j] = objects[j]
BY DEF NotCreated

(* After SetVertexDeclaration the device has the declaration, or it is noted *)
(* that it may not have it (Display.cpp:762-773).                          *)
LEMMA DeclsAfterSetIs ==
  ASSUME TypeOK, DeclBound, NEW decl \in Nat \ {0}, NEW d \in DeclsAfterSet(decl)
  PROVE  d.decl \in Nat /\ d.undone \in BOOLEAN /\ (~d.undone => d.decl = decl)
<1>1. device.decl \in Nat /\ undone.decl \in BOOLEAN
  BY DEF TypeOK
<1>2. CASE current.decl = decl
  <2>1. d = [decl |-> device.decl, undone |-> undone.decl]
    BY <1>2 DEF DeclsAfterSet, DeclBefore
  <2>2. d.decl = device.decl /\ d.undone = undone.decl
    BY <2>1
  <2>3. ~undone.decl => device.decl = decl
    BY <1>2 DEF DeclBound
  <2>4. QED  BY <1>1, <2>2, <2>3
<1>3. CASE current.decl # decl
  <2>1. d = [decl |-> decl, undone |-> FALSE] \/ d = [decl |-> device.decl, undone |-> TRUE]
    BY <1>3 DEF DeclsAfterSet
  <2>2. (d.decl = decl /\ d.undone = FALSE) \/ (d.decl = device.decl /\ d.undone = TRUE)
    BY <2>1
  <2>3. QED  BY <1>1, <2>2
<1>4. QED  BY <1>2, <1>3

-----------------------------------------------------------------------------
LEMMA InitHolds == Init => IInv
BY BuffersAssumption DEF Init, IInv, TypeOK, KeysOwned, DeclsOwned, Bound, VertexBound, IndexBound, DeclBound

(* A failed creation changes only an object that nobody has.               *)
LEMMA CreateVertexBufferKeeps ==
  ASSUME IInv, NEW p \in Parts, CreateVertexBuffer(p)
  PROVE  IInv'
<1> DEFINE Object == [buffer : Buffers \cup {NULL}, decl : Nat]
<1> USE DEF IInv
<1>1. PICK k \in NewKeys(vertexBuffers) :
        /\ IsNext(k, vertexBuffers, vertexInUse)
        /\ \/ /\ vertexBuffers' = NotCreated(vertexBuffers, k, NoVertexBuffer)
              /\ UNCHANGED <<vertexInUse, vertexKey, declared, alive>>
           \/ \E b \in FreeForVertices :
                \/ /\ vertexBuffers' = NotCreated(vertexBuffers, k, [buffer |-> b, decl |-> 0])
                   /\ UNCHANGED <<vertexInUse, vertexKey, declared, alive>>
                \/ /\ declared' = declared + 1
                   /\ alive' = alive \cup {declared'}
                   /\ vertexBuffers' = Put(vertexBuffers, k, [buffer |-> b, decl |-> declared'])
                   /\ vertexInUse' = vertexInUse \cup {k}
                   /\ vertexKey' = [vertexKey EXCEPT ![p] = k]
  BY DEF CreateVertexBuffer
<1>2. k \in Nat \ {0} /\ k \notin vertexInUse
  BY <1>1, NextIsFree DEF TypeOK
<1>3. /\ vertexKey[p] = 0
      /\ UNCHANGED <<indexBuffers, indexInUse, current, device, indexKey, declKey, undone>>
  BY DEF CreateVertexBuffer
<1>4. vertexBuffers \in [DOMAIN vertexBuffers -> Object] /\ NoVertexBuffer \in Object
  BY DEF TypeOK, NoVertexBuffer
<1>5. ASSUME NEW x \in Object, vertexBuffers' = NotCreated(vertexBuffers, k, x),
             UNCHANGED <<vertexInUse, vertexKey, declared, alive>>
      PROVE  IInv'
  <2>1. /\ vertexBuffers' \in [DOMAIN vertexBuffers -> Object] /\ DOMAIN vertexBuffers' = DOMAIN vertexBuffers
        /\ \A j \in vertexInUse : vertexBuffers'[j] = vertexBuffers[j]
    <3> DEFINE D == DOMAIN vertexBuffers
    <3>1. vertexInUse \subseteq D /\ vertexBuffers \in [D -> Object]  BY <1>4 DEF TypeOK
    <3> HIDE DEF Object, D
    <3>2. /\ NotCreated(vertexBuffers, k, x) \in [D -> Object]
          /\ DOMAIN NotCreated(vertexBuffers, k, x) = D
          /\ \A j \in D : j # k => NotCreated(vertexBuffers, k, x)[j] = vertexBuffers[j]
      BY <1>5, <3>1, NotCreatedIsFunction
    <3>3. QED  BY <1>2, <1>5, <3>1, <3>2 DEF D
  <2>2. TypeOK'
    BY <1>3, <1>5, <2>1 DEF TypeOK
  <2>3. KeysOwned'
    BY <1>3, <1>5 DEF KeysOwned
  <2>4. DeclsOwned'
    BY <1>3, <1>5, <2>1 DEF DeclsOwned
  <2>5. Bound'
    BY <1>3, <1>5, <2>1 DEF Bound, VertexBound, IndexBound, DeclBound
  <2>6. QED  BY <2>2, <2>3, <2>4, <2>5
<1>6. ASSUME NEW b \in Buffers, declared' = declared + 1, alive' = alive \cup {declared'},
             vertexBuffers' = Put(vertexBuffers, k, [buffer |-> b, decl |-> declared']),
             vertexInUse' = vertexInUse \cup {k}, vertexKey' = [vertexKey EXCEPT ![p] = k]
      PROVE  IInv'
  <2>1. declared' \in Nat /\ declared' # 0 /\ declared' \notin alive /\ [buffer |-> b, decl |-> declared'] \in Object
    BY <1>6 DEF TypeOK
  <2>2. /\ vertexBuffers' \in [DOMAIN vertexBuffers \cup {k} -> Object]
        /\ DOMAIN vertexBuffers' = DOMAIN vertexBuffers \cup {k}
        /\ vertexBuffers'[k] = [buffer |-> b, decl |-> declared']
        /\ \A j \in vertexInUse : vertexBuffers'[j] = vertexBuffers[j]
    <3> DEFINE D == DOMAIN vertexBuffers
               x == [buffer |-> b, decl |-> declared']
    <3>1. vertexInUse \subseteq D /\ vertexBuffers \in [D -> Object] /\ x \in Object
      BY <1>4, <2>1 DEF TypeOK
    <3> HIDE DEF Object, D, x
    <3>2. /\ Put(vertexBuffers, k, x) \in [D \cup {k} -> Object]
          /\ DOMAIN Put(vertexBuffers, k, x) = D \cup {k}
          /\ Put(vertexBuffers, k, x)[k] = x
          /\ \A j \in D : j # k => Put(vertexBuffers, k, x)[j] = vertexBuffers[j]
      BY <3>1 DEF Put
    <3>3. QED  BY <1>2, <1>6, <3>1, <3>2 DEF D, x
  <2>3. TypeOK'
    <3>1. vertexKey' \in [Parts -> Nat]  BY <1>2, <1>6 DEF TypeOK
    <3>2. alive' \subseteq 1 .. declared'  BY <1>6, <2>1 DEF TypeOK
    <3>3. vertexInUse' \subseteq DOMAIN vertexBuffers' /\ DOMAIN vertexBuffers' \subseteq Nat \ {0}
      BY <1>2, <1>6, <2>2 DEF TypeOK
    <3>4. QED  BY <1>3, <2>1, <2>2, <3>1, <3>2, <3>3 DEF TypeOK
  <2>4. KeysOwned'
    BY <1>2, <1>3, <1>6 DEF KeysOwned, TypeOK
  <2>5. DeclsOwned'
    BY <1>2, <1>3, <1>6, <2>1, <2>2 DEF DeclsOwned, TypeOK
  <2>6. Bound'
    BY <1>2, <1>3, <1>6, <2>2 DEF Bound, VertexBound, IndexBound, DeclBound
  <2>7. QED  BY <2>3, <2>4, <2>5, <2>6
<1>7. FreeForVertices \subseteq Buffers /\ \A b \in Buffers : [buffer |-> b, decl |-> 0] \in Object
  BY DEF FreeForVertices, Free
<1>8. QED  BY <1>1, <1>4, <1>5, <1>6, <1>7

LEMMA CreateIndexBufferKeeps ==
  ASSUME IInv, NEW m \in Meshes, CreateIndexBuffer(m)
  PROVE  IInv'
<1> DEFINE Object == Buffers \cup {NULL}
<1> USE DEF IInv
<1>1. PICK k \in NewKeys(indexBuffers) :
        /\ IsNext(k, indexBuffers, indexInUse)
        /\ \/ /\ indexBuffers' = NotCreated(indexBuffers, k, NULL)
              /\ UNCHANGED <<indexInUse, indexKey>>
           \/ \E b \in FreeForIndices :
                /\ indexBuffers' = Put(indexBuffers, k, b)
                /\ indexInUse' = indexInUse \cup {k}
                /\ indexKey' = [indexKey EXCEPT ![m] = k]
  BY DEF CreateIndexBuffer
<1>2. k \in Nat \ {0} /\ k \notin indexInUse
  BY <1>1, NextIsFree DEF TypeOK
<1>3. UNCHANGED <<vertexBuffers, vertexInUse, declared, alive, current, device, vertexKey, declKey, undone>>
  BY DEF CreateIndexBuffer
<1>4. CASE indexBuffers' = NotCreated(indexBuffers, k, NULL) /\ UNCHANGED <<indexInUse, indexKey>>
  <2>1. /\ indexBuffers' \in [DOMAIN indexBuffers -> Object] /\ DOMAIN indexBuffers' = DOMAIN indexBuffers
        /\ \A j \in indexInUse : indexBuffers'[j] = indexBuffers[j]
    <3> DEFINE D == DOMAIN indexBuffers
    <3>1. indexInUse \subseteq D /\ indexBuffers \in [D -> Object] /\ NULL \in Object  BY DEF TypeOK
    <3> HIDE DEF Object, D
    <3>2. /\ NotCreated(indexBuffers, k, NULL) \in [D -> Object]
          /\ DOMAIN NotCreated(indexBuffers, k, NULL) = D
          /\ \A j \in D : j # k => NotCreated(indexBuffers, k, NULL)[j] = indexBuffers[j]
      BY <3>1, NotCreatedIsFunction
    <3>3. QED  BY <1>2, <1>4, <3>1, <3>2 DEF D
  <2>2. TypeOK'  BY <1>3, <1>4, <2>1 DEF TypeOK
  <2>3. KeysOwned'  BY <1>3, <1>4 DEF KeysOwned
  <2>4. DeclsOwned'  BY <1>3 DEF DeclsOwned
  <2>5. Bound'  BY <1>3, <1>4, <2>1 DEF Bound, VertexBound, IndexBound, DeclBound
  <2>6. QED  BY <2>2, <2>3, <2>4, <2>5
<1>5. ASSUME NEW b \in Buffers, indexBuffers' = Put(indexBuffers, k, b),
             indexInUse' = indexInUse \cup {k}, indexKey' = [indexKey EXCEPT ![m] = k]
      PROVE  IInv'
  <2>1. /\ indexBuffers' \in [DOMAIN indexBuffers \cup {k} -> Object]
        /\ DOMAIN indexBuffers' = DOMAIN indexBuffers \cup {k}
        /\ \A j \in indexInUse : indexBuffers'[j] = indexBuffers[j]
    <3> DEFINE D == DOMAIN indexBuffers
    <3>1. indexInUse \subseteq D /\ indexBuffers \in [D -> Object] /\ b \in Object  BY DEF TypeOK
    <3> HIDE DEF Object, D
    <3>2. /\ Put(indexBuffers, k, b) \in [D \cup {k} -> Object]
          /\ DOMAIN Put(indexBuffers, k, b) = D \cup {k}
          /\ \A j \in D : j # k => Put(indexBuffers, k, b)[j] = indexBuffers[j]
      BY <3>1 DEF Put
    <3>3. QED  BY <1>2, <1>5, <3>1, <3>2 DEF D
  <2>2. TypeOK'
    <3>1. indexKey' \in [Meshes -> Nat]  BY <1>2, <1>5 DEF TypeOK
    <3>2. indexInUse' \subseteq DOMAIN indexBuffers' /\ DOMAIN indexBuffers' \subseteq Nat \ {0}
      BY <1>2, <1>5, <2>1 DEF TypeOK
    <3>3. QED  BY <1>3, <2>1, <3>1, <3>2 DEF TypeOK
  <2>3. KeysOwned'  BY <1>2, <1>3, <1>5 DEF KeysOwned, TypeOK
  <2>4. DeclsOwned'  BY <1>3 DEF DeclsOwned
  <2>5. Bound'  BY <1>2, <1>3, <1>5, <2>1 DEF Bound, VertexBound, IndexBound, DeclBound
  <2>6. QED  BY <2>2, <2>3, <2>4, <2>5
<1>6. FreeForIndices \subseteq Buffers
  BY DEF FreeForIndices, Free
<1>7. QED  BY <1>1, <1>4, <1>5, <1>6

(* The key that is released is not the current one, or undone.             *)
LEMMA ReleaseVertexBufferKeeps ==
  ASSUME IInv, NEW p \in Parts, ReleaseVertexBuffer(p)
  PROVE  IInv'
<1> DEFINE k == vertexKey[p]
           decl == vertexBuffers[k].decl
<1> USE DEF IInv
<1>1. /\ k # 0 /\ k \in vertexInUse /\ k \in DOMAIN vertexBuffers
      /\ decl \in alive /\ decl \in Nat /\ decl # 0
  BY DEF ReleaseVertexBuffer, KeysOwned, DeclsOwned, TypeOK
<1>2. /\ vertexInUse' = vertexInUse \ {k}
      /\ vertexBuffers' = [vertexBuffers EXCEPT ![k] = NoVertexBuffer]
      /\ alive' = alive \ {decl}
      /\ current' = [current EXCEPT !.decl = DeclAfterRelease(decl),
                                    !.vertex = IF current.index = k THEN 0 ELSE @]
      /\ vertexKey' = [vertexKey EXCEPT ![p] = 0]
      /\ undone' = [undone EXCEPT !.vertex = @ \/ current.vertex = k]
      /\ UNCHANGED <<indexBuffers, indexInUse, declared, device, indexKey, declKey>>
  BY DEF ReleaseVertexBuffer
<1>3. /\ DOMAIN vertexBuffers' = DOMAIN vertexBuffers
      /\ \A j \in vertexInUse' : vertexBuffers'[j] = vertexBuffers[j] /\ j \in vertexInUse /\ j # k
  BY <1>2 DEF TypeOK
<1>4. /\ current'.decl = (IF current.decl = decl THEN 0 ELSE current.decl)
      /\ current'.vertex = (IF current.index = k THEN 0 ELSE current.vertex)
      /\ current'.index = current.index
      /\ undone'.vertex = (undone.vertex \/ current.vertex = k)
      /\ undone'.index = undone.index /\ undone'.decl = undone.decl
  BY <1>2 DEF DeclAfterRelease, TypeOK
<1>5. TypeOK'
  <2>1. vertexBuffers' \in [DOMAIN vertexBuffers' -> [buffer : Buffers \cup {NULL}, decl : Nat]]
    BY <1>1, <1>2, <1>3 DEF TypeOK, NoVertexBuffer
  <2>2. current' \in [vertex : Nat, index : Nat, decl : Nat]
    BY <1>2 DEF TypeOK, DeclAfterRelease
  <2>3. undone' \in [vertex : BOOLEAN, index : BOOLEAN, decl : BOOLEAN]
    BY <1>2 DEF TypeOK
  <2>4. QED  BY <1>2, <1>3, <2>1, <2>2, <2>3 DEF TypeOK
<1>6. KeysOwned'
  BY <1>1, <1>2, <1>3 DEF KeysOwned, TypeOK
<1>7. DeclsOwned'
  <2>1. \A j \in vertexInUse' : vertexBuffers'[j].decl \in alive'
    BY <1>1, <1>2, <1>3 DEF DeclsOwned
  <2>2. \A o \in Overlays : declKey'[o] # 0 => declKey'[o] \in alive'
    BY <1>1, <1>2 DEF DeclsOwned
  <2>3. current'.decl # 0 => current'.decl \in alive'
    BY <1>2, <1>4 DEF DeclsOwned
  <2>4. QED  BY <1>2, <1>3, <2>1, <2>2, <2>3 DEF DeclsOwned
<1>8. VertexBound'
  <2> SUFFICES ASSUME current'.vertex # 0, ~undone'.vertex
               PROVE  /\ current'.vertex \in vertexInUse'
                      /\ device'.stream = vertexBuffers'[current'.vertex].buffer
                      /\ current'.decl = vertexBuffers'[current'.vertex].decl
    BY DEF VertexBound
  <2>1. current'.vertex = current.vertex /\ current.vertex # k /\ current.vertex \in vertexInUse
    BY <1>4 DEF Bound, VertexBound
  <2>2. /\ current.decl = vertexBuffers[current.vertex].decl /\ current.decl # decl
        /\ device.stream = vertexBuffers[current.vertex].buffer
    BY <1>1, <1>4, <2>1 DEF Bound, VertexBound, DeclsOwned
  <2>3. current.vertex \in vertexInUse' /\ vertexBuffers'[current.vertex] = vertexBuffers[current.vertex]
    BY <1>2, <1>3, <2>1
  <2>4. current'.decl = current.decl /\ device' = device
    BY <1>2, <1>4, <2>2
  <2>5. QED  BY <2>1, <2>2, <2>3, <2>4
<1>9. IndexBound' /\ DeclBound'
  BY <1>2, <1>4 DEF Bound, IndexBound, DeclBound
<1>10. QED  BY <1>5, <1>6, <1>7, <1>8, <1>9 DEF Bound

LEMMA ReleaseIndexBufferKeeps ==
  ASSUME IInv, NEW m \in Meshes, ReleaseIndexBuffer(m)
  PROVE  IInv'
<1> DEFINE k == indexKey[m]
<1> USE DEF IInv
<1>1. k # 0 /\ k \in indexInUse /\ k \in DOMAIN indexBuffers
  BY DEF ReleaseIndexBuffer, KeysOwned, TypeOK
<1>2. /\ indexInUse' = indexInUse \ {k}
      /\ indexBuffers' = [indexBuffers EXCEPT ![k] = NULL]
      /\ current' = [current EXCEPT !.index = IF @ = k THEN 0 ELSE @]
      /\ indexKey' = [indexKey EXCEPT ![m] = 0]
      /\ UNCHANGED <<vertexBuffers, vertexInUse, declared, alive, device, vertexKey, declKey, undone>>
  BY DEF ReleaseIndexBuffer
<1>3. /\ DOMAIN indexBuffers' = DOMAIN indexBuffers
      /\ \A j \in indexInUse' : indexBuffers'[j] = indexBuffers[j] /\ j # k
  BY <1>2 DEF TypeOK
<1>4. /\ current'.vertex = current.vertex /\ current'.decl = current.decl
      /\ current'.index = (IF current.index = k THEN 0 ELSE current.index)
  BY <1>2 DEF TypeOK
<1>5. TypeOK'
  <2>1. indexBuffers' \in [DOMAIN indexBuffers' -> Buffers \cup {NULL}]
    BY <1>2, <1>3 DEF TypeOK
  <2>2. current' \in [vertex : Nat, index : Nat, decl : Nat]
    BY <1>2 DEF TypeOK
  <2>3. QED  BY <1>2, <1>3, <2>1, <2>2 DEF TypeOK
<1>6. KeysOwned'  BY <1>1, <1>2 DEF KeysOwned, TypeOK
<1>7. DeclsOwned'  BY <1>2, <1>4 DEF DeclsOwned
<1>8. Bound'  BY <1>2, <1>3, <1>4 DEF Bound, VertexBound, IndexBound, DeclBound
<1>9. QED  BY <1>5, <1>6, <1>7, <1>8

(* Drawing a part: both keys are in use, and what Use binds is theirs.     *)
LEMMA DrawPartKeeps ==
  ASSUME IInv, NEW p \in Parts, DrawPart(p)
  PROVE  IInv'
<1> DEFINE k == vertexKey[p]
           i == indexKey[MeshOf[p]]
<1> USE DEF IInv
<1>1. /\ k # 0 /\ k \in vertexInUse /\ k \in DOMAIN vertexBuffers /\ k \in Nat
      /\ vertexBuffers[k].buffer \in Buffers \cup {NULL} /\ vertexBuffers[k].decl \in Nat
      /\ vertexBuffers[k].decl \in alive
  BY DEF DrawPart, KeysOwned, DeclsOwned, TypeOK
<1>2. /\ i # 0 /\ i \in indexInUse /\ i \in DOMAIN indexBuffers /\ i \in Nat
      /\ indexBuffers[i] \in Buffers \cup {NULL}
  BY PartsAssumption DEF DrawPart, KeysOwned, TypeOK
<1>3. UNCHANGED <<keys, declared, alive, owners>> /\ (VertexRefused(k) \/ IndexRefused(k, i) \/ Drawn(k, i))
  BY DEF DrawPart
<1>4. StreamFor(k) \in Buffers \cup {NULL} /\ DeclFor(k) \in Nat /\ IndicesFor(i) \in Buffers \cup {NULL}
  BY <1>1, <1>2 DEF StreamFor, DeclFor, IndicesFor, TypeOK
<1>5. DeclFor(k) # 0 => DeclFor(k) \in alive
  BY <1>1 DEF DeclFor, DeclsOwned
<1>6. ASSUME NEW d \in DeviceDeclsFor(k)
       PROVE  d.decl \in Nat /\ d.undone \in BOOLEAN /\ (DeclFor(k) # 0 /\ ~d.undone => d.decl = DeclFor(k))
  <2>1. CASE current.vertex = k
    <3>1. d.decl = device.decl /\ d.undone = undone.decl  BY <2>1 DEF DeviceDeclsFor, DeclBefore
    <3>2. QED  BY <2>1, <3>1 DEF DeclFor, Bound, DeclBound, TypeOK
  <2>2. CASE current.vertex # k
    <3>1. vertexBuffers[k].decl \in Nat \ {0}  BY <1>1 DEF TypeOK
    <3>2. QED  BY <2>2, <3>1, DeclsAfterSetIs DEF DeclFor, DeviceDeclsFor, Bound
  <2>3. QED  BY <2>1, <2>2
<1>7. ~(undone.vertex /\ current.vertex = k) =>
        StreamFor(k) = vertexBuffers[k].buffer /\ DeclFor(k) = vertexBuffers[k].decl
  BY <1>1 DEF StreamFor, DeclFor, Bound, VertexBound
<1>8. ~(undone.index /\ current.index = i) => IndicesFor(i) = indexBuffers[i]
  BY <1>2 DEF IndicesFor, Bound, IndexBound
<1>9. KeysOwned'
  BY <1>3 DEF KeysOwned, keys, owners
<1>10. ASSUME TypeOK', Bound', current'.decl # 0 => current'.decl \in alive
      PROVE  IInv'
  BY <1>3, <1>9, <1>10 DEF DeclsOwned, keys, owners
<1>11. CASE VertexRefused(k)
  <2>1. /\ current'.decl = current.decl /\ current'.index = current.index /\ device' = device
        /\ undone'.vertex = TRUE /\ undone'.index = undone.index /\ undone'.decl = undone.decl
    BY <1>11 DEF VertexRefused, TypeOK
  <2>2. TypeOK'
    BY <1>1, <1>3, <1>11 DEF VertexRefused, TypeOK, keys, owners
  <2>3. Bound'
    BY <1>3, <2>1 DEF Bound, VertexBound, IndexBound, DeclBound, keys
  <2>4. QED  BY <1>10, <2>1, <2>2, <2>3 DEF DeclsOwned
<1>12. CASE IndexRefused(k, i)
  <2>1. PICK d \in DeviceDeclsFor(k) :
          /\ current' = [vertex |-> k, index |-> i, decl |-> DeclFor(k)]
          /\ device' = [device EXCEPT !.stream = StreamFor(k), !.decl = d.decl]
          /\ undone' = [vertex |-> undone.vertex /\ current.vertex = k, index |-> TRUE, decl |-> d.undone]
    BY <1>12 DEF IndexRefused
  <2>2. d.decl \in Nat /\ d.undone \in BOOLEAN /\ (DeclFor(k) # 0 /\ ~d.undone => d.decl = DeclFor(k))
    BY <1>6
  <2>3. /\ device'.stream = StreamFor(k) /\ device'.decl = d.decl
        /\ current'.vertex = k /\ current'.index = i /\ current'.decl = DeclFor(k)
        /\ undone'.vertex = (undone.vertex /\ current.vertex = k) /\ undone'.index = TRUE /\ undone'.decl = d.undone
    BY <2>1 DEF TypeOK
  <2>4. TypeOK'
    <3>1. device' \in [stream : Buffers \cup {NULL}, indices : Buffers \cup {NULL}, decl : Nat]
      BY <1>4, <2>1, <2>2 DEF TypeOK
    <3>2. undone' \in [vertex : BOOLEAN, index : BOOLEAN, decl : BOOLEAN]
      BY <2>1, <2>2
    <3>3. QED  BY <1>1, <1>2, <1>3, <1>4, <2>1, <3>1, <3>2 DEF TypeOK, keys, owners
  <2>5. Bound'
    BY <1>1, <1>3, <1>7, <2>2, <2>3 DEF Bound, VertexBound, IndexBound, DeclBound, keys
  <2>6. QED  BY <1>5, <1>10, <2>3, <2>4, <2>5
<1>13. CASE Drawn(k, i)
  <2>1. PICK d \in DeviceDeclsFor(k) :
          /\ current' = [vertex |-> k, index |-> i, decl |-> DeclFor(k)]
          /\ device' = [stream |-> StreamFor(k), indices |-> IndicesFor(i), decl |-> d.decl]
          /\ undone' = [vertex |-> undone.vertex /\ current.vertex = k,
                        index |-> undone.index /\ current.index = i, decl |-> d.undone]
    BY <1>13 DEF Drawn
  <2>2. d.decl \in Nat /\ d.undone \in BOOLEAN /\ (DeclFor(k) # 0 /\ ~d.undone => d.decl = DeclFor(k))
    BY <1>6
  <2>3. /\ device'.stream = StreamFor(k) /\ device'.indices = IndicesFor(i) /\ device'.decl = d.decl
        /\ current'.vertex = k /\ current'.index = i /\ current'.decl = DeclFor(k)
        /\ undone'.vertex = (undone.vertex /\ current.vertex = k)
        /\ undone'.index = (undone.index /\ current.index = i) /\ undone'.decl = d.undone
    BY <2>1
  <2>4. TypeOK'
    <3>1. undone' \in [vertex : BOOLEAN, index : BOOLEAN, decl : BOOLEAN]
      BY <2>1, <2>2
    <3>2. QED  BY <1>1, <1>2, <1>3, <1>4, <2>1, <2>2, <3>1 DEF TypeOK, keys, owners
  <2>5. Bound'
    BY <1>1, <1>2, <1>3, <1>7, <1>8, <2>2, <2>3 DEF Bound, VertexBound, IndexBound, DeclBound, keys
  <2>6. QED  BY <1>5, <1>10, <2>3, <2>4, <2>5
<1>14. QED  BY <1>3, <1>11, <1>12, <1>13

(* Overlays bring a declaration of their own.                              *)
LEMMA CreateOverlayKeeps ==
  ASSUME IInv, NEW o \in Overlays, CreateOverlay(o)
  PROVE  IInv'
<1> USE DEF IInv
<1>1. /\ declared' = declared + 1 /\ alive' = alive \cup {declared'}
      /\ declKey' = [declKey EXCEPT ![o] = declared']
      /\ UNCHANGED <<vertexBuffers, vertexInUse, indexBuffers, indexInUse, current, device, vertexKey, indexKey, undone>>
  BY DEF CreateOverlay, keys
<1>2. declared' \in Nat /\ declared' # 0 /\ declared' \notin alive
  BY <1>1 DEF TypeOK
<1>3. TypeOK'
  <2>1. alive' \subseteq 1 .. declared'  BY <1>1, <1>2 DEF TypeOK
  <2>2. QED  BY <1>1, <1>2, <2>1 DEF TypeOK
<1>4. KeysOwned'  BY <1>1 DEF KeysOwned
<1>5. DeclsOwned'  BY <1>1, <1>2 DEF DeclsOwned, TypeOK
<1>6. Bound'  BY <1>1 DEF Bound, VertexBound, IndexBound, DeclBound
<1>7. QED  BY <1>3, <1>4, <1>5, <1>6

LEMMA ReleaseOverlayKeeps ==
  ASSUME IInv, NEW o \in Overlays, ReleaseOverlay(o)
  PROVE  IInv'
<1> USE DEF IInv
<1>1. /\ declKey[o] # 0 /\ declKey[o] \in alive
      /\ alive' = alive \ {declKey[o]}
      /\ declKey' = [declKey EXCEPT ![o] = 0]
      /\ UNCHANGED <<vertexBuffers, vertexInUse, indexBuffers, indexInUse, declared, device, vertexKey, indexKey, undone>>
  BY DEF ReleaseOverlay, keys, DeclsOwned
<1>2. /\ current'.vertex = current.vertex /\ current'.index = current.index
      /\ current'.decl = (IF current.decl = declKey[o] THEN 0 ELSE current.decl)
      /\ current' \in [vertex : Nat, index : Nat, decl : Nat]
  BY DEF ReleaseOverlay, DeclAfterRelease, TypeOK
<1>3. TypeOK'  BY <1>1, <1>2 DEF TypeOK
<1>4. KeysOwned'  BY <1>1 DEF KeysOwned
<1>5. DeclsOwned'  BY <1>1, <1>2 DEF DeclsOwned, TypeOK
<1>6. VertexBound'
  BY <1>1, <1>2 DEF Bound, VertexBound, DeclsOwned
<1>7. IndexBound' /\ DeclBound'
  BY <1>1, <1>2 DEF Bound, IndexBound, DeclBound
<1>8. QED  BY <1>3, <1>4, <1>5, <1>6, <1>7 DEF Bound

(* What an overlay undoes is noted; and a text restores what it found.     *)
LEMMA DrawOverlayKeeps ==
  ASSUME IInv, DrawText \/ DrawQuad \/ DrawLines
  PROVE  IInv'
<1> USE DEF IInv
<1>1. UNCHANGED <<vertexBuffers, vertexInUse, indexBuffers, indexInUse, declared, alive, vertexKey, indexKey, declKey>>
  BY DEF DrawText, DrawQuad, DrawLines, keys, owners
<1>2. \A o \in Overlays : declKey[o] \in Nat /\ (declKey[o] # 0 => declKey[o] \in alive)
  BY DEF DeclsOwned, TypeOK
<1>3. {"text", "quad", "lines"} \subseteq Overlays
  BY DEF Overlays
<1>4. KeysOwned'
  BY <1>1 DEF KeysOwned
<1>5. NULL \in Buffers \cup {NULL}
  OBVIOUS
<1>6. CASE DrawText
  <2>1. PICK letters \in BOOLEAN, d \in DeviceDeclsAfterText :
          /\ current' = [current EXCEPT !.decl = TextDecl]
          /\ device' = [device EXCEPT !.decl = d.decl, !.stream = IF letters THEN NULL ELSE @]
          /\ undone' = [undone EXCEPT !.vertex = @ \/ letters, !.decl = d.undone]
          /\ declKey["text"] # 0
    BY <1>6 DEF DrawText
  <2> DEFINE own == declKey["text"]
  <2>2. own \in Nat \ {0} /\ own \in alive /\ TextDecl = (IF current.decl = 0 THEN own ELSE current.decl)
    BY <1>2, <1>3, <2>1 DEF TextDecl
  <2>3. d.decl \in Nat /\ d.undone \in BOOLEAN /\ (~d.undone => d.decl = TextDecl)
    <3>1. \A e \in DeclsAfterSet(own) : e.decl \in Nat /\ e.undone \in BOOLEAN /\ (~e.undone => e.decl = own)
      BY <2>2, DeclsAfterSetIs DEF Bound
    <3>2. CASE current.decl \in {0, own}
      BY <2>1, <2>2, <3>1, <3>2 DEF DeviceDeclsAfterText
    <3>3. CASE current.decl \notin {0, own}
      <4>1. \/ d = [decl |-> current.decl, undone |-> FALSE]
            \/ \E e \in DeclsAfterSet(own) : d = [decl |-> e.decl, undone |-> TRUE]
        BY <2>1, <3>3 DEF DeviceDeclsAfterText
      <4>2. CASE d = [decl |-> current.decl, undone |-> FALSE]
        <5>1. d.decl = current.decl /\ d.undone = FALSE /\ current.decl \in Nat  BY <4>2 DEF TypeOK
        <5>2. QED  BY <2>2, <3>3, <5>1
      <4>3. ASSUME NEW e \in DeclsAfterSet(own), d = [decl |-> e.decl, undone |-> TRUE]
            PROVE  d.decl \in Nat /\ d.undone \in BOOLEAN /\ (~d.undone => d.decl = TextDecl)
        <5>1. d.decl = e.decl /\ d.undone = TRUE  BY <4>3
        <5>2. QED  BY <3>1, <5>1
      <4>4. QED  BY <4>1, <4>2, <4>3
    <3>4. QED  BY <3>2, <3>3
  <2>4. TypeOK'
    <3>1. current' \in [vertex : Nat, index : Nat, decl : Nat]  BY <2>1, <2>2 DEF TypeOK
    <3>2. device' \in [stream : Buffers \cup {NULL}, indices : Buffers \cup {NULL}, decl : Nat]
      BY <2>1, <2>3 DEF TypeOK
    <3>3. undone' \in [vertex : BOOLEAN, index : BOOLEAN, decl : BOOLEAN]  BY <2>1, <2>3 DEF TypeOK
    <3>4. QED  BY <1>1, <3>1, <3>2, <3>3 DEF TypeOK
  <2>5. DeclsOwned'
    BY <1>1, <2>1, <2>2 DEF DeclsOwned, TypeOK
  <2>6. Bound'
    <3>1. VertexBound'
      BY <1>1, <2>1, <2>2 DEF Bound, VertexBound, DeclsOwned, TypeOK
    <3>2. IndexBound' /\ DeclBound'
      BY <1>1, <2>1, <2>3 DEF Bound, IndexBound, DeclBound, TypeOK
    <3>3. QED  BY <3>1, <3>2 DEF Bound
  <2>7. QED  BY <1>4, <2>4, <2>5, <2>6
<1>7. CASE DrawQuad
  <2>1. PICK d \in DeclsAfterSet(declKey["quad"]) :
          /\ current' = [current EXCEPT !.decl = declKey["quad"]]
          /\ device' = [device EXCEPT !.decl = d.decl, !.stream = NULL]
          /\ undone' = [undone EXCEPT !.vertex = TRUE, !.decl = d.undone]
    BY <1>7 DEF DrawQuad
  <2>2. d.decl \in Nat /\ d.undone \in BOOLEAN /\ (~d.undone => d.decl = declKey["quad"])
    BY <1>2, <1>3, <1>7, DeclsAfterSetIs DEF Bound, DrawQuad
  <2>3. TypeOK'
    BY <1>1, <1>2, <1>3, <2>1, <2>2 DEF TypeOK
  <2>4. DeclsOwned'
    BY <1>1, <1>2, <1>3, <2>1 DEF DeclsOwned, TypeOK
  <2>5. Bound'
    BY <1>1, <2>1, <2>2 DEF Bound, VertexBound, IndexBound, DeclBound, TypeOK
  <2>6. QED  BY <1>4, <2>3, <2>4, <2>5
<1>8. CASE DrawLines
  <2>1. PICK strips \in BOOLEAN, d \in DeclsAfterSet(declKey["lines"]) :
          /\ current' = [current EXCEPT !.decl = declKey["lines"]]
          /\ device' = [decl |-> d.decl,
                        stream |-> IF strips THEN NULL ELSE device.stream,
                        indices |-> IF strips THEN NULL ELSE device.indices]
          /\ undone' = [vertex |-> TRUE, index |-> undone.index \/ strips, decl |-> d.undone]
    BY <1>8 DEF DrawLines
  <2>2. d.decl \in Nat /\ d.undone \in BOOLEAN /\ (~d.undone => d.decl = declKey["lines"])
    BY <1>2, <1>3, <1>8, DeclsAfterSetIs DEF Bound, DrawLines
  <2>3. TypeOK'
    BY <1>1, <1>2, <1>3, <2>1, <2>2 DEF TypeOK
  <2>4. DeclsOwned'
    BY <1>1, <1>2, <1>3, <2>1 DEF DeclsOwned, TypeOK
  <2>5. Bound'
    BY <1>1, <2>1, <2>2 DEF Bound, VertexBound, IndexBound, DeclBound, TypeOK
  <2>6. QED  BY <1>4, <2>3, <2>4, <2>5
<1>9. QED  BY <1>6, <1>7, <1>8

-----------------------------------------------------------------------------
LEMMA NextKeeps == IInv /\ [Next]_vars => IInv'
<1> SUFFICES ASSUME IInv, [Next]_vars PROVE IInv'
  OBVIOUS
<1>1. ASSUME NEW p \in Parts, CreateVertexBuffer(p) \/ ReleaseVertexBuffer(p) \/ DrawPart(p)
      PROVE  IInv'
  BY <1>1, CreateVertexBufferKeeps, ReleaseVertexBufferKeeps, DrawPartKeeps
<1>2. ASSUME NEW m \in Meshes, CreateIndexBuffer(m) \/ ReleaseIndexBuffer(m)
      PROVE  IInv'
  BY <1>2, CreateIndexBufferKeeps, ReleaseIndexBufferKeeps
<1>3. ASSUME NEW o \in Overlays, CreateOverlay(o) \/ ReleaseOverlay(o)
      PROVE  IInv'
  BY <1>3, CreateOverlayKeeps, ReleaseOverlayKeeps
<1>4. CASE DrawText \/ DrawQuad \/ DrawLines
  BY <1>4, DrawOverlayKeeps
<1>5. CASE UNCHANGED vars
  BY <1>5 DEF vars, keys, owners, IInv, TypeOK, KeysOwned, DeclsOwned, Bound, VertexBound, IndexBound, DeclBound
<1>6. QED  BY <1>1, <1>2, <1>3, <1>4, <1>5 DEF Next

LEMMA Invariance == Spec => []IInv
<1>1. QED  BY InitHolds, NextKeeps, PTL DEF Spec

(* The fields of the display and of both ObjectCreators keep their types.  *)
THEOREM TypeCorrect == Spec => []TypeOK
<1>1. IInv => TypeOK  BY DEF IInv
<1>2. QED  BY <1>1, Invariance, PTL

(* Keys and declarations have one owner each and are in use while they are *)
(* owned, whatever fails and whatever is released in between.              *)
THEOREM Ownership == Spec => []NothingReleasedIsUsed
<1>1. IInv => NothingReleasedIsUsed  BY DEF IInv, NothingReleasedIsUsed
<1>2. QED  BY <1>1, Invariance, PTL

(* A part is drawn as asked unless an overlay, a refusal (of a buffer or of *)
(* a declaration) or the release of the current vertex buffer came between *)
(* (Display.cpp:376-430, 762-773).                                         *)
THEOREM Drawing == Spec => DrawAsAsked
<1>1. IInv => [\A p \in Parts : DrawnAsAsked(p)]_vars
  <2> SUFFICES ASSUME IInv, NEW p \in Parts, vertexKey[p] # 0, indexKey[MeshOf[p]] # 0,
                      Drawn(vertexKey[p], indexKey[MeshOf[p]])
               PROVE  /\ ~undone'.vertex => /\ device'.stream = vertexBuffers[vertexKey[p]].buffer
                                            /\ \/ undone'.decl
                                               \/ device'.decl = vertexBuffers[vertexKey[p]].decl
                      /\ ~undone'.index => device'.indices = indexBuffers[indexKey[MeshOf[p]]]
    BY DEF DrawnAsAsked
  <2> DEFINE k == vertexKey[p]
             i == indexKey[MeshOf[p]]
  <2>1. PICK d \in DeviceDeclsFor(k) :
          /\ device' = [stream |-> StreamFor(k), indices |-> IndicesFor(i), decl |-> d.decl]
          /\ undone' = [vertex |-> undone.vertex /\ current.vertex = k,
                        index |-> undone.index /\ current.index = i, decl |-> d.undone]
    BY DEF Drawn
  <2>2. k \in vertexInUse /\ vertexBuffers[k].decl \in alive /\ vertexBuffers[k].decl \in Nat \ {0}
    BY DEF IInv, KeysOwned, DeclsOwned, TypeOK
  <2>3. ~undone'.vertex =>
          /\ StreamFor(k) = vertexBuffers[k].buffer
          /\ ~d.undone => d.decl = vertexBuffers[k].decl
    <3>1. CASE current.vertex = k
      <4>1. d = [decl |-> device.decl, undone |-> undone.decl]
        BY <3>1 DEF DeviceDeclsFor, DeclBefore
      <4>2. d.decl = device.decl /\ d.undone = undone.decl /\ undone'.vertex = undone.vertex
        BY <2>1, <3>1, <4>1 DEF IInv, TypeOK
      <4>3. QED  BY <2>2, <3>1, <4>2 DEF StreamFor, IInv, Bound, VertexBound, DeclBound
    <3>2. CASE current.vertex # k
      BY <2>1, <2>2, <3>2, DeclsAfterSetIs DEF StreamFor, DeviceDeclsFor, IInv, Bound
    <3>3. QED  BY <3>1, <3>2
  <2>4. ~undone'.index => IndicesFor(i) = indexBuffers[i]
    <3>1. CASE current.index # i  BY <3>1 DEF IndicesFor
    <3>2. CASE current.index = i  BY <2>1, <3>2 DEF IndicesFor, IInv, Bound, IndexBound
    <3>3. QED  BY <3>1, <3>2
  <2>5. QED  BY <2>1, <2>3, <2>4
<1>2. QED  BY <1>1, Invariance, PTL DEF DrawAsAsked

-----------------------------------------------------------------------------
(* The states of the device.  The device has what the cache says           *)
(* (CacheIsDevice), and what was noted in a pass is what the device had    *)
(* when the pass began (Noting) and what was asked for outside (Outside);  *)
(* neither is known after a call that the device refused.                  *)
CacheIsDevice == \A s \in States \ refused : globalStates[s] # NotSet => deviceStates[s] = globalStates[s]

(* What the effect asked for is there. *)
Asked ==
  inPass => \A s \in States \ refused : asked[s] # NotSet => deviceStates[s] = asked[s]

(* The pass can be undone: what it changed was noted as it was before.     *)
Noting ==
  inPass => \A s \in States \ again :
    IF currentStates[s] = NotSet THEN deviceStates[s] = before[s] ELSE currentStates[s] = before[s]

(* What was asked for outside is there between the passes, and is there or *)
(* was noted within one.                                                   *)
Outside ==
  \A s \in RenderStates \ strayed :
    IF inPass /\ currentStates[s] # NotSet
    THEN currentStates[s] = outside[s] /\ asked[s] # NotSet
    ELSE deviceStates[s] = outside[s]

StatesIInv == StatesTypeOK /\ CacheIsDevice /\ Asked /\ Noting /\ Outside

-----------------------------------------------------------------------------
(* There is a value for NotSet: no set has everything in it.               *)
LEMMA NotSetIsNoValue == NotSet \notin Values
<1> DEFINE R == {x \in Values : x \notin x}
<1>1. ASSUME R \in Values  PROVE FALSE
  <2>1. CASE R \in R
    <3>1. R \notin R  BY <2>1
    <3>2. QED  BY <2>1, <3>1
  <2>2. CASE R \notin R
    <3>1. R \in R  BY <1>1, <2>2
    <3>2. QED  BY <2>2, <3>1
  <2>3. QED  BY <2>1, <2>2
<1>2. \E n : n \notin Values  BY <1>1
<1>3. QED  BY <1>2 DEF NotSet

LEMMA StatesInitHolds == StatesInit => StatesIInv
BY NotSetIsNoValue DEF StatesInit, StatesIInv, StatesTypeOK, Maps, Nothing, CacheIsDevice, Asked, Noting, Outside, States

-----------------------------------------------------------------------------
(* The ways a request for a state may go.                                  *)
Request(s, v) ==
  Skip(s, v) \/ GetRefused(s, v) \/ SetRefused(s, v) \/ SetDone(s, v)

(* A request leaves all other states alone, and keeps types and cache.     *)
LEMMA RequestKeeps ==
  ASSUME StatesTypeOK, CacheIsDevice, NEW s \in States, NEW v \in Values, Request(s, v)
  PROVE  /\ deviceStates' \in [States -> Values] /\ globalStates' \in Maps /\ currentStates' \in Maps
         /\ again' \subseteq States /\ refused' \subseteq States
         /\ CacheIsDevice'
         /\ \A t \in States \ {s} :
              /\ deviceStates'[t] = deviceStates[t] /\ currentStates'[t] = currentStates[t]
              /\ (t \in again' <=> t \in again) /\ (t \in refused' <=> t \in refused)
         /\ s \notin refused' => deviceStates'[s] = v
<1>1. CASE Skip(s, v)
  BY <1>1, NotSetIsNoValue DEF Skip, Duplicate, StatesTypeOK, CacheIsDevice
<1>2. CASE GetRefused(s, v)
  BY <1>2 DEF GetRefused, StatesTypeOK, CacheIsDevice
<1>3. CASE SetRefused(s, v)
  BY <1>3 DEF SetRefused, Noted, StatesTypeOK, Maps, CacheIsDevice
<1>4. CASE SetDone(s, v)
  BY <1>4 DEF SetDone, Noted, StatesTypeOK, Maps, CacheIsDevice
<1>5. QED  BY <1>1, <1>2, <1>3, <1>4 DEF Request

LEMMA SetOutsideKeeps ==
  ASSUME StatesIInv, NEW s \in RenderStates, NEW v \in Values, SetOutside(s, v)
  PROVE  StatesIInv'
<1>1. s \in States /\ Request(s, v) /\ ~inPass /\ ~inPass'
  BY DEF States, Request, SetOutside, StatesIInv, StatesTypeOK
<1>2. StatesTypeOK /\ CacheIsDevice  BY DEF StatesIInv
<1> DEFINE Kept ==
      /\ deviceStates' \in [States -> Values] /\ globalStates' \in Maps /\ currentStates' \in Maps
      /\ again' \subseteq States /\ refused' \subseteq States
      /\ CacheIsDevice'
      /\ \A t \in States \ {s} : deviceStates'[t] = deviceStates[t]
      /\ s \notin refused' => deviceStates'[s] = v
<1>3. Kept  BY <1>1, <1>2, RequestKeeps
<1>4. /\ outside' = [outside EXCEPT ![s] = v]
      /\ UNCHANGED <<inPass, asked, before>>
      /\ strayed' \in {strayed \cup {s}, strayed \ {s}}
      /\ s \in strayed' \/ s \notin refused'
  BY DEF SetOutside, SetDone, Skip, GetRefused, SetRefused
<1>5. StatesTypeOK'  BY <1>1, <1>2, <1>3, <1>4 DEF StatesTypeOK
<1>6. Outside'
  BY <1>1, <1>2, <1>3, <1>4 DEF StatesIInv, Outside, States, StatesTypeOK
<1>7. QED  BY <1>1, <1>3, <1>5, <1>6 DEF StatesIInv, Asked, Noting

LEMMA BeginPassKeeps ==
  ASSUME StatesIInv, BeginPass
  PROVE  StatesIInv'
<1>1. StatesTypeOK'
  BY DEF StatesIInv, BeginPass, StatesTypeOK, Maps, Nothing
<1>2. CacheIsDevice'
  BY DEF StatesIInv, BeginPass, CacheIsDevice
<1>3. Asked' /\ Noting' /\ Outside'
  BY NotSetIsNoValue DEF StatesIInv, BeginPass, Asked, Noting, Outside, Nothing, States
<1>4. QED  BY <1>1, <1>2, <1>3 DEF StatesIInv

LEMMA SetInPassKeeps ==
  ASSUME StatesIInv, NEW s \in States, NEW v \in Values, SetInPass(s, v)
  PROVE  StatesIInv'
<1>1. Request(s, v) /\ inPass /\ inPass' /\ (s \in RenderStates => asked[s] = NotSet)
  BY DEF Request, SetInPass
<1>2. StatesTypeOK /\ CacheIsDevice /\ v # NotSet  BY NotSetIsNoValue DEF StatesIInv
<1>3. /\ deviceStates' \in [States -> Values] /\ globalStates' \in Maps /\ currentStates' \in Maps
      /\ again' \subseteq States /\ refused' \subseteq States
      /\ CacheIsDevice'
      /\ \A t \in States \ {s} :
           /\ deviceStates'[t] = deviceStates[t] /\ currentStates'[t] = currentStates[t]
           /\ (t \in again' <=> t \in again) /\ (t \in refused' <=> t \in refused)
      /\ s \notin refused' => deviceStates'[s] = v
  BY <1>1, <1>2, RequestKeeps
<1>4. asked' = [asked EXCEPT ![s] = v] /\ UNCHANGED <<before, outside, strayed>>
  BY DEF SetInPass
<1>5. \/ currentStates'[s] = currentStates[s] /\ deviceStates'[s] = deviceStates[s] /\ (s \in again' <=> s \in again)
      \/ currentStates'[s] = deviceStates[s] /\ (currentStates[s] # NotSet => s \in again')
  BY <1>1, <1>2 DEF Request, Skip, GetRefused, SetRefused, SetDone, Noted, StatesTypeOK, Maps
<1>6. StatesTypeOK'  BY <1>1, <1>2, <1>3, <1>4 DEF StatesTypeOK, Maps
<1>7. Asked'
  <2>1. ASSUME NEW t \in States \ refused', asked'[t] # NotSet
        PROVE  deviceStates'[t] = asked'[t]
    <3>1. CASE t = s
      BY <1>2, <1>3, <1>4, <2>1, <3>1 DEF StatesTypeOK, Maps
    <3>2. CASE t # s
      <4>1. asked'[t] = asked[t] /\ deviceStates'[t] = deviceStates[t] /\ t \notin refused
        BY <1>2, <1>3, <1>4, <2>1, <3>2 DEF StatesTypeOK, Maps
      <4>2. QED  BY <1>1, <2>1, <4>1 DEF StatesIInv, Asked
    <3>3. QED  BY <3>1, <3>2
  <2>2. QED  BY <2>1 DEF Asked
<1>8. Noting'
  <2>1. ASSUME NEW t \in States \ again'
        PROVE  IF currentStates'[t] = NotSet THEN deviceStates'[t] = before'[t]
                                       ELSE currentStates'[t] = before'[t]
    <3>1. CASE t = s /\ currentStates'[s] = currentStates[s] /\ deviceStates'[s] = deviceStates[s]
                     /\ (s \in again' <=> s \in again)
      BY <1>1, <1>4, <2>1, <3>1 DEF StatesIInv, Noting
    <3>2. CASE t = s /\ currentStates'[s] = deviceStates[s] /\ (currentStates[s] # NotSet => s \in again')
      <4>1. currentStates[s] = NotSet /\ deviceStates[s] # NotSet
        BY <1>2, <2>1, <3>2, NotSetIsNoValue DEF StatesTypeOK
      <4>2. s \notin again => deviceStates[s] = before[s]
        BY <1>1, <4>1 DEF StatesIInv, Noting
      <4>3. s \notin again
        BY <1>1, <1>2, <2>1, <3>2, <4>1
           DEF Request, Skip, GetRefused, SetRefused, SetDone, Noted
      <4>4. QED  BY <1>4, <3>2, <4>1, <4>2, <4>3
    <3>3. CASE t # s
      <4>1. currentStates'[t] = currentStates[t] /\ deviceStates'[t] = deviceStates[t] /\ t \notin again
        BY <1>3, <2>1, <3>3
      <4>2. QED  BY <1>1, <1>4, <4>1 DEF StatesIInv, Noting
    <3>4. QED  BY <1>5, <3>1, <3>2, <3>3
  <2>2. QED  BY <2>1 DEF Noting
<1>9. Outside'
  BY <1>1, <1>2, <1>3, <1>4, <1>5, NotSetIsNoValue DEF StatesIInv, Outside, StatesTypeOK, States, Maps
<1>10. QED  BY <1>3, <1>6, <1>7, <1>8, <1>9 DEF StatesIInv

(* What was noted is put back, and is what it was.                         *)
LEMMA EndPassRestores ==
  ASSUME StatesIInv, EndPass
  PROVE  /\ StatesIInv'
         /\ \A s \in States \ (again \cup refused') : deviceStates'[s] = before[s]
<1>1. PICK kept \in SUBSET Saved :
        /\ deviceStates' = [s \in States |-> IF s \in Saved \ kept THEN currentStates[s] ELSE deviceStates[s]]
        /\ refused' = (refused \ Saved) \cup kept
        /\ strayed' = strayed \cup kept
  BY DEF EndPass
<1>2. /\ inPass /\ ~inPass'
      /\ globalStates' = [s \in States |-> IF s \in Saved THEN currentStates[s] ELSE globalStates[s]]
      /\ UNCHANGED <<currentStates, asked, before, again, outside>>
  BY DEF EndPass
<1>3. \A s \in Saved : s \in States /\ currentStates[s] \in Values
  BY DEF StatesIInv, Saved, StatesTypeOK, Maps
<1>4. StatesTypeOK'
  <2>1. deviceStates' \in [States -> Values]
    BY <1>1, <1>3 DEF StatesIInv, StatesTypeOK
  <2>2. globalStates' \in Maps
    BY <1>2, <1>3 DEF StatesIInv, StatesTypeOK, Maps
  <2>3. Saved \subseteq States  BY DEF Saved
  <2>4. refused' \subseteq States /\ strayed' \subseteq States
    <3>1. kept \subseteq States /\ refused \subseteq States /\ strayed \subseteq States
      BY <2>3 DEF StatesIInv, StatesTypeOK
    <3>2. QED  BY <1>1, <3>1
  <2>5. inPass' \in BOOLEAN  BY DEF EndPass
  <2>6. /\ currentStates' \in Maps /\ asked' \in Maps /\ before' \in [States -> Values]
        /\ again' \subseteq States /\ outside' \in [States -> Values]
    BY <1>2 DEF StatesIInv, StatesTypeOK
  <2>7. QED  BY <2>1, <2>2, <2>4, <2>5, <2>6 DEF StatesTypeOK, Maps
<1>5. CacheIsDevice'
  BY <1>1, <1>2, <1>3 DEF StatesIInv, CacheIsDevice, StatesTypeOK
<1>6. Outside'
  BY <1>1, <1>2, <1>3 DEF StatesIInv, Outside, Saved, States
<1>7. \A s \in States \ (again \cup refused') : deviceStates'[s] = before[s]
  BY <1>1, <1>2, <1>3 DEF StatesIInv, Noting, Saved
<1>8. QED  BY <1>2, <1>4, <1>5, <1>6, <1>7 DEF StatesIInv, Asked, Noting

LEMMA StatesStepKeeps ==
  ASSUME StatesIInv, [StatesNext]_statesVars
  PROVE  StatesIInv'
<1>1. ASSUME NEW s \in RenderStates, NEW v \in Values, SetOutside(s, v)  PROVE StatesIInv'
  BY <1>1, SetOutsideKeeps
<1>2. CASE BeginPass  BY <1>2, BeginPassKeeps
<1>3. ASSUME NEW s \in States, NEW v \in Values, SetInPass(s, v)  PROVE StatesIInv'
  BY <1>3, SetInPassKeeps
<1>4. CASE EndPass  BY <1>4, EndPassRestores
<1>5. CASE UNCHANGED statesVars
  BY <1>5 DEF statesVars, StatesIInv, StatesTypeOK, CacheIsDevice, Asked, Noting, Outside
<1>6. QED  BY <1>1, <1>2, <1>3, <1>4, <1>5 DEF StatesNext

LEMMA StatesInvariance == StatesSpec => []StatesIInv
<1>1. QED  BY StatesInitHolds, StatesStepKeeps, PTL DEF StatesSpec

-----------------------------------------------------------------------------
(* The manager's maps and the device keep their types (States).            *)
THEOREM StatesTypeCorrect == StatesSpec => []StatesTypeOK
<1>1. StatesIInv => StatesTypeOK  BY DEF StatesIInv
<1>2. QED  BY <1>1, StatesInvariance, PTL

(* A pass is drawn with what its effect asked for, and for the rest with   *)
(* what was asked for outside the passes (SetRenderState, EndPass).        *)
THEOREM PassesDrawnAsAsked == StatesSpec => []PassDrawnAsAsked
<1>1. StatesIInv => PassDrawnAsAsked
  BY DEF StatesIInv, Asked, Outside, PassDrawnAsAsked
<1>2. QED  BY <1>1, StatesInvariance, PTL

(* A pass leaves the device as it found it, but for what it changed twice  *)
(* and what the device refused (BeginPass, EndPass).                       *)
THEOREM PassesRestore == StatesSpec => PassRestores
<1>1. ASSUME StatesIInv, [StatesNext]_statesVars, inPass, ~inPass'
      PROVE  \A s \in States \ (again \cup refused') : deviceStates'[s] = before[s]
  <2>1. EndPass
    BY <1>1 DEF StatesNext, statesVars, SetOutside, BeginPass, SetInPass
  <2>2. QED  BY <1>1, <2>1, EndPassRestores
<1>2. StatesIInv /\ [StatesNext]_statesVars =>
        [inPass /\ ~inPass' =>
           \A s \in States \ (again \cup refused') : deviceStates'[s] = before[s]]_statesVars
  BY <1>1
<1>3. QED  BY <1>2, StatesInvariance, PTL DEF StatesSpec, PassRestores
=============================================================================
