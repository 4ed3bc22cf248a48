----------------------------- MODULE Landscape -----------------------------
(***************************************************************************)
(* Landscape/Landscape.cpp, LandscapeBuffer.cpp and LandscapeChunk.cpp:    *)
(* a square terrain of grid x grid chunks of quad x quad squares, held in  *)
(* one vertex buffer per level of detail and one index buffer with one     *)
(* triangle strip per level, which every chunk of the level draws from its *)
(* own first vertex.                                                       *)
(*                                                                         *)
(* Open builds it in stages, each of which may fail in the device or for   *)
(* want of a file; Close takes down what is there.  A position is a pair   *)
(* <<column, row>> in units of the finest level; heights are left out.     *)
(***************************************************************************)
EXTENDS Integers, Sequences, FiniteSets, SequencesExt, FiniteSetsExt

CONSTANTS
  Quads,   \* grid_chunk_size of the scene files: squares along a chunk
  Grids    \* grid_size: chunks along the terrain

(* Two or more squares: with one, the last level of a grid of two or more  *)
(* would have one vertex per row (VertexPerRow) and two in its buffer.     *)
ASSUME SizeAssumption == Quads \subseteq Nat \ {0, 1} /\ Grids \subseteq Nat \ {0}

VARIABLES
  stage,        \* how far Open has come
  quad, grid,   \* GlobalInfo::m_uQuadSize, m_uGridSize
  format,       \* GlobalInfo::m_eFormat
  indexes,      \* m_pIndexes: <<>> for NULL, else <<the array>>
  indexBuffer,  \* m_uIndexBuffer
  independent,  \* m_vVertexesIndependent: how many arrays it holds
  vertexes,     \* m_vVertexes: how many arrays it holds
  buffers,      \* m_vVertexBuffers
  boxes,        \* m_f3AABB of each chunk of the tree of m_vGrid[0]
  inTree,       \* the chunks in the scene's octree
  arrays,       \* arrays allocated by Open and not deleted, m_pLODs apart
  vertexKeys, indexKeys  \* keys in use in the display's two ObjectCreators

config == <<quad, grid, format>>
memory == <<indexes, independent, vertexes, arrays>>
device == <<indexBuffer, buffers, vertexKeys, indexKeys>>
tree == <<boxes, inTree>>
vars == <<stage, config, memory, device, tree>>

chunks == DOMAIN boxes
-----------------------------------------------------------------------------
(* GlobalInfo::Create.                                                     *)

PowersOf2 == {2 ^ n : n \in 0 .. 15}
Level(size) == CHOOSE n \in 0 .. 15 : 2 ^ n = size
LODs == 0 .. Level(grid)
Increment(k) == 2 ^ k

StripSize == quad * ((quad + 1) * 2) + 2 * (quad - 1)
StartIndex(k) == k * StripSize

RowOfVertices == quad * grid + 1

(* CreateVertexBufferIndependent: n | 1 makes the halved count odd again.  *)
OrOne(n) == IF n % 2 = 0 THEN n + 1 ELSE n
(* Mutant: the halved count is not made odd.                               *)
VertexPerRowHalved(k) == RowOfVertices \div Increment(k)
VertexPerRow(k) == OrOne(RowOfVertices \div Increment(k))
NumVertices(k) == VertexPerRow(k) * (quad + 1) - (VertexPerRow(k) - (quad + 1))

(* Where the fill loops of LandscapeBuffer.cpp put the vertices of level   *)
(* k: they step over columns, then rows, by the level's increment.         *)
FilledPerRow(k) == Cardinality({i \in 0 .. RowOfVertices - 1 : i % Increment(k) = 0})
Position(k, v) ==
  <<(v % FilledPerRow(k)) * Increment(k), (v \div FilledPerRow(k)) * Increment(k)>>

(* CreateIndexBuffer: bands of one row of squares; two repeated vertices   *)
(* join a band to the next one.                                            *)
Band(j, perRow) ==
  LET Pair(i) == <<i + j * perRow, i + (j + 1) * perRow>>
  IN FlattenSeq([i \in 1 .. quad + 1 |-> Pair(i - 1)])

(* Mutant: the two repeated vertices come in the other order.              *)
JunctionSwapped(j, perRow) ==
  IF j = quad - 1 THEN <<>> ELSE <<(j + 1) * perRow, quad + (j + 1) * perRow>>

Junction(j, perRow) ==
  IF j = quad - 1 THEN <<>> ELSE <<quad + (j + 1) * perRow, (j + 1) * perRow>>

Strip(k) ==
  FlattenSeq([j \in 1 .. quad |->
                Band(j - 1, VertexPerRow(k)) \o Junction(j - 1, VertexPerRow(k))])

AllStrips == FlattenSeq([k \in 1 .. Cardinality(LODs) |-> Strip(k - 1)])
-----------------------------------------------------------------------------
(* Chunks.                                                                 *)

(* Mutant: the children of all chunks start at the terrain's corner.       *)
SubChunksAtCorner(c) ==
  [n \in 1 .. 4 |-> [lod |-> c.lod - 1, x |-> c.x + ((n - 1) % 2), z |-> c.z + ((n - 1) \div 2)]]

(* In the order of m_pChildren: north west, north east, south west, ...    *)
SubChunks(c) ==
  [n \in 1 .. 4 |-> [lod |-> c.lod - 1, x |-> c.x * 2 + ((n - 1) % 2), z |-> c.z * 2 + ((n - 1) \div 2)]]

(* CreateChunks and LandscapeChunk::Create: the chunk of the last level    *)
(* and, below it, four children for every chunk.                           *)
TopChunk == [lod |-> Level(grid), x |-> 0, z |-> 0]
ChunkTree ==
  LET Row[k \in LODs] ==
        IF k = Level(grid) THEN {TopChunk} ELSE UNION {ToSet(SubChunks(c)) : c \in Row[k + 1]}
  IN UNION {Row[k] : k \in LODs}

StartVertex(c) == c.x * quad + c.z * quad * VertexPerRow(c.lod)

(* The i-th vertex the chunk draws, an index into its level's buffer.      *)
DrawnVertex(c, i) == StartVertex(c) + indexes[1][StartIndex(c.lod) + i]

(* LandscapeChunk::Create: the box of what the chunk draws.                *)
Box(c) ==
  LET Along(d) == {Position(c.lod, DrawnVertex(c, i))[d] : i \in 1 .. StripSize}
  IN [low |-> <<Min(Along(1)), Min(Along(2))>>, high |-> <<Max(Along(1)), Max(Along(2))>>]

(* A point is a pair of halves of the finest unit.                         *)
NotInChunk(c, p) ==
  \E d \in {1, 2} : p[d] < 2 * boxes[c].low[d] \/ p[d] > 2 * boxes[c].high[d]

(* GetWaterIndex from the top chunk down: <<>> when it returns false, else *)
(* the vertex whose water level it answers, or Asserted when no child of a *)
(* chunk that has the point has it: the assertion fails.                   *)
Asserted == <<-1>>

GetWaterIndex(p) ==
  LET Answer[c \in chunks] ==
        IF NotInChunk(c, p) THEN <<>>
        ELSE IF c.lod = 0 THEN <<(p[2] \div 2) * VertexPerRow(0) + (p[1] \div 2)>>
        ELSE LET found == {n \in 1 .. 4 : Answer[SubChunks(c)[n]] # <<>>}
             IN IF found = {} THEN Asserted ELSE Answer[SubChunks(c)[Min(found)]]
  IN Answer[TopChunk]
-----------------------------------------------------------------------------
(* Opening and closing.  The chunks of level 0 are the octree's objects.   *)

NextKey(keys) == CHOOSE key \in 1 .. Cardinality(keys) + 1 : key \notin keys

(* Mutant: chunks are deleted and stay in the octree.                      *)
CloseKeepsTree ==
  /\ boxes' = <<>> /\ inTree' = inTree
  /\ vertexKeys' = vertexKeys \ ToSet(buffers) /\ indexKeys' = indexKeys \ {indexBuffer}
  /\ buffers' = <<>> /\ indexBuffer' = 0
  /\ arrays' = arrays - independent - vertexes - (IF indexes = <<>> THEN 0 ELSE 1)
  /\ independent' = 0 /\ vertexes' = 0 /\ indexes' = <<>>

Close ==
  /\ boxes' = <<>> /\ inTree' = inTree \ chunks
  /\ vertexKeys' = vertexKeys \ ToSet(buffers) /\ indexKeys' = indexKeys \ {indexBuffer}
  /\ buffers' = <<>> /\ indexBuffer' = 0
  /\ arrays' = arrays - independent - vertexes - (IF indexes = <<>> THEN 0 ELSE 1)
  /\ independent' = 0 /\ vertexes' = 0 /\ indexes' = <<>>

Init ==
  /\ stage = "closed" /\ quad = 0 /\ grid = 0 /\ format = "unknown"
  /\ indexes = <<>> /\ indexBuffer = 0 /\ independent = 0 /\ vertexes = 0
  /\ buffers = <<>> /\ boxes = <<>> /\ inTree = {} /\ arrays = 0
  /\ vertexKeys = {} /\ indexKeys = {}

Release ==
  /\ stage \in {"open", "failed"}
  /\ Close
  /\ stage' = "closed"
  /\ UNCHANGED config

(* Close, then GlobalInfo::Create: sizes that are no powers of two are     *)
(* refused.                                                                *)
Open ==
  /\ stage \in {"closed", "open", "failed"}
  /\ Close
  /\ \E q \in Quads, g \in Grids, f \in {"default", "liquid"} :
       /\ quad' = q /\ grid' = g /\ format' = f
       /\ stage' = IF {q, g} \subseteq PowersOf2 THEN "created" ELSE "failed"

(* The array stays when the device refuses the buffer, and the buffer      *)
(* when it refuses the indexes.                                            *)
CreateIndexBuffer ==
  /\ stage = "created"
  /\ indexes' = <<AllStrips>> /\ arrays' = arrays + 1
  /\ \/ stage' = "failed" /\ UNCHANGED <<indexBuffer, indexKeys>>
     \/ /\ indexBuffer' = NextKey(indexKeys) /\ indexKeys' = indexKeys \cup {indexBuffer'}
        /\ stage' \in {"indexed", "failed"}
  /\ UNCHANGED <<config, independent, vertexes, buffers, vertexKeys, tree>>

CreateVertexBufferIndependent ==
  /\ stage = "indexed"
  /\ independent' = Cardinality(LODs) /\ arrays' = arrays + Cardinality(LODs)
  /\ stage' = "shaped"
  /\ UNCHANGED <<config, indexes, vertexes, device, tree>>

(* LoadHeightmap and LandscapeLayerManager::Get, when the scene names the  *)
(* files: they fill the arrays, or fail.                                   *)
LoadHeightmap ==
  /\ stage = "shaped"
  /\ stage' \in {"raised", "failed"}
  /\ UNCHANGED <<config, memory, device, tree>>

(* Mutant: a buffer whose data the device refused stays in use.            *)
CreateVertexBufferKeyLost ==
  LET key == NextKey(vertexKeys)
      k == Len(buffers)
      Keep == /\ vertexKeys' = vertexKeys \cup {key} /\ buffers' = Append(buffers, key)
              /\ vertexes' = vertexes + 1 /\ arrays' = arrays + 1
  IN /\ stage = "raised" /\ k \in LODs
     /\ \/ Keep /\ stage' = IF k = Level(grid) THEN "filled" ELSE "raised"
        \/ UNCHANGED <<vertexes, arrays, buffers, vertexKeys>> /\ stage' = "failed"
        \/ /\ format = "default" /\ vertexKeys' = vertexKeys \cup {key} /\ stage' = "failed"
           /\ UNCHANGED <<vertexes, arrays, buffers>>
     /\ UNCHANGED <<config, indexes, independent, indexBuffer, indexKeys, tree>>

(* CreateVertexBufferDefault and CreateVertexBufferLiquid, one level: when *)
(* the device refuses the data, Default gives the key and the array back,  *)
(* Liquid does not look.                                                   *)
CreateVertexBuffer ==
  LET key == NextKey(vertexKeys)
      k == Len(buffers)
      Keep == /\ vertexKeys' = vertexKeys \cup {key} /\ buffers' = Append(buffers, key)
              /\ vertexes' = vertexes + 1 /\ arrays' = arrays + 1
  IN /\ stage = "raised" /\ k \in LODs
     /\ \/ Keep /\ stage' = IF k = Level(grid) THEN "filled" ELSE "raised"
        \/ UNCHANGED <<vertexes, arrays, buffers, vertexKeys>> /\ stage' = "failed"
     /\ UNCHANGED <<config, indexes, independent, indexBuffer, indexKeys, tree>>

CreateChunks ==
  /\ stage = "filled"
  /\ boxes' = [c \in ChunkTree |-> Box(c)]
  /\ inTree' = inTree \cup {c \in ChunkTree : c.lod = 0}
  /\ stage' = "open"
  /\ UNCHANGED <<config, memory, device>>

Next ==
  \/ Open \/ CreateIndexBuffer \/ CreateVertexBufferIndependent \/ LoadHeightmap
  \/ CreateVertexBuffer \/ CreateChunks \/ Release

Spec == Init /\ [][Next]_vars
-----------------------------------------------------------------------------
(* Properties.                                                             *)

(* The variables have their types; no key is 0 and none is used twice.     *)
TypeOK ==
  /\ stage \in {"closed", "created", "indexed", "shaped", "raised", "filled", "open", "failed"}
  /\ quad \in Quads \cup {0} /\ grid \in Grids \cup {0}
  /\ format \in {"unknown", "default", "liquid"}
  /\ indexes \in Seq(Seq(Nat)) /\ independent \in Nat /\ vertexes \in Nat /\ arrays \in Nat
  /\ vertexKeys \subseteq Nat \ {0} /\ buffers \in Seq(vertexKeys) /\ IsInjective(buffers)
  /\ indexKeys \subseteq Nat \ {0} /\ indexBuffer \in indexKeys \cup {0}
  /\ inTree \subseteq chunks

(* What Open allocated, whatever it failed at, is what Close gives back:   *)
(* each array and each key in use is held by a member Close looks at, and  *)
(* a closed landscape has none, so Open may be tried again for ever        *)
(* (Landscape.cpp, Open and Close; LandscapeBuffer.cpp).                   *)
OneOwner ==
  /\ vertexKeys = ToSet(buffers) /\ indexKeys = {indexBuffer} \ {0}
  /\ arrays = independent + vertexes + (IF indexes = <<>> THEN 0 ELSE 1)
  /\ stage = "closed" => vertexKeys \cup indexKeys = {} /\ arrays = 0 /\ inTree = {}
  /\ inTree = {c \in chunks : c.lod = 0}

(* The triangles of a level: D3D turns every second one of a strip round,  *)
(* and those without area show nothing.                                    *)
Triangles(k) ==
  LET Corner(c, i) == Position(k, DrawnVertex(c, i))
      Corners(c, i) == IF i % 2 = 1 THEN <<Corner(c, i), Corner(c, i + 1), Corner(c, i + 2)>>
                       ELSE <<Corner(c, i + 1), Corner(c, i), Corner(c, i + 2)>>
  IN {t \in {[chunk |-> c, at |-> i, corners |-> Corners(c, i)] :
               c \in {d \in chunks : d.lod = k}, i \in 1 .. StripSize - 2} :
        Cardinality(ToSet(t.corners)) = 3}

Squares(k) ==
  {<<x * Increment(k), z * Increment(k)>> : x, z \in 0 .. (quad * grid) \div Increment(k) - 1}

(* Every level of detail covers the terrain: each of its squares is drawn  *)
(* by one chunk, as the two halves of the square on one side of the same   *)
(* diagonal, and nothing else is drawn.  Both halves turn the same way, so *)
(* none is culled (CreateIndexBuffer, LandscapeChunk::Create and Render).  *)
TerrainTiled ==
  stage = "open" => \A k \in LODs :
    LET drawn == Triangles(k)
        n == Increment(k)
        Halves(s) ==
          { <<s, <<s[1], s[2] + n>>, <<s[1] + n, s[2]>> >>,
            << <<s[1] + n, s[2]>>, <<s[1], s[2] + n>>, <<s[1] + n, s[2] + n>> >> }
    IN /\ {t.corners : t \in drawn} = UNION {Halves(s) : s \in Squares(k)}
       /\ Cardinality(drawn) = 2 * Cardinality(Squares(k))
       /\ \A c \in {d \in chunks : d.lod = k} :
            Cardinality({t \in drawn : t.chunk = c}) = 2 * quad * quad

(* The device reads within its buffers: a vertex drawn is one of its level,*)
(* and lies in the window of NumVertices from the chunk's first that       *)
(* DrawIndexedPrimitive is told (LandscapeChunk::Render).                  *)
DrawInBounds ==
  stage = "open" => \A c \in chunks : \A i \in 1 .. StripSize :
    /\ DrawnVertex(c, i) < VertexPerRow(c.lod) * VertexPerRow(c.lod)
    /\ DrawnVertex(c, i) - StartVertex(c) < NumVertices(c.lod)

(* A point of the terrain, on an edge between chunks too, has a water      *)
(* level: that of the vertex at the corner of its square; the assertion of *)
(* LandscapeChunk.cpp:382 never fails, and a point outside has none        *)
(* (LandscapeChunk::GetWaterIndex).                                        *)
WaterExact ==
  stage = "open" =>
    LET Size == 2 * quad * grid
    IN /\ \A x, z \in 0 .. Size :
            LET answer == GetWaterIndex(<<x, z>>)
            IN /\ answer \notin {<<>>, Asserted}
               /\ Position(0, answer[1]) = <<x \div 2, z \div 2>>
       /\ \A x \in 0 .. Size : GetWaterIndex(<<x, Size + 1>>) = <<>>
=============================================================================
