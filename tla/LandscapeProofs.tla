-------------------------- MODULE LandscapeProofs --------------------------
(***************************************************************************)
(* The properties of a landscape, proved for every size of quads and grids.*)
(*                                                                         *)
(* First its ownership of arrays, keys and chunks.  OneOwner needs to know *)
(* how far Open has come: a stage takes for granted that the members it    *)
(* assigns hold nothing yet, or it would lose what they hold (Stages), and *)
(* a key is one that is not in use.                                        *)
(*                                                                         *)
(* Then its geometry: the index buffer and the tree of chunks in closed    *)
(* form, which is what Open builds (Built), and from the closed form that  *)
(* the device reads within its buffers, that every point has its water     *)
(* level, and that every level covers the terrain once.                    *)
(***************************************************************************)
EXTENDS Landscape, FiniteSetTheorems, WellFoundedInduction, SequenceTheorems, TLAPS

Types ==
  /\ stage \in {"closed", "created", "indexed", "shaped", "raised", "filled", "open", "failed"}
  /\ independent \in Nat /\ vertexes \in Nat
  /\ vertexKeys \subseteq Nat \ {0} /\ IsFiniteSet(vertexKeys)
  /\ indexKeys \subseteq Nat \ {0} /\ IsFiniteSet(indexKeys)
  /\ buffers \in Seq(Nat)

(* The arrays and keys of the members Close looks at. *)
Owned ==
  /\ vertexKeys = ToSet(buffers) /\ indexKeys = {indexBuffer} \ {0}
  /\ arrays = independent + vertexes + (IF indexes = <<>> THEN 0 ELSE 1)
  /\ inTree = {c \in chunks : c.lod = 0}

Stages ==
  /\ stage \in {"created", "indexed"} =>
       grid \in PowersOf2 /\ independent = 0 /\ vertexes = 0 /\ buffers = <<>>
  /\ stage \in {"closed", "created"} => indexes = <<>> /\ indexBuffer = 0
  /\ stage = "closed" => independent = 0 /\ vertexes = 0 /\ buffers = <<>>
  /\ stage # "open" => boxes = <<>>

IInv == Types /\ Owned /\ Stages

-----------------------------------------------------------------------------
(* The empty sequence has no elements.                                     *)
LEMMA NothingIn == \A x : x \notin ToSet(<<>>)
<1>1. DOMAIN <<>> = {}  OBVIOUS
<1>2. QED  BY <1>1 DEF ToSet

(* So its set is empty.                                                    *)
LEMMA NoKeys == ToSet(<<>>) = {}
<1>1. ToSet(<<>>) = {}  BY NothingIn
<1>2. QED  BY <1>1

(* And so is its domain.                                                   *)
LEMMA NoDomain == DOMAIN <<>> = {}
OBVIOUS

(* What a list holds with one more.                                        *)
LEMMA AppendedSet ==
  ASSUME NEW s \in Seq(Nat), NEW key
  PROVE  ToSet(Append(s, key)) = ToSet(s) \cup {key}
<1>1. /\ DOMAIN Append(s, key) = 1 .. Len(s) + 1 /\ DOMAIN s = 1 .. Len(s)
      /\ Append(s, key)[Len(s) + 1] = key
      /\ \A i \in 1 .. Len(s) : Append(s, key)[i] = s[i]
      /\ Len(s) \in Nat
  OBVIOUS
<1>2. QED  BY <1>1 DEF ToSet

(* A key that is not in use exists among the first Cardinality + 1.        *)
LEMMA NextKeyIsNew ==
  ASSUME NEW keys, IsFiniteSet(keys)
  PROVE  NextKey(keys) \in Nat \ {0} /\ NextKey(keys) \notin keys
<1> DEFINE n == Cardinality(keys)
<1>1. n \in Nat  BY FS_CardinalityType
<1>2. \E key \in 1 .. n + 1 : key \notin keys
  <2>1. SUFFICES ASSUME 1 .. n + 1 \subseteq keys PROVE FALSE
    OBVIOUS
  <2>2. Cardinality(1 .. n + 1) <= n  BY <2>1, FS_Subset
  <2>3. Cardinality(1 .. n + 1) = n + 1  BY <1>1, FS_Interval
  <2>4. QED  BY <1>1, <2>2, <2>3
<1>3. NextKey(keys) \in 1 .. n + 1 /\ NextKey(keys) \notin keys
  BY <1>2 DEF NextKey
<1>4. QED  BY <1>1, <1>3

(* There are finitely many levels of detail.                               *)
LEMMA LevelsCounted ==
  ASSUME grid \in PowersOf2
  PROVE  Cardinality(LODs) \in Nat
<1>1. \E n \in 0 .. 15 : 2 ^ n = grid  BY DEF PowersOf2
<1>2. Level(grid) \in 0 .. 15  BY <1>1 DEF Level
<1>3. Level(grid) \in Int  BY <1>2
<1>4. IsFiniteSet(0 .. Level(grid))  BY <1>3, FS_Interval
<1>5. QED  BY <1>4, FS_CardinalityType DEF LODs

(* A landscape that was never opened.                                      *)
LEMMA InitHolds == Init => IInv
<1> SUFFICES ASSUME Init PROVE IInv
  OBVIOUS
<1>1. IsFiniteSet({}) /\ <<>> \in Seq(Nat)  BY FS_EmptySet
<1>2. Types  BY <1>1 DEF Init, Types
<1>3. {c \in chunks : c.lod = 0} = {}  BY NoDomain DEF Init, chunks
<1>4. Owned
  <2>1. vertexKeys = ToSet(buffers)  BY NoKeys DEF Init
  <2>2. indexKeys = {indexBuffer} \ {0}  BY DEF Init
  <2>3. inTree = {c \in chunks : c.lod = 0}  BY <1>3 DEF Init
  <2>4. arrays = independent + vertexes + (IF indexes = <<>> THEN 0 ELSE 1)  BY DEF Init
  <2>5. QED  BY <2>1, <2>2, <2>3, <2>4 DEF Owned
<1>5. Stages  BY DEF Init, Stages
<1>6. QED  BY <1>2, <1>4, <1>5 DEF IInv

-----------------------------------------------------------------------------
(* Close leaves nothing behind.                                            *)
LEMMA CloseEmpties ==
  ASSUME IInv, Close
  PROVE  /\ boxes' = <<>> /\ inTree' = {} /\ vertexKeys' = {} /\ indexKeys' = {}
         /\ buffers' = <<>> /\ indexBuffer' = 0 /\ arrays' = 0
         /\ independent' = 0 /\ vertexes' = 0 /\ indexes' = <<>>
<1>1. vertexKeys' = {} /\ indexKeys' = {} /\ inTree' = {}
  BY DEF IInv, Types, Owned, Close, chunks
<1>2. arrays' = 0  BY DEF IInv, Types, Owned, Close, chunks
<1>3. QED  BY <1>1, <1>2 DEF Close

(* After Close, Open begins again.                                         *)
LEMMA EmptyHolds ==
  ASSUME boxes' = <<>>, inTree' = {}, vertexKeys' = {}, indexKeys' = {},
         buffers' = <<>>, indexBuffer' = 0, arrays' = 0,
         independent' = 0, vertexes' = 0, indexes' = <<>>,
         stage' \in {"closed", "created", "failed"},
         stage' = "created" => grid' \in PowersOf2
  PROVE  IInv'
<1>1. IsFiniteSet({}) /\ <<>> \in Seq(Nat)  BY FS_EmptySet
<1>2. Types'  BY <1>1 DEF Types
<1>3. {c \in chunks' : c.lod = 0} = {}  BY NoDomain DEF chunks
<1>4. Owned'
  <2>1. vertexKeys' = ToSet(buffers')  BY NoKeys
  <2>2. indexKeys' = {indexBuffer'} \ {0}  OBVIOUS
  <2>3. inTree' = {c \in chunks' : c.lod = 0}  BY <1>3
  <2>4. arrays' = independent' + vertexes' + (IF indexes' = <<>> THEN 0 ELSE 1)
    OBVIOUS
  <2>5. QED  BY <2>1, <2>2, <2>3, <2>4 DEF Owned
<1>5. Stages'  BY DEF Stages
<1>6. QED  BY <1>2, <1>4, <1>5 DEF IInv

(* Each operation keeps the invariant.                                     *)
LEMMA StepKeeps ==
  ASSUME IInv, [Next]_vars
  PROVE  IInv'
<1>1. CASE Open
  <2>1. stage' \in {"created", "failed"} /\ (stage' = "created" => grid' \in PowersOf2)
    BY <1>1 DEF Open
  <2>2. QED  BY <1>1, <2>1, CloseEmpties, EmptyHolds DEF Open
<1>2. CASE Release
  BY <1>2, CloseEmpties, EmptyHolds DEF Release
<1>3. CASE CreateIndexBuffer
  <2>1. /\ stage = "created" /\ stage' \in {"indexed", "failed"}
        /\ indexes' = <<AllStrips>> /\ arrays' = arrays + 1
        /\ UNCHANGED <<grid, independent, vertexes, buffers, vertexKeys, boxes, inTree>>
    BY <1>3 DEF CreateIndexBuffer, config, tree
  <2>2. \/ UNCHANGED <<indexBuffer, indexKeys>>
        \/ indexBuffer' = NextKey(indexKeys) /\ indexKeys' = indexKeys \cup {indexBuffer'}
    BY <1>3 DEF CreateIndexBuffer
  <2>3. indexes = <<>> /\ indexBuffer = 0 /\ indexKeys = {} /\ indexes' # <<>>
    BY <2>1 DEF IInv, Owned, Stages
  <2>4. NextKey(indexKeys) \in Nat \ {0}  BY NextKeyIsNew DEF IInv, Types
  <2>5. /\ indexKeys' = {indexBuffer'} \ {0}
        /\ indexKeys' \subseteq Nat \ {0} /\ IsFiniteSet(indexKeys')
    <3>1. CASE UNCHANGED <<indexBuffer, indexKeys>>
      BY <2>3, <3>1, FS_EmptySet
    <3>2. CASE indexBuffer' = NextKey(indexKeys) /\ indexKeys' = indexKeys \cup {indexBuffer'}
      <4>1. indexBuffer' \in Nat \ {0} /\ indexKeys' = {indexBuffer'}  BY <2>3, <2>4, <3>2
      <4>2. IsFiniteSet({indexBuffer'})  BY FS_Singleton
      <4>3. QED  BY <4>1, <4>2
    <3>3. QED  BY <2>2, <3>1, <3>2
  <2>6. Types'  BY <2>1, <2>5 DEF IInv, Types
  <2>7. Owned'  BY <2>1, <2>3, <2>5 DEF IInv, Types, Owned, chunks
  <2>8. Stages'  BY <2>1 DEF IInv, Stages
  <2>9. QED  BY <2>6, <2>7, <2>8 DEF IInv
<1>4. CASE CreateVertexBufferIndependent
  <2>1. /\ stage = "indexed" /\ stage' = "shaped"
        /\ independent' = Cardinality(LODs) /\ arrays' = arrays + Cardinality(LODs)
        /\ UNCHANGED <<grid, indexes, vertexes, indexBuffer, buffers, vertexKeys, indexKeys,
                       boxes, inTree>>
    BY <1>4 DEF CreateVertexBufferIndependent, config, device, tree
  <2>2. independent = 0 /\ Cardinality(LODs) \in Nat
    BY <2>1, LevelsCounted DEF IInv, Stages
  <2>3. Types'  BY <2>1, <2>2 DEF IInv, Types
  <2>4. Owned'  BY <2>1, <2>2 DEF IInv, Types, Owned, chunks
  <2>5. Stages'  BY <2>1 DEF IInv, Stages
  <2>6. QED  BY <2>3, <2>4, <2>5 DEF IInv
<1>5. CASE LoadHeightmap
  BY <1>5
     DEF LoadHeightmap, config, memory, device, tree, IInv, Types, Owned, Stages, chunks
<1>6. CASE CreateVertexBuffer
  <2> DEFINE key == NextKey(vertexKeys)
  <2>1. /\ stage = "raised" /\ stage' \in {"filled", "raised", "failed"}
        /\ UNCHANGED <<indexes, independent, indexBuffer, indexKeys, boxes, inTree>>
        /\ \/ UNCHANGED <<vertexes, arrays, buffers, vertexKeys>>
           \/ /\ vertexKeys' = vertexKeys \cup {key} /\ buffers' = Append(buffers, key)
              /\ vertexes' = vertexes + 1 /\ arrays' = arrays + 1
    BY <1>6 DEF CreateVertexBuffer, tree
  <2>2. key \in Nat \ {0}  BY NextKeyIsNew DEF IInv, Types
  <2> HIDE DEF key
  <2>3. Types'
    <3>1. IsFiniteSet(vertexKeys) /\ buffers \in Seq(Nat)  BY DEF IInv, Types
    <3>2. IsFiniteSet(vertexKeys \cup {key})  BY <3>1, FS_AddElement
    <3>3. IsFiniteSet(vertexKeys') /\ buffers' \in Seq(Nat)
      <4>1. Append(buffers, key) \in Seq(Nat)  BY <2>2, <3>1
      <4>2. QED  BY <2>1, <3>1, <3>2, <4>1
    <3>4. vertexKeys' \subseteq Nat \ {0}  BY <2>1, <2>2 DEF IInv, Types
    <3>5. vertexes' \in Nat  BY <2>1 DEF IInv, Types
    <3>6. QED  BY <2>1, <3>3, <3>4, <3>5 DEF IInv, Types
  <2>4. vertexKeys' = ToSet(buffers')  BY <2>1, <2>2, AppendedSet DEF IInv, Types, Owned, chunks
  <2>5. Owned'
    <3>1. indexKeys' = {indexBuffer'} \ {0}  BY <2>1 DEF IInv, Owned
    <3>2. arrays' = independent' + vertexes' + (IF indexes' = <<>> THEN 0 ELSE 1)
      <4>1. independent \in Nat /\ vertexes \in Nat  BY DEF IInv, Types
      <4>2. arrays = independent + vertexes + (IF indexes = <<>> THEN 0 ELSE 1)
        BY DEF IInv, Owned
      <4>3. QED  BY <2>1, <4>1, <4>2
    <3>3. inTree' = {c \in chunks' : c.lod = 0}  BY <2>1 DEF IInv, Owned, chunks
    <3>4. QED  BY <2>4, <3>1, <3>2, <3>3 DEF Owned
  <2>6. Stages'  BY <2>1 DEF IInv, Stages
  <2>7. QED  BY <2>3, <2>5, <2>6 DEF IInv
<1>7. CASE CreateChunks
  <2>1. /\ stage = "filled" /\ stage' = "open"
        /\ UNCHANGED <<indexes, independent, vertexes, arrays, indexBuffer, buffers,
                       vertexKeys, indexKeys>>
        /\ DOMAIN boxes' = ChunkTree
        /\ inTree' = inTree \cup {c \in ChunkTree : c.lod = 0}
    BY <1>7 DEF CreateChunks, config, memory, device
  <2>2. inTree = {}
    <3>1. boxes = <<>>  BY <2>1 DEF IInv, Stages
    <3>2. {c \in chunks : c.lod = 0} = {}  BY <3>1, NoDomain DEF chunks
    <3>3. QED  BY <3>2 DEF IInv, Owned
  <2>3. Owned'  BY <2>1, <2>2 DEF IInv, Owned, chunks
  <2>4. QED  BY <2>1, <2>3 DEF IInv, Types, Stages
<1>8. CASE UNCHANGED vars
  BY <1>8 DEF vars, config, memory, device, tree, IInv, Types, Owned, Stages, chunks
<1>9. QED  BY <1>1, <1>2, <1>3, <1>4, <1>5, <1>6, <1>7, <1>8 DEF Next

-----------------------------------------------------------------------------
(* Whatever Open failed at, Close gives back all of it (Open, Close).      *)
THEOREM NothingLeaks == Spec => []OneOwner
<1>1. IInv => OneOwner
  <2> SUFFICES ASSUME IInv PROVE OneOwner
    OBVIOUS
  <2>1. stage = "closed" => vertexKeys \cup indexKeys = {} /\ arrays = 0 /\ inTree = {}
    <3> SUFFICES ASSUME stage = "closed"
                 PROVE  vertexKeys \cup indexKeys = {} /\ arrays = 0 /\ inTree = {}
      OBVIOUS
    <3>1. /\ boxes = <<>> /\ buffers = <<>> /\ indexBuffer = 0 /\ indexes = <<>>
          /\ independent = 0 /\ vertexes = 0
      BY DEF IInv, Stages
    <3>2. vertexKeys = {}  BY <3>1, NoKeys DEF IInv, Owned
    <3>3. indexKeys = {}  BY <3>1 DEF IInv, Owned
    <3>4. arrays = 0  BY <3>1 DEF IInv, Owned
    <3>5. {c \in chunks : c.lod = 0} = {}  BY <3>1, NoDomain DEF chunks
    <3>6. inTree = {}  BY <3>5 DEF IInv, Owned
    <3>7. QED  BY <3>2, <3>3, <3>4, <3>6
  <2>2. QED  BY <2>1 DEF IInv, Owned, OneOwner, chunks
<1>2. QED  BY <1>1, InitHolds, StepKeeps, PTL DEF Spec

-----------------------------------------------------------------------------
(* FlattenSeq for every length: induction is had from the least element of *)
(* a set of numbers, which the library proves to exist.                    *)

(* A set of numbers that is not empty has a least one.                     *)
LEMMA Least ==
  ASSUME NEW T, T \subseteq Nat, T # {}
  PROVE  \E x \in T : \A y \in T : x <= y
<1> DEFINE Less == OpToRel(<, Nat)
<1>1. IsWellFoundedOn(Less, Nat)  BY NatLessThanWellFounded
<1>2. \A x, y \in Nat : <<x, y>> \in Less <=> x < y  BY DEF OpToRel
<1> HIDE DEF Less
<1>3. PICK x \in T : \A y \in T : <<y, x>> \notin Less  BY <1>1, WFMin
<1>4. \A y \in T : x \in Nat /\ y \in Nat /\ ~ (y < x)  BY <1>2, <1>3
<1>5. QED  BY <1>4

(* Induction, from the least number that is not in the set.                *)
LEMMA Induct ==
  ASSUME NEW S, 0 \in S, \A n \in Nat : n \in S => n + 1 \in S
  PROVE  Nat \subseteq S
<1> DEFINE T == Nat \ S
<1>1. SUFFICES ASSUME T # {} PROVE FALSE  OBVIOUS
<1>2. PICK x \in T : \A y \in T : x <= y  BY <1>1, Least
<1>3. x - 1 \in Nat /\ x - 1 \notin T  BY <1>2
<1>4. QED  BY <1>2, <1>3

JoinedTo(seqs, n) ==
  CHOOSE g : g = [i \in 1 .. n |-> IF i = 1 THEN seqs[i] ELSE g[i - 1] \o seqs[i]]

(* The sequences joined from the left, as FlattenSeq does, one by one:     *)
(* such a function exists, by induction on their number.                   *)
LEMMA JoinedIs ==
  ASSUME NEW seqs, NEW n \in Nat
  PROVE  JoinedTo(seqs, n) =
           [i \in 1 .. n |-> IF i = 1 THEN seqs[i] ELSE JoinedTo(seqs, n)[i - 1] \o seqs[i]]
<1> DEFINE Is(g, m) == g = [i \in 1 .. m |-> IF i = 1 THEN seqs[i] ELSE g[i - 1] \o seqs[i]]
           S == {m \in Nat : \E g : Is(g, m)}
<1>1. 0 \in S
  <2>1. Is([i \in 1 .. 0 |-> seqs[i]], 0)  OBVIOUS
  <2>2. QED  BY <2>1
<1>2. ASSUME NEW m \in Nat, m \in S PROVE m + 1 \in S
  <2>1. PICK g : Is(g, m)  BY <1>2
  <2> DEFINE h == [i \in 1 .. m + 1 |-> IF i = 1 THEN seqs[i] ELSE g[i - 1] \o seqs[i]]
  <2>2. \A i \in 1 .. m : h[i] = g[i]
    <3> SUFFICES ASSUME NEW i \in 1 .. m PROVE h[i] = g[i]
      OBVIOUS
    <3>1. \A j \in 1 .. m : g[j] = IF j = 1 THEN seqs[j] ELSE g[j - 1] \o seqs[j]
      <4> DEFINE f == [j \in 1 .. m |-> IF j = 1 THEN seqs[j] ELSE g[j - 1] \o seqs[j]]
      <4>1. g = f  BY <2>1
      <4>2. \A j \in 1 .. m : f[j] = IF j = 1 THEN seqs[j] ELSE g[j - 1] \o seqs[j]  OBVIOUS
      <4> HIDE DEF f
      <4>3. QED  BY <4>1, <4>2
    <3>2. h[i] = IF i = 1 THEN seqs[i] ELSE g[i - 1] \o seqs[i]  OBVIOUS
    <3> HIDE DEF h, Is
    <3>3. QED  BY <3>1, <3>2
  <2>3. Is(h, m + 1)
    <3>1. \A i \in 1 .. m + 1 : i # 1 => i - 1 \in 1 .. m /\ h[i - 1] = g[i - 1]
      <4> HIDE DEF h, Is
      <4>1. QED  BY <2>2
    <3> DEFINE e(i) == IF i = 1 THEN seqs[i] ELSE h[i - 1] \o seqs[i]
    <3>2. \A i \in 1 .. m + 1 : h[i] = e(i)
      <4> SUFFICES ASSUME NEW i \in 1 .. m + 1 PROVE h[i] = e(i)
        OBVIOUS
      <4>1. h[i] = IF i = 1 THEN seqs[i] ELSE g[i - 1] \o seqs[i]  OBVIOUS
      <4> HIDE DEF h
      <4>2. QED  BY <3>1, <4>1
    <3>3. h = [i \in 1 .. m + 1 |-> h[i]]  OBVIOUS
    <3> HIDE DEF h
    <3>4. h = [i \in 1 .. m + 1 |-> e(i)]  BY <3>2, <3>3
    <3>5. QED  BY <3>4
  <2> HIDE DEF Is, h
  <2>4. QED  BY <2>3
<1>3. Nat \subseteq S
  <2> HIDE DEF S
  <2>1. QED  BY <1>1, <1>2, Induct
<1>4. \E g : Is(g, n)  BY <1>3
<1>5. QED  BY <1>4 DEF JoinedTo

(* FlattenSeq is the last of them.                                         *)
LEMMA FlattenIs ==
  ASSUME NEW seqs, Len(seqs) \in Nat \ {0}
  PROVE  FlattenSeq(seqs) = JoinedTo(seqs, Len(seqs))[Len(seqs)]
BY DEF FlattenSeq, JoinedTo

(* Where each of some sequences of length L, but for the last, begins in   *)
(* all of them put together.                                               *)
Laid(all, seqs, L) ==
  /\ Len(all) = (Len(seqs) - 1) * L + Len(seqs[Len(seqs)])
  /\ \A j \in 1 .. Len(seqs) : \A m \in 1 .. Len(seqs[j]) : all[(j - 1) * L + m] = seqs[j][m]

(* Where FlattenSeq puts the elements of sequences that, but for the last, *)
(* have one length.                                                        *)
LEMMA FlattenUniform ==
  ASSUME NEW S, NEW seqs \in Seq(Seq(S)), NEW L \in Nat, NEW n \in Nat \ {0}, Len(seqs) = n,
         \A j \in 1 .. n - 1 : Len(seqs[j]) = L
  PROVE  FlattenSeq(seqs) \in Seq(S) /\ Laid(FlattenSeq(seqs), seqs, L)
<1> DEFINE J == JoinedTo(seqs, n)
           Good(i) == /\ J[i] \in Seq(S)
                      /\ Len(J[i]) = (i - 1) * L + Len(seqs[i])
                      /\ \A j \in 1 .. i : \A m \in 1 .. Len(seqs[j]) :
                           J[i][(j - 1) * L + m] = seqs[j][m]
           T == {i \in Nat : i + 1 \in 1 .. n => Good(i + 1)}
<1>1. FlattenSeq(seqs) = J[n]  BY FlattenIs
<1>2. \A i \in 1 .. n : J[i] = IF i = 1 THEN seqs[i] ELSE J[i - 1] \o seqs[i]
  <2> DEFINE f == [i \in 1 .. n |-> IF i = 1 THEN seqs[i] ELSE J[i - 1] \o seqs[i]]
  <2>1. J = f  BY JoinedIs
  <2> HIDE DEF J
  <2>2. \A i \in 1 .. n : f[i] = IF i = 1 THEN seqs[i] ELSE J[i - 1] \o seqs[i]  OBVIOUS
  <2> HIDE DEF f
  <2>3. QED  BY <2>1, <2>2
<1> HIDE DEF J
<1>3. \A i \in 1 .. n : seqs[i] \in Seq(S) /\ Len(seqs[i]) \in Nat  OBVIOUS
<1>4. 0 \in T
  <2>1. 1 \in 1 .. n  OBVIOUS
  <2>2. J[1] = seqs[1]  BY <1>2, <2>1
  <2>3. \A j \in 1 .. 1 : j = 1  OBVIOUS
  <2>4. (1 - 1) * L = 0  OBVIOUS
  <2>5. \A m \in 1 .. Len(seqs[1]) : J[1][(1 - 1) * L + m] = seqs[1][m]
    <3>1. \A m \in 1 .. Len(seqs[1]) : (1 - 1) * L + m = m  BY <2>4, <1>3, <2>1
    <3>2. QED  BY <2>2, <3>1
  <2>6. Len(J[1]) = (1 - 1) * L + Len(seqs[1])  BY <2>2, <2>4, <1>3, <2>1
  <2>7. Good(1)  BY <2>1, <2>2, <2>3, <2>5, <2>6, <1>3
  <2> HIDE DEF Good
  <2>8. QED  BY <2>7
<1>5. ASSUME NEW i \in Nat, i \in T PROVE i + 1 \in T
  <2> SUFFICES ASSUME i + 2 \in 1 .. n PROVE Good(i + 2)
    <3> HIDE DEF Good
    <3>1. QED  OBVIOUS
  <2>1. i + 1 \in 1 .. n /\ i + 1 \in 1 .. n - 1  OBVIOUS
  <2>2. Good(i + 1)
    <3> HIDE DEF Good
    <3>1. QED  BY <1>5, <2>1
  <2> DEFINE a == J[i + 1]
             b == seqs[i + 2]
  <2>3. J[i + 2] = a \o b
    <3>1. (i + 2) - 1 = i + 1 /\ i + 2 # 1  OBVIOUS
    <3>2. QED  BY <1>2, <3>1
  <2>4. a \in Seq(S) /\ b \in Seq(S) /\ Len(seqs[i + 1]) = L  BY <1>3, <2>1, <2>2
  <2>5. Len(a) = (i + 1) * L
    <3>1. Len(a) = i * L + L  BY <2>2, <2>4
    <3>2. QED  BY <3>1
  <2> HIDE DEF a, b
  <2>6. /\ a \o b \in Seq(S)
        /\ Len(a \o b) = (i + 1) * L + Len(b)
        /\ \A m \in 1 .. Len(a) : (a \o b)[m] = a[m]
        /\ \A m \in 1 .. Len(b) : (a \o b)[(i + 1) * L + m] = b[m]
    <3> HIDE DEF Good
    <3>1. (i + 1) * L \in Nat  OBVIOUS
    <3> DEFINE l == (i + 1) * L
    <3> HIDE DEF l
    <3>2. Len(a) = l /\ l \in Nat  BY <2>5, <3>1 DEF l
    <3>3. /\ a \o b \in Seq(S) /\ Len(a \o b) = l + Len(b)
          /\ \A m \in 1 .. Len(a) : (a \o b)[m] = a[m]
          /\ \A m \in 1 .. Len(b) : (a \o b)[l + m] = b[m]
      <4>1. Len(b) \in Nat  BY <2>4
      <4>2. /\ a \o b \in Seq(S) /\ Len(a \o b) = Len(a) + Len(b)
            /\ \A m \in 1 .. Len(a) + Len(b) :
                 (a \o b)[m] = IF m <= Len(a) THEN a[m] ELSE b[m - Len(a)]
        BY <2>4, ConcatProperties
      <4>3. \A m \in 1 .. Len(b) : (l + m) - l = m /\ l + m \in 1 .. l + Len(b) /\ ~ (l + m <= l)
        BY <3>2, <4>1
      <4>4. \A m \in 1 .. Len(a) : m \in 1 .. l + Len(b) /\ m <= l  BY <3>2, <4>1
      <4>5. QED  BY <3>2, <4>2, <4>3, <4>4
    <3>4. QED  BY <3>3 DEF l
  <2>7. ASSUME NEW j \in 1 .. i + 2, NEW m \in 1 .. Len(seqs[j])
        PROVE  (a \o b)[(j - 1) * L + m] = seqs[j][m]
    <3>1. CASE j = i + 2
      <4>1. j - 1 = i + 1 /\ seqs[j] = b  BY <3>1 DEF b
      <4>2. QED  BY <2>6, <4>1
    <3>2. CASE j \in 1 .. i + 1
      <4>1. Len(seqs[j]) = L  BY <3>2, <2>1
      <4>2. a[(j - 1) * L + m] = seqs[j][m]  BY <2>2, <3>2 DEF a
      <4>3. (j - 1) * L \in Nat /\ (j - 1) * L + m \in 1 .. (i + 1) * L
        <5>1. m \in 1 .. L  BY <4>1
        <5>2. (j - 1) * L <= i * L  BY <3>2
        <5>3. (i + 1) * L = i * L + L  OBVIOUS
        <5>4. (j - 1) * L \in Nat /\ i * L \in Nat  BY <3>2
        <5> DEFINE p == (j - 1) * L
                   q == i * L
                   r == (i + 1) * L
        <5> HIDE DEF p, q, r
        <5>5. p <= q /\ r = q + L /\ p \in Nat /\ q \in Nat  BY <5>2, <5>3, <5>4 DEF p, q, r
        <5>6. p \in Nat /\ p + m \in 1 .. r  BY <5>1, <5>5
        <5>7. QED  BY <5>6 DEF p, r
      <4>4. QED  BY <2>5, <2>6, <4>2, <4>3
    <3>3. j = i + 2 \/ j \in 1 .. i + 1  OBVIOUS
    <3>4. QED  BY <3>1, <3>2, <3>3
  <2>8. /\ J[i + 2] \in Seq(S)
        /\ Len(J[i + 2]) = (i + 1) * L + Len(seqs[i + 2])
    BY <2>3, <2>6 DEF b
  <2>9. QED
    <3>1. (i + 2) - 1 = i + 1  OBVIOUS
    <3>2. QED  BY <2>3, <2>7, <2>8, <3>1
<1>6. Nat \subseteq T
  <2> HIDE DEF T
  <2>1. QED  BY <1>4, <1>5, Induct
<1>7. Good(n)
  <2> HIDE DEF Good
  <2>1. n - 1 \in T
    <3> HIDE DEF T
    <3>1. n - 1 \in Nat  OBVIOUS
    <3>2. QED  BY <1>6, <3>1
  <2>3. (n - 1) + 1 = n /\ n \in 1 .. n  OBVIOUS
  <2>2. QED  BY <2>1, <2>3
<1>8. QED  BY <1>1, <1>7 DEF Laid

-----------------------------------------------------------------------------
(* The sizes of a terrain and of its levels of detail, and where the fill  *)
(* loops put the vertices.                                                 *)

(* Sizes of a landscape that GlobalInfo::Create accepted.                  *)
Sized == quad \in PowersOf2 \ {1} /\ grid \in PowersOf2

(* The powers of 2 that a size can be.                                     *)
LEMMA PowerDoubles ==
  ASSUME NEW n \in 0 .. 14
  PROVE  2 ^ (n + 1) = 2 * 2 ^ n
<1>0. CASE n = 0  BY <1>0
<1>1. CASE n = 1  BY <1>1
<1>2. CASE n = 2  BY <1>2
<1>3. CASE n = 3  BY <1>3
<1>4. CASE n = 4  BY <1>4
<1>5. CASE n = 5  BY <1>5
<1>6. CASE n = 6  BY <1>6
<1>7. CASE n = 7  BY <1>7
<1>8. CASE n = 8  BY <1>8
<1>9. CASE n = 9  BY <1>9
<1>10. CASE n = 10  BY <1>10
<1>11. CASE n = 11  BY <1>11
<1>12. CASE n = 12  BY <1>12
<1>13. CASE n = 13  BY <1>13
<1>14. CASE n = 14  BY <1>14
<1>15. QED
  BY <1>0, <1>1, <1>2, <1>3, <1>4, <1>5, <1>6, <1>7, <1>8, <1>9, <1>10, <1>11, <1>12, <1>13, <1>14

(* Increment(k), once for all: 2 ^ k is never expanded again.              *)
LEMMA Increments ==
  /\ Increment(0) = 1
  /\ \A n \in 0 .. 14 : Increment(n + 1) = 2 * Increment(n)
  /\ \A n \in 0 .. 15 : Increment(n) \in Nat \ {0}
<1>1. Increment(0) = 1  BY DEF Increment
<1>2. \A n \in 0 .. 14 : Increment(n + 1) = 2 * Increment(n)  BY PowerDoubles DEF Increment
<1> DEFINE S == {n \in Nat : n <= 15 => Increment(n) \in Nat \ {0}}
<1>3. 0 \in S  BY <1>1
<1>4. ASSUME NEW n \in Nat, n \in S PROVE n + 1 \in S
  <2> SUFFICES ASSUME n \in 0 .. 14 PROVE Increment(n + 1) \in Nat \ {0}
    OBVIOUS
  <2>1. Increment(n) \in Nat \ {0}  BY <1>4
  <2>2. QED  BY <1>2, <2>1
<1>5. Nat \subseteq S
  <2> HIDE DEF S
  <2>1. QED  BY <1>3, <1>4, Induct
<1>6. \A n \in 0 .. 15 : Increment(n) \in Nat \ {0}  BY <1>5
<1>7. QED  BY <1>1, <1>2, <1>6

(* The last level of detail has one chunk, as long as the terrain.         *)
LEMMA LevelIs ==
  ASSUME grid \in PowersOf2
  PROVE  Level(grid) \in 0 .. 15 /\ Increment(Level(grid)) = grid
<1>1. \E n \in 0 .. 15 : 2 ^ n = grid  BY DEF PowersOf2
<1>2. QED  BY <1>1 DEF Level, Increment

(* The chunks along the terrain at level k.                                *)
Side(k) == Increment(Level(grid) - k)

(* The chunks of a level are as many as make up the terrain, and half as   *)
(* many along it as one level below.                                       *)
LEMMA SideIs ==
  ASSUME grid \in PowersOf2, NEW k \in LODs
  PROVE  /\ k \in 0 .. 15 /\ k <= Level(grid) /\ Level(grid) - k \in 0 .. 15
         /\ Increment(k) \in Nat \ {0} /\ Side(k) \in Nat \ {0}
         /\ Side(k) * Increment(k) = grid
         /\ k < Level(grid) => Side(k) = 2 * Side(k + 1)
         /\ k = Level(grid) => Side(k) = 1
<1> DEFINE n == Level(grid)
<1>1. n \in 0 .. 15 /\ Increment(n) = grid  BY LevelIs
<1>2. k \in 0 .. n  BY DEF LODs
<1> HIDE DEF n
<1>3. /\ k \in 0 .. 15 /\ k <= n /\ n - k \in 0 .. 15  BY <1>1, <1>2
<1>4. \A m \in 0 .. 15 : Increment(m) \in Nat \ {0}  BY Increments
<1>5. \A m \in 0 .. n - 1 : Increment(n - m) = 2 * Increment(n - (m + 1)) /\ Increment(m + 1) = 2 * Increment(m)
  <2> SUFFICES ASSUME NEW m \in 0 .. n - 1
               PROVE  Increment(n - m) = 2 * Increment(n - (m + 1)) /\ Increment(m + 1) = 2 * Increment(m)
    OBVIOUS
  <2>1. n - (m + 1) \in 0 .. 14 /\ (n - (m + 1)) + 1 = n - m /\ m \in 0 .. 14  BY <1>1
  <2>2. QED  BY <2>1, Increments
<1> DEFINE S == {m \in Nat : m <= n => Increment(n - m) * Increment(m) = grid}
<1>6. 0 \in S
  <2>1. n - 0 = n  BY <1>1
  <2>2. Increment(n) \in Nat  BY <1>1, <1>4
  <2>3. Increment(n - 0) * Increment(0) = grid  BY <1>1, <2>1, <2>2, Increments
  <2>4. QED  BY <2>3
<1>7. ASSUME NEW m \in Nat, m \in S PROVE m + 1 \in S
  <2> SUFFICES ASSUME m \in 0 .. n - 1 PROVE Increment(n - (m + 1)) * Increment(m + 1) = grid
    BY <1>1
  <2> DEFINE a == Increment(n - (m + 1))
             b == Increment(m)
  <2>1. Increment(n - m) * b = grid  BY <1>1, <1>7
  <2>2. Increment(n - m) = 2 * a /\ Increment(m + 1) = 2 * b  BY <1>5
  <2>3. a \in Nat /\ b \in Nat
    <3>1. n - (m + 1) \in 0 .. 15 /\ m \in 0 .. 15  BY <1>1
    <3>2. QED  BY <1>4, <3>1
  <2> HIDE DEF a, b
  <2>4. (2 * a) * b = a * (2 * b)  BY <2>3
  <2>5. a * Increment(m + 1) = grid  BY <2>1, <2>2, <2>4
  <2>6. QED  BY <2>5 DEF a
<1>8. Nat \subseteq S
  <2> HIDE DEF S
  <2>1. QED  BY <1>6, <1>7, Induct
<1>9. Side(k) * Increment(k) = grid
  <2>1. k \in S /\ k <= n  BY <1>2, <1>3, <1>8
  <2>2. QED  BY <2>1 DEF Side, n
<1>10. Side(k) \in Nat \ {0}  BY <1>3, <1>4 DEF Side, n
<1>11. k < n => Side(k) = 2 * Side(k + 1)  BY <1>1, <1>3, <1>5 DEF Side, n
<1>12. k = n => Side(k) = 1
  <2> SUFFICES ASSUME k = n PROVE Side(k) = 1
    OBVIOUS
  <2>1. n - k = 0  BY <1>1
  <2>2. QED  BY <2>1, Increments DEF Side, n
<1>13. QED  BY <1>3, <1>4, <1>9, <1>10, <1>11, <1>12 DEF n

(* A chunk has an even number of squares along it.                         *)
LEMMA QuadEven ==
  ASSUME quad \in PowersOf2 \ {1}
  PROVE  quad \in Nat \ {0, 1} /\ \E h \in Nat \ {0} : quad = 2 * h
<1>1. PICK n \in 0 .. 15 : Increment(n) = quad  BY DEF PowersOf2, Increment
<1>2. n # 0  BY <1>1, Increments
<1>3. n - 1 \in 0 .. 14 /\ n - 1 \in 0 .. 15 /\ (n - 1) + 1 = n  BY <1>2
<1>4. quad = 2 * Increment(n - 1) /\ Increment(n - 1) \in Nat \ {0}  BY <1>1, <1>3, Increments
<1>5. QED  BY <1>4

(* Quotient and remainder.                                                 *)
LEMMA Division ==
  ASSUME NEW b \in Nat \ {0}, NEW a \in Nat, NEW r \in 0 .. b - 1
  PROVE  (a * b + r) \div b = a /\ (a * b + r) % b = r
OBVIOUS

(* The vertices along a row at level k, as the buffer is sized.            *)
LEMMA VertexPerRowIs ==
  ASSUME Sized, NEW k \in LODs
  PROVE  /\ quad * Side(k) \in Nat /\ quad * Side(k) >= 2
         /\ VertexPerRow(k) = quad * Side(k) + 1
         /\ RowOfVertices = (quad * Side(k)) * Increment(k) + 1
<1> DEFINE s == Side(k)
           i == Increment(k)
           w == quad * s
<1>1. s \in Nat \ {0} /\ i \in Nat \ {0} /\ s * i = grid /\ k \in 0 .. 15  BY SideIs DEF Sized
<1>2. PICK h \in Nat \ {0} : quad = 2 * h  BY QuadEven DEF Sized
<1> HIDE DEF s, i
<1>3. h * s \in Nat \ {0}  BY <1>1
<1>4. w = 2 * (h * s)  BY <1>1, <1>2
<1>5. quad * grid = w * i  BY <1>1, <1>2
<1>6. w \in Nat /\ w >= 2 /\ w % 2 = 0 /\ (w + 1) % 2 = 1
  <2> HIDE DEF w
  <2> DEFINE v == h * s
  <2> HIDE DEF v
  <2>1. w = 2 * v /\ v \in Nat \ {0}  BY <1>3, <1>4 DEF v
  <2>2. QED  BY <2>1
<1>7. RowOfVertices = w * i + 1  BY <1>5 DEF RowOfVertices
<1> HIDE DEF w
<1>8. VertexPerRow(k) = w + 1
  <2>1. CASE i = 1
    <3>1. RowOfVertices \div i = w + 1  BY <1>6, <1>7, <2>1
    <3>2. QED  BY <1>6, <3>1 DEF VertexPerRow, OrOne, i
  <2>2. CASE i # 1
    <3>1. 1 \in 0 .. i - 1  BY <1>1, <2>2
    <3>2. RowOfVertices \div i = w  BY <1>1, <1>6, <1>7, <3>1, Division
    <3>3. QED  BY <1>6, <3>2 DEF VertexPerRow, OrOne, i
  <2>3. QED  BY <2>1, <2>2
<1>9. QED  BY <1>6, <1>7, <1>8 DEF w, s, i

(* Two sets that a function matches one to one have as many elements.      *)
LEMMA Matched ==
  ASSUME NEW S, NEW T, IsFiniteSet(S), NEW f \in [S -> T],
         \A x, y \in S : f[x] = f[y] => x = y, \A t \in T : \E x \in S : f[x] = t
  PROVE  IsFiniteSet(T) /\ Cardinality(T) = Cardinality(S)
<1>1. f \in Bijection(S, T)  BY DEF Bijection, Injection, Surjection, IsInjective
<1>2. ExistsBijection(S, T)  BY <1>1 DEF ExistsBijection
<1>3. QED  BY <1>2, FS_Bijection

(* Every number is made up of its quotient and its remainder.              *)
LEMMA Remainder ==
  ASSUME NEW b \in Nat \ {0}, NEW v \in Nat
  PROVE  v \div b \in Nat /\ v % b \in 0 .. b - 1 /\ v = (v \div b) * b + (v % b)
OBVIOUS

(* A product grows with its factor.                                        *)
LEMMA Product ==
  ASSUME NEW b \in Nat \ {0}, NEW a \in Int, NEW c \in Int
  PROVE  /\ a * b <= c * b => a <= c
         /\ a * b = c * b => a = c
         /\ a <= c => a * b <= c * b
         /\ a < c => a * b <= c * b - b
<1>1. a <= c => a * b <= c * b  OBVIOUS
<1>2. a < c => a * b <= c * b - b
  <2>1. a < c => (c - a - 1) * b >= 0  OBVIOUS
  <2>2. (c - a - 1) * b = c * b - a * b - b  OBVIOUS
  <2>3. QED  BY <2>1, <2>2
<1>3. a > c => a * b >= c * b + b
  <2>1. a > c => (a - c - 1) * b >= 0  OBVIOUS
  <2>2. (a - c - 1) * b = a * b - c * b - b  OBVIOUS
  <2>3. QED  BY <2>1, <2>2
<1>4. a * b \in Int /\ c * b \in Int  OBVIOUS
<1>5. QED  BY <1>1, <1>2, <1>3, <1>4

(* The fill loops put as many vertices in a row as the buffer has for it.  *)
LEMMA FilledPerRowIs ==
  ASSUME Sized, NEW k \in LODs
  PROVE  FilledPerRow(k) = quad * Side(k) + 1
<1> DEFINE w == quad * Side(k)
           i == Increment(k)
           f == [v \in 0 .. w |-> v * i]
           T == {v \in 0 .. RowOfVertices - 1 : v % i = 0}
<1>1. w \in Nat /\ i \in Nat \ {0} /\ RowOfVertices = w * i + 1
  BY VertexPerRowIs, SideIs DEF Sized
<1> HIDE DEF w, i
<1>2. \A v \in 0 .. w : v * i \in T
  <2> SUFFICES ASSUME NEW v \in 0 .. w PROVE v * i \in T
    OBVIOUS
  <2>1. v * i \in Nat /\ v * i <= w * i /\ w * i \in Nat  BY <1>1, Product
  <2>2. (v * i + 0) % i = 0
    <3>1. v \in Nat /\ 0 \in 0 .. i - 1  BY <1>1
    <3>2. QED  BY <1>1, <3>1, Division
  <2>3. v * i + 0 = v * i  BY <2>1
  <2>4. v * i \in 0 .. (w * i + 1) - 1  BY <2>1
  <2>5. QED  BY <1>1, <2>2, <2>3, <2>4
<1>3. \A t \in T : \E v \in 0 .. w : v * i = t
  <2> SUFFICES ASSUME NEW t \in T PROVE \E v \in 0 .. w : v * i = t
    OBVIOUS
  <2>1. t \in Nat /\ t % i = 0 /\ t <= w * i  BY <1>1
  <2>2. t \div i \in Nat /\ t = (t \div i) * i + (t % i)  BY <1>1, <2>1, Remainder
  <2> DEFINE v == t \div i
  <2> HIDE DEF v
  <2>3. v \in Nat /\ v * i = t  BY <1>1, <2>1, <2>2 DEF v
  <2>4. v <= w  BY <1>1, <2>1, <2>3, Product
  <2>5. QED  BY <1>1, <2>3, <2>4
<1>4. \A x, y \in 0 .. w : x * i = y * i => x = y  BY <1>1, Product
<1>5. Cardinality(T) = w + 1
  <2>1. f \in [0 .. w -> T] /\ \A v \in 0 .. w : f[v] = v * i  BY <1>2
  <2> HIDE DEF f, T
  <2>2. IsFiniteSet(0 .. w) /\ Cardinality(0 .. w) = w + 1  BY <1>1, FS_Interval
  <2>3. (\A x, y \in 0 .. w : f[x] = f[y] => x = y) /\ \A t \in T : \E v \in 0 .. w : f[v] = t
    BY <1>3, <1>4, <2>1
  <2>4. QED  BY <2>1, <2>2, <2>3, Matched
<1>6. QED  BY <1>5 DEF FilledPerRow, i, w

(* Where the fill loops put the vertex of a column and a row.              *)
LEMMA PositionIs ==
  ASSUME Sized, NEW k \in LODs,
         NEW a \in 0 .. quad * Side(k), NEW b \in 0 .. quad * Side(k)
  PROVE  /\ a + b * (quad * Side(k) + 1) \in Nat
         /\ Position(k, a + b * (quad * Side(k) + 1)) = <<a * Increment(k), b * Increment(k)>>
<1> DEFINE P == quad * Side(k) + 1
           v == a + b * P
<1>1. P \in Nat \ {0} /\ a \in 0 .. P - 1 /\ b \in Nat /\ FilledPerRow(k) = P
  BY VertexPerRowIs, FilledPerRowIs
<1> HIDE DEF P
<1>2. b * P \in Nat /\ a + b * P = b * P + a  BY <1>1
<1>3. v \div P = b /\ v % P = a  BY <1>1, <1>2, Division
<1>4. v \in Nat  BY <1>1, <1>2
<1>5. Position(k, v) = <<a * Increment(k), b * Increment(k)>>
  <2> HIDE DEF v
  <2>1. QED  BY <1>1, <1>3 DEF Position
<1>6. QED  BY <1>4, <1>5 DEF P

-----------------------------------------------------------------------------
(* The index buffer, in closed form.                                       *)

(* A band: for each column its vertex in one row and in the next.          *)
LEMMA BandIs ==
  ASSUME quad \in Nat \ {0}, NEW j \in Nat, NEW P \in Nat
  PROVE  /\ Band(j, P) \in Seq(Nat) /\ Len(Band(j, P)) = 2 * quad + 2
         /\ \A a \in 0 .. quad : /\ Band(j, P)[2 * a + 1] = a + j * P
                                 /\ Band(j, P)[2 * a + 2] = a + (j + 1) * P
<1> DEFINE seqs == [i \in 1 .. quad + 1 |-> <<(i - 1) + j * P, (i - 1) + (j + 1) * P>>]
<1>1. j * P \in Nat /\ (j + 1) * P \in Nat  OBVIOUS
<1>2. Band(j, P) = FlattenSeq(seqs)  BY DEF Band
<1>3. /\ seqs \in Seq(Seq(Nat)) /\ Len(seqs) = quad + 1
      /\ \A i \in 1 .. quad + 1 : /\ Len(seqs[i]) = 2
                                  /\ seqs[i][1] = (i - 1) + j * P
                                  /\ seqs[i][2] = (i - 1) + (j + 1) * P
  <2> DEFINE x == j * P
             y == (j + 1) * P
             ss == [i \in 1 .. quad + 1 |-> <<(i - 1) + x, (i - 1) + y>>]
  <2>1. x \in Nat /\ y \in Nat  BY <1>1
  <2> HIDE DEF x, y
  <2>2. \A i \in 1 .. quad + 1 : (i - 1) + x \in Nat /\ (i - 1) + y \in Nat  BY <2>1
  <2>3. ss \in Seq(Seq(Nat)) /\ Len(ss) = quad + 1  BY <2>2
  <2>4. \A i \in 1 .. quad + 1 : Len(ss[i]) = 2 /\ ss[i][1] = (i - 1) + x /\ ss[i][2] = (i - 1) + y
    OBVIOUS
  <2>5. QED  BY <2>3, <2>4 DEF x, y
<1> HIDE DEF seqs
<1> DEFINE n == quad + 1
           L == 2
           F == FlattenSeq(seqs)
<1>4. n \in Nat \ {0} /\ n - 1 = quad /\ n = quad + 1 /\ L = 2 /\ L \in Nat  OBVIOUS
<1> HIDE DEF n, L, F
<1>5. seqs \in Seq(Seq(Nat)) /\ Len(seqs) = n /\ \A i \in 1 .. n - 1 : Len(seqs[i]) = L
  BY <1>3, <1>4
<1>6. /\ F \in Seq(Nat) /\ Len(F) = (n - 1) * L + Len(seqs[n])
      /\ \A i \in 1 .. n : \A m \in 1 .. Len(seqs[i]) : F[(i - 1) * L + m] = seqs[i][m]
  <2>1. F \in Seq(Nat) /\ Laid(F, seqs, L)  BY <1>4, <1>5, FlattenUniform DEF F
  <2>2. QED  BY <1>5, <2>1 DEF Laid
<1>7. Len(F) = 2 * quad + 2
  <2>1. Len(seqs[n]) = 2  BY <1>3, <1>4
  <2>2. QED  BY <1>4, <1>6, <2>1
<1>8. ASSUME NEW i \in 1 .. n
      PROVE  F[(i - 1) * L + 1] = (i - 1) + j * P /\ F[(i - 1) * L + 2] = (i - 1) + (j + 1) * P
  <2>1. Len(seqs[i]) = 2 /\ seqs[i][1] = (i - 1) + j * P /\ seqs[i][2] = (i - 1) + (j + 1) * P
    BY <1>3, <1>4
  <2>2. QED  BY <1>6, <2>1
<1>9. ASSUME NEW a \in 0 .. quad
      PROVE  F[2 * a + 1] = a + j * P /\ F[2 * a + 2] = a + (j + 1) * P
  <2>1. a + 1 \in 1 .. n /\ (a + 1) - 1 = a  BY <1>4
  <2>2. F[a * L + 1] = a + j * P /\ F[a * L + 2] = a + (j + 1) * P  BY <1>8, <2>1
  <2>3. a * L = 2 * a  BY <1>4
  <2>4. QED  BY <2>2, <2>3
<1>10. QED  BY <1>2, <1>6, <1>7, <1>9 DEF F

(* The column and the row, within its chunk, of the i-th vertex of a strip.*)
Pitch == 2 * quad + 4
Spot(i) ==
  LET j == (i - 1) \div Pitch
      m == (i - 1) % Pitch
  IN IF m <= 2 * quad + 1 THEN <<m \div 2, j + (m % 2)>>
     ELSE IF m = 2 * quad + 2 THEN <<quad, j + 1>> ELSE <<0, j + 1>>

(* The column and the row of each vertex of a band and of a junction.      *)
LEMMA SpotIs ==
  ASSUME quad \in Nat \ {0}, NEW j \in Nat
  PROVE  /\ \A a \in 0 .. quad : /\ Spot(j * Pitch + (2 * a + 1)) = <<a, j>>
                                 /\ Spot(j * Pitch + (2 * a + 2)) = <<a, j + 1>>
         /\ Spot(j * Pitch + (2 * quad + 3)) = <<quad, j + 1>>
         /\ Spot(j * Pitch + (2 * quad + 4)) = <<0, j + 1>>
<1>1. Pitch \in Nat \ {0} /\ Pitch = 2 * quad + 4  BY DEF Pitch
<1>2. j * Pitch \in Nat  BY <1>1
<1>3. ASSUME NEW m \in 0 .. Pitch - 1
      PROVE  ((j * Pitch + (m + 1)) - 1) \div Pitch = j /\ ((j * Pitch + (m + 1)) - 1) % Pitch = m
  <2>1. (j * Pitch + (m + 1)) - 1 = j * Pitch + m  BY <1>2
  <2>2. QED  BY <1>1, <2>1, Division
<1>4. ASSUME NEW a \in 0 .. quad
      PROVE  Spot(j * Pitch + (2 * a + 1)) = <<a, j>> /\ Spot(j * Pitch + (2 * a + 2)) = <<a, j + 1>>
  <2>1. /\ 2 * a \in 0 .. Pitch - 1 /\ 2 * a + 1 \in 0 .. Pitch - 1
        /\ 2 * a <= 2 * quad + 1 /\ 2 * a + 1 <= 2 * quad + 1 /\ (2 * a + 1) + 1 = 2 * a + 2
        /\ (2 * a) \div 2 = a /\ (2 * a) % 2 = 0 /\ (2 * a + 1) \div 2 = a /\ (2 * a + 1) % 2 = 1
    BY <1>1
  <2>2. Spot(j * Pitch + (2 * a + 1)) = <<a, j + 0>>  BY <1>3, <2>1 DEF Spot
  <2>3. Spot(j * Pitch + ((2 * a + 1) + 1)) = <<a, j + 1>>  BY <1>3, <2>1 DEF Spot
  <2>4. QED  BY <2>1, <2>2, <2>3
<1>5. Spot(j * Pitch + (2 * quad + 3)) = <<quad, j + 1>>
  <2>1. /\ 2 * quad + 2 \in 0 .. Pitch - 1 /\ ~ (2 * quad + 2 <= 2 * quad + 1)
        /\ (2 * quad + 2) + 1 = 2 * quad + 3
    BY <1>1
  <2>2. Spot(j * Pitch + ((2 * quad + 2) + 1)) = <<quad, j + 1>>  BY <1>3, <2>1 DEF Spot
  <2>3. QED  BY <2>1, <2>2
<1>6. Spot(j * Pitch + (2 * quad + 4)) = <<0, j + 1>>
  <2>1. /\ 2 * quad + 3 \in 0 .. Pitch - 1 /\ ~ (2 * quad + 3 <= 2 * quad + 1)
        /\ 2 * quad + 3 # 2 * quad + 2 /\ (2 * quad + 3) + 1 = 2 * quad + 4
    BY <1>1
  <2>2. Spot(j * Pitch + ((2 * quad + 3) + 1)) = <<0, j + 1>>  BY <1>3, <2>1 DEF Spot
  <2>3. QED  BY <2>1, <2>2
<1>7. QED  BY <1>4, <1>5, <1>6

(* An index of a strip is one of a band or of the junction after it; the   *)
(* last band has no junction.                                              *)
LEMMA IndexIs ==
  ASSUME quad \in Nat \ {0}, NEW i \in 1 .. StripSize
  PROVE  \E j \in 0 .. quad - 1 :
           \/ \E a \in 0 .. quad : i = j * Pitch + (2 * a + 1) \/ i = j * Pitch + (2 * a + 2)
           \/ j < quad - 1 /\ (i = j * Pitch + (2 * quad + 3) \/ i = j * Pitch + (2 * quad + 4))
<1> DEFINE j == (i - 1) \div Pitch
           m == (i - 1) % Pitch
<1>1. Pitch \in Nat \ {0} /\ Pitch = 2 * quad + 4  BY DEF Pitch
<1>2. StripSize = (quad - 1) * Pitch + (2 * quad + 2) /\ StripSize \in Nat
  <2>1. quad * ((quad + 1) * 2) + 2 * (quad - 1) = (quad - 1) * (2 * quad + 4) + (2 * quad + 2)  OBVIOUS
  <2>2. QED  BY <1>1, <2>1 DEF StripSize
<1>3. i - 1 \in Nat /\ i \in Nat  BY <1>2
<1>4. j \in Nat /\ m \in 0 .. Pitch - 1 /\ i - 1 = j * Pitch + m  BY <1>1, <1>3, Remainder
<1> HIDE DEF j, m
<1>5. i = j * Pitch + (m + 1) /\ j * Pitch \in Nat  BY <1>1, <1>3, <1>4
<1>6. j <= quad - 1
  <2>1. SUFFICES ASSUME quad - 1 < j PROVE FALSE
    BY <1>4
  <2>2. (quad - 1) * Pitch <= j * Pitch - Pitch  BY <1>1, <1>4, <2>1, Product
  <2>3. (quad - 1) * Pitch \in Nat  BY <1>1
  <2>4. QED  BY <1>1, <1>2, <1>4, <1>5, <2>2, <2>3
<1>7. CASE m <= 2 * quad + 1
  <2>1. m \in Nat /\ m = 2 * (m \div 2) + (m % 2) /\ m % 2 \in {0, 1} /\ m \div 2 \in 0 .. quad
    BY <1>4, <1>7
  <2> DEFINE a == m \div 2
  <2>2. m + 1 = 2 * a + 1 \/ m + 1 = 2 * a + 2  BY <2>1
  <2>3. QED  BY <1>4, <1>5, <1>6, <2>1, <2>2
<1>8. CASE m > 2 * quad + 1
  <2>1. m + 1 = 2 * quad + 3 \/ m + 1 = 2 * quad + 4  BY <1>1, <1>4, <1>8
  <2>2. j # quad - 1
    <3>1. SUFFICES ASSUME j = quad - 1 PROVE FALSE
      OBVIOUS
    <3>2. i = (quad - 1) * Pitch + (m + 1)  BY <1>5, <3>1
    <3>3. i <= (quad - 1) * Pitch + (2 * quad + 2)  BY <1>2
    <3>4. (quad - 1) * Pitch \in Nat  BY <1>1
    <3>5. QED  BY <1>4, <1>8, <3>2, <3>3, <3>4
  <2>3. QED  BY <1>4, <1>5, <1>6, <2>1, <2>2
<1>9. QED  BY <1>4, <1>7, <1>8

(* A strip ends with the last band.                                        *)
LEMMA StripSizeIs ==
  ASSUME quad \in Nat \ {0}
  PROVE  StripSize \in Nat \ {0} /\ StripSize = (quad - 1) * Pitch + (2 * quad + 2)
<1>1. quad * ((quad + 1) * 2) + 2 * (quad - 1) = (quad - 1) * (2 * quad + 4) + (2 * quad + 2)  OBVIOUS
<1>2. (quad - 1) * (2 * quad + 4) \in Nat  OBVIOUS
<1>3. QED  BY <1>1, <1>2 DEF StripSize, Pitch

(* A strip stays in its chunk.                                             *)
LEMMA SpotIn ==
  ASSUME quad \in Nat \ {0}, NEW i \in 1 .. StripSize
  PROVE  /\ Spot(i)[1] \in 0 .. quad /\ Spot(i)[2] \in 0 .. quad
         /\ Spot(i) = <<Spot(i)[1], Spot(i)[2]>>
<1>1. PICK j \in 0 .. quad - 1 :
           \/ \E a \in 0 .. quad : i = j * Pitch + (2 * a + 1) \/ i = j * Pitch + (2 * a + 2)
           \/ j < quad - 1 /\ (i = j * Pitch + (2 * quad + 3) \/ i = j * Pitch + (2 * quad + 4))
  BY IndexIs
<1>2. j \in Nat  OBVIOUS
<1>3. \/ \E a \in 0 .. quad : Spot(i) = <<a, j>> \/ Spot(i) = <<a, j + 1>>
      \/ Spot(i) = <<quad, j + 1>> \/ Spot(i) = <<0, j + 1>>
  BY <1>1, <1>2, SpotIs
<1>4. QED  BY <1>3

(* A strip: the band of every row of squares, joined to the next one.      *)
LEMMA StripIs ==
  ASSUME quad \in Nat \ {0}, NEW k, VertexPerRow(k) \in Nat
  PROVE  /\ Strip(k) \in Seq(Nat) /\ Len(Strip(k)) = StripSize
         /\ \A i \in 1 .. StripSize : Strip(k)[i] = Spot(i)[1] + Spot(i)[2] * VertexPerRow(k)
<1> DEFINE P == VertexPerRow(k)
           seqs == [j \in 1 .. quad |-> Band(j - 1, P) \o Junction(j - 1, P)]
           F == FlattenSeq(seqs)
<1>1. Strip(k) = F  BY DEF Strip
<1>2. P \in Nat /\ Pitch \in Nat /\ Pitch = 2 * quad + 4  BY DEF Pitch
<1> HIDE DEF P, F
<1>3. ASSUME NEW j \in 0 .. quad - 1
      PROVE  /\ seqs[j + 1] = Band(j, P) \o Junction(j, P)
             /\ seqs[j + 1] \in Seq(Nat)
             /\ Len(seqs[j + 1]) = IF j = quad - 1 THEN 2 * quad + 2 ELSE Pitch
             /\ \A a \in 0 .. quad : /\ seqs[j + 1][2 * a + 1] = a + j * P
                                     /\ seqs[j + 1][2 * a + 2] = a + (j + 1) * P
             /\ j # quad - 1 => /\ seqs[j + 1][2 * quad + 3] = quad + (j + 1) * P
                                /\ seqs[j + 1][2 * quad + 4] = (j + 1) * P
  <2> DEFINE b == Band(j, P)
             t == Junction(j, P)
             x == j * P
             y == (j + 1) * P
  <2>1. j \in Nat /\ (j + 1) - 1 = j /\ j + 1 \in 1 .. quad  OBVIOUS
  <2>2. seqs[j + 1] = b \o t  BY <2>1
  <2> HIDE DEF seqs
  <2>3. x \in Nat /\ y \in Nat  BY <1>2, <2>1
  <2>4. /\ b \in Seq(Nat) /\ Len(b) = 2 * quad + 2
        /\ \A a \in 0 .. quad : b[2 * a + 1] = a + x /\ b[2 * a + 2] = a + y
    BY <1>2, <2>1, BandIs
  <2>5. t = IF j = quad - 1 THEN <<>> ELSE <<quad + y, y>>  BY DEF Junction
  <2>6. t \in Seq(Nat) /\ Len(t) = IF j = quad - 1 THEN 0 ELSE 2
    <3> HIDE DEF t, y
    <3>1. QED  BY <2>3, <2>5
  <2> HIDE DEF b, t, x, y
  <2>7. /\ b \o t \in Seq(Nat) /\ Len(b \o t) = Len(b) + Len(t)
        /\ \A i \in 1 .. Len(b) + Len(t) : (b \o t)[i] = IF i <= Len(b) THEN b[i] ELSE t[i - Len(b)]
    BY <2>4, <2>6, ConcatProperties
  <2>8. \A a \in 0 .. quad : (b \o t)[2 * a + 1] = a + x /\ (b \o t)[2 * a + 2] = a + y
    <3> SUFFICES ASSUME NEW a \in 0 .. quad
                 PROVE  (b \o t)[2 * a + 1] = a + x /\ (b \o t)[2 * a + 2] = a + y
      OBVIOUS
    <3>1. Len(t) \in Nat  BY <2>6
    <3>2. 2 * a + 1 \in 1 .. Len(b) /\ 2 * a + 2 \in 1 .. Len(b)  BY <2>4
    <3>3. (b \o t)[2 * a + 1] = b[2 * a + 1] /\ (b \o t)[2 * a + 2] = b[2 * a + 2]
      BY <2>4, <2>7, <3>1, <3>2
    <3>4. QED  BY <2>4, <3>3
  <2>9. j # quad - 1 => (b \o t)[2 * quad + 3] = quad + y /\ (b \o t)[2 * quad + 4] = y
    <3> SUFFICES ASSUME j # quad - 1
                 PROVE  (b \o t)[2 * quad + 3] = quad + y /\ (b \o t)[2 * quad + 4] = y
      OBVIOUS
    <3>1. Len(t) = 2 /\ t[1] = quad + y /\ t[2] = y  BY <2>5, <2>6
    <3>2. /\ 2 * quad + 3 \in 1 .. Len(b) + 2 /\ 2 * quad + 4 \in 1 .. Len(b) + 2
          /\ ~ (2 * quad + 3 <= Len(b)) /\ ~ (2 * quad + 4 <= Len(b))
          /\ (2 * quad + 3) - Len(b) = 1 /\ (2 * quad + 4) - Len(b) = 2
      BY <2>4
    <3>3. QED  BY <2>7, <3>1, <3>2
  <2>10. Len(b \o t) = IF j = quad - 1 THEN 2 * quad + 2 ELSE Pitch  BY <1>2, <2>4, <2>6, <2>7
  <2>11. QED  BY <2>2, <2>7, <2>8, <2>9, <2>10 DEF b, t, x, y
<1>4. \A j \in 1 .. quad : j - 1 \in 0 .. quad - 1 /\ (j - 1) + 1 = j  OBVIOUS
<1>5. seqs \in Seq(Seq(Nat)) /\ Len(seqs) = quad
  <2>1. \A j \in 1 .. quad : seqs[j] \in Seq(Nat)
    <3> HIDE DEF seqs
    <3>1. QED  BY <1>3, <1>4
  <2>2. seqs = [j \in 1 .. quad |-> seqs[j]]  OBVIOUS
  <2> HIDE DEF seqs
  <2>3. seqs \in [1 .. quad -> Seq(Nat)]  BY <2>1, <2>2
  <2>4. QED  BY <2>3
<1> HIDE DEF seqs
<1>6. \A j \in 1 .. quad - 1 : Len(seqs[j]) = Pitch
  <2> SUFFICES ASSUME NEW j \in 1 .. quad - 1 PROVE Len(seqs[j]) = Pitch
    OBVIOUS
  <2>1. j - 1 \in 0 .. quad - 1 /\ (j - 1) + 1 = j /\ j - 1 # quad - 1  OBVIOUS
  <2>2. QED  BY <1>3, <2>1
<1>7. Len(seqs[quad]) = 2 * quad + 2
  <2>1. quad - 1 \in 0 .. quad - 1 /\ (quad - 1) + 1 = quad  OBVIOUS
  <2>2. QED  BY <1>3, <2>1
<1>8. F \in Seq(Nat) /\ Laid(F, seqs, Pitch)
  <2>1. quad \in Nat \ {0}  OBVIOUS
  <2>2. QED  BY <1>2, <1>5, <1>6, <2>1, FlattenUniform DEF F
<1>9. Len(F) = StripSize  BY <1>5, <1>7, <1>8, StripSizeIs DEF Laid
<1>10. ASSUME NEW j \in 0 .. quad - 1, NEW m \in 1 .. Len(seqs[j + 1])
       PROVE  F[j * Pitch + m] = seqs[j + 1][m]
  <2> DEFINE h == j + 1
  <2>1. h \in 1 .. quad /\ h - 1 = j  OBVIOUS
  <2> HIDE DEF h
  <2>2. F[(h - 1) * Pitch + m] = seqs[h][m]  BY <1>5, <1>8, <2>1 DEF Laid, h
  <2>3. QED  BY <2>1, <2>2 DEF h
<1>11. ASSUME NEW i \in 1 .. StripSize
       PROVE  F[i] = Spot(i)[1] + Spot(i)[2] * P
  <2>1. PICK j \in 0 .. quad - 1 :
             \/ \E a \in 0 .. quad : i = j * Pitch + (2 * a + 1) \/ i = j * Pitch + (2 * a + 2)
             \/ j < quad - 1 /\ (i = j * Pitch + (2 * quad + 3) \/ i = j * Pitch + (2 * quad + 4))
    BY IndexIs
  <2>2. j \in Nat /\ j * P \in Nat /\ (j + 1) * P \in Nat  BY <1>2
  <2> DEFINE l == Len(seqs[j + 1])
  <2>8. l = IF j = quad - 1 THEN 2 * quad + 2 ELSE Pitch  BY <1>3
  <2> HIDE DEF l
  <2>3. ASSUME NEW a \in 0 .. quad, i = j * Pitch + (2 * a + 1)
        PROVE  F[i] = Spot(i)[1] + Spot(i)[2] * P
    <3>1. 2 * a + 1 \in 1 .. l  BY <1>2, <2>8
    <3>2. F[i] = a + j * P  BY <1>3, <1>10, <2>3, <3>1 DEF l
    <3>3. Spot(i) = <<a, j>>  BY <2>2, <2>3, SpotIs
    <3>4. QED  BY <3>2, <3>3
  <2>4. ASSUME NEW a \in 0 .. quad, i = j * Pitch + (2 * a + 2)
        PROVE  F[i] = Spot(i)[1] + Spot(i)[2] * P
    <3>1. 2 * a + 2 \in 1 .. l  BY <1>2, <2>8
    <3>2. F[i] = a + (j + 1) * P  BY <1>3, <1>10, <2>4, <3>1 DEF l
    <3>3. Spot(i) = <<a, j + 1>>  BY <2>2, <2>4, SpotIs
    <3>4. QED  BY <3>2, <3>3
  <2>5. ASSUME j < quad - 1, i = j * Pitch + (2 * quad + 3)
        PROVE  F[i] = Spot(i)[1] + Spot(i)[2] * P
    <3>1. 2 * quad + 3 \in 1 .. l /\ j # quad - 1  BY <1>2, <2>5, <2>8
    <3>2. F[i] = quad + (j + 1) * P  BY <1>3, <1>10, <2>5, <3>1 DEF l
    <3>3. Spot(i) = <<quad, j + 1>>  BY <2>2, <2>5, SpotIs
    <3>4. QED  BY <3>2, <3>3
  <2>6. ASSUME j < quad - 1, i = j * Pitch + (2 * quad + 4)
        PROVE  F[i] = Spot(i)[1] + Spot(i)[2] * P
    <3>1. 2 * quad + 4 \in 1 .. l /\ j # quad - 1  BY <1>2, <2>6, <2>8
    <3>2. F[i] = (j + 1) * P  BY <1>3, <1>10, <2>6, <3>1 DEF l
    <3>3. Spot(i) = <<0, j + 1>>  BY <2>2, <2>6, SpotIs
    <3>4. QED  BY <2>2, <3>2, <3>3
  <2>7. QED  BY <2>1, <2>3, <2>4, <2>5, <2>6
<1>12. QED  BY <1>1, <1>8, <1>9, <1>11 DEF P

(* The strips of all levels: level k begins at StartIndex(k).              *)
LEMMA AllStripsIs ==
  ASSUME Sized
  PROVE  /\ AllStrips \in Seq(Nat)
         /\ \A k \in LODs : \A i \in 1 .. StripSize :
              AllStrips[StartIndex(k) + i] = Spot(i)[1] + Spot(i)[2] * (quad * Side(k) + 1)
<1> DEFINE n == Cardinality(LODs)
           seqs == [k \in 1 .. n |-> Strip(k - 1)]
           F == FlattenSeq(seqs)
<1>1. Level(grid) \in 0 .. 15 /\ quad \in Nat \ {0}  BY LevelIs, QuadEven DEF Sized
<1>2. n = Level(grid) + 1 /\ n \in Nat \ {0}
  <2>1. Cardinality(0 .. Level(grid)) = Level(grid) - 0 + 1
    <3>1. 0 \in Int /\ Level(grid) \in Int /\ ~ (0 > Level(grid))  BY <1>1
    <3>2. QED  BY <3>1, FS_Interval
  <2>2. QED  BY <1>1, <2>1 DEF LODs
<1> HIDE DEF n, F
<1>3. \A k \in 1 .. n : k - 1 \in LODs  BY <1>1, <1>2 DEF LODs
<1>4. ASSUME NEW k \in LODs
      PROVE  /\ VertexPerRow(k) = quad * Side(k) + 1
             /\ Strip(k) \in Seq(Nat) /\ Len(Strip(k)) = StripSize
             /\ \A i \in 1 .. StripSize : Strip(k)[i] = Spot(i)[1] + Spot(i)[2] * VertexPerRow(k)
  <2>1. VertexPerRow(k) = quad * Side(k) + 1 /\ quad * Side(k) \in Nat  BY VertexPerRowIs
  <2>2. VertexPerRow(k) \in Nat  BY <2>1
  <2>3. QED  BY <1>1, <2>1, <2>2, StripIs
<1>5. seqs \in Seq(Seq(Nat)) /\ Len(seqs) = n /\ \A k \in 1 .. n : Len(seqs[k]) = StripSize
  <2>1. \A k \in 1 .. n : Strip(k - 1) \in Seq(Nat) /\ Len(Strip(k - 1)) = StripSize  BY <1>3, <1>4
  <2>2. \A k \in 1 .. n : seqs[k] = Strip(k - 1)  OBVIOUS
  <2>3. seqs = [k \in 1 .. n |-> seqs[k]]  OBVIOUS
  <2> HIDE DEF seqs
  <2>4. seqs \in [1 .. n -> Seq(Nat)]  BY <2>1, <2>2, <2>3
  <2>5. seqs \in Seq(Seq(Nat)) /\ Len(seqs) = n  BY <1>2, <2>4
  <2>6. \A k \in 1 .. n : Len(seqs[k]) = StripSize  BY <2>1, <2>2
  <2>7. QED  BY <2>5, <2>6
<1>6. \A k \in LODs : k + 1 \in 1 .. n /\ (k + 1) - 1 = k /\ seqs[k + 1] = Strip(k)
  <2> SUFFICES ASSUME NEW k \in LODs
               PROVE  k + 1 \in 1 .. n /\ (k + 1) - 1 = k /\ seqs[k + 1] = Strip(k)
    OBVIOUS
  <2>1. k + 1 \in 1 .. n /\ (k + 1) - 1 = k  BY <1>1, <1>2 DEF LODs
  <2>2. QED  BY <2>1
<1> HIDE DEF seqs
<1>7. StripSize \in Nat  BY <1>1, StripSizeIs
<1>8. F \in Seq(Nat) /\ Laid(F, seqs, StripSize)
  <2>1. \A k \in 1 .. n - 1 : Len(seqs[k]) = StripSize  BY <1>2, <1>5
  <2>2. QED  BY <1>2, <1>5, <1>7, <2>1, FlattenUniform DEF F
<1>9. ASSUME NEW k \in LODs, NEW i \in 1 .. StripSize
      PROVE  F[StartIndex(k) + i] = Spot(i)[1] + Spot(i)[2] * (quad * Side(k) + 1)
  <2> DEFINE j == k + 1
  <2>1. j \in 1 .. n /\ j - 1 = k /\ seqs[j] = Strip(k)  BY <1>6
  <2> HIDE DEF j
  <2>2. F[(j - 1) * StripSize + i] = seqs[j][i]
    <3>1. i \in 1 .. Len(seqs[j])  BY <1>5, <2>1
    <3>2. QED  BY <1>5, <1>8, <2>1, <3>1 DEF Laid
  <2>3. F[StartIndex(k) + i] = Strip(k)[i]  BY <2>1, <2>2 DEF StartIndex
  <2>4. QED  BY <1>4, <2>3
<1>10. AllStrips = F  BY DEF AllStrips, F, seqs, n
<1>11. QED  BY <1>8, <1>9, <1>10

-----------------------------------------------------------------------------
(* The chunks, the vertices they draw, and their boxes.                    *)

(* The chunks of a level, and of all levels.                               *)
Chunk(k, x, z) == [lod |-> k, x |-> x, z |-> z]
LevelChunks(k) == {Chunk(k, x, z) : x, z \in 0 .. Side(k) - 1}

(* The four children of a chunk.                                           *)
LEMMA SubChunksAre ==
  ASSUME NEW k, NEW x, NEW z
  PROVE  /\ SubChunks(Chunk(k, x, z))[1] = Chunk(k - 1, x * 2 + 0, z * 2 + 0)
         /\ SubChunks(Chunk(k, x, z))[2] = Chunk(k - 1, x * 2 + 1, z * 2 + 0)
         /\ SubChunks(Chunk(k, x, z))[3] = Chunk(k - 1, x * 2 + 0, z * 2 + 1)
         /\ SubChunks(Chunk(k, x, z))[4] = Chunk(k - 1, x * 2 + 1, z * 2 + 1)
         /\ DOMAIN SubChunks(Chunk(k, x, z)) = 1 .. 4
<1>1. /\ (1 - 1) % 2 = 0 /\ (2 - 1) % 2 = 1 /\ (3 - 1) % 2 = 0 /\ (4 - 1) % 2 = 1
      /\ (1 - 1) \div 2 = 0 /\ (2 - 1) \div 2 = 0 /\ (3 - 1) \div 2 = 1 /\ (4 - 1) \div 2 = 1
  OBVIOUS
<1>2. QED  BY <1>1 DEF SubChunks, Chunk

(* CreateChunks makes, on each level, one chunk for every column and row.  *)
LEMMA ChunkTreeIs ==
  ASSUME Sized
  PROVE  ChunkTree = UNION {LevelChunks(k) : k \in LODs}
<1> DEFINE n == Level(grid)
           Next_(g) == [k \in LODs |-> IF k = n THEN {TopChunk}
                                       ELSE UNION {ToSet(SubChunks(c)) : c \in g[k + 1]}]
           Row == CHOOSE g : g = Next_(g)
           Rows == [k \in LODs |-> LevelChunks(k)]
<1>1. n \in 0 .. 15 /\ LODs = 0 .. n  BY LevelIs DEF Sized, LODs
<1>2. LevelChunks(n) = {TopChunk}
  <2>1. n \in LODs  BY <1>1
  <2>2. Side(n) = 1  BY <2>1, SideIs DEF Sized
  <2>3. 0 .. Side(n) - 1 = {0}  BY <2>2
  <2>4. QED  BY <2>3 DEF LevelChunks, Chunk, TopChunk
<1>3. ASSUME NEW k \in LODs, k # n
      PROVE  UNION {ToSet(SubChunks(c)) : c \in LevelChunks(k + 1)} = LevelChunks(k)
  <2> DEFINE s == Side(k + 1)
             U == UNION {ToSet(SubChunks(c)) : c \in LevelChunks(k + 1)}
  <2>1. k \in Nat /\ k + 1 \in LODs /\ (k + 1) - 1 = k /\ k < n  BY <1>1, <1>3
  <2>2. s \in Nat \ {0} /\ Side(k) = 2 * s
    BY <2>1, SideIs DEF Sized
  <2> HIDE DEF s
  <2>3. \A x, z \in 0 .. s - 1 : \A a, b \in {0, 1} :
          x * 2 + a \in 0 .. 2 * s - 1 /\ z * 2 + b \in 0 .. 2 * s - 1
    BY <2>2
  <2>4. ASSUME NEW x \in 0 .. s - 1, NEW z \in 0 .. s - 1
        PROVE  ToSet(SubChunks(Chunk(k + 1, x, z))) = {Chunk(k, x * 2 + a, z * 2 + b) : a, b \in {0, 1}}
    <3> DEFINE q == SubChunks(Chunk(k + 1, x, z))
    <3>1. /\ q[1] = Chunk(k, x * 2 + 0, z * 2 + 0) /\ q[2] = Chunk(k, x * 2 + 1, z * 2 + 0)
          /\ q[3] = Chunk(k, x * 2 + 0, z * 2 + 1) /\ q[4] = Chunk(k, x * 2 + 1, z * 2 + 1)
          /\ DOMAIN q = 1 .. 4
      <4> DEFINE h == k + 1
      <4>1. h - 1 = k  BY <2>1
      <4> HIDE DEF h
      <4>2. /\ SubChunks(Chunk(h, x, z))[1] = Chunk(h - 1, x * 2 + 0, z * 2 + 0)
            /\ SubChunks(Chunk(h, x, z))[2] = Chunk(h - 1, x * 2 + 1, z * 2 + 0)
            /\ SubChunks(Chunk(h, x, z))[3] = Chunk(h - 1, x * 2 + 0, z * 2 + 1)
            /\ SubChunks(Chunk(h, x, z))[4] = Chunk(h - 1, x * 2 + 1, z * 2 + 1)
            /\ DOMAIN SubChunks(Chunk(h, x, z)) = 1 .. 4
        BY SubChunksAre
      <4>3. q = SubChunks(Chunk(h, x, z))  BY DEF h
      <4> HIDE DEF q
      <4>4. QED  BY <4>1, <4>2, <4>3
    <3> HIDE DEF q
    <3>2. ToSet(q) = {q[1], q[2], q[3], q[4]}
      <4>1. DOMAIN q = {1, 2, 3, 4}  BY <3>1
      <4>2. QED  BY <4>1 DEF ToSet
    <3>3. QED  BY <3>1, <3>2 DEF q
  <2>5. ASSUME NEW c \in U PROVE c \in LevelChunks(k)
    <3>1. PICK x \in 0 .. s - 1, z \in 0 .. s - 1 : c \in ToSet(SubChunks(Chunk(k + 1, x, z)))
      BY DEF LevelChunks, s
    <3>2. PICK a \in {0, 1}, b \in {0, 1} : c = Chunk(k, x * 2 + a, z * 2 + b)  BY <2>4, <3>1
    <3>3. x * 2 + a \in 0 .. Side(k) - 1 /\ z * 2 + b \in 0 .. Side(k) - 1  BY <2>2, <2>3
    <3>4. QED  BY <3>2, <3>3 DEF LevelChunks
  <2>6. ASSUME NEW c \in LevelChunks(k) PROVE c \in U
    <3>1. PICK x \in 0 .. 2 * s - 1, z \in 0 .. 2 * s - 1 : c = Chunk(k, x, z)
      BY <2>2 DEF LevelChunks
    <3>2. \A y \in 0 .. 2 * s - 1 : \E h \in 0 .. s - 1 : \E a \in {0, 1} : y = h * 2 + a
      <4> SUFFICES ASSUME NEW y \in 0 .. 2 * s - 1
                   PROVE  \E h \in 0 .. s - 1 : \E a \in {0, 1} : y = h * 2 + a
        OBVIOUS
      <4>1. y \div 2 \in 0 .. s - 1 /\ y % 2 \in {0, 1} /\ y = (y \div 2) * 2 + (y % 2)  BY <2>2
      <4>2. QED  BY <4>1
    <3>3. PICK h \in 0 .. s - 1 : \E a \in {0, 1} : x = h * 2 + a  BY <3>2
    <3>4. PICK i \in 0 .. s - 1 : \E a \in {0, 1} : z = i * 2 + a  BY <3>2
    <3>5. c \in ToSet(SubChunks(Chunk(k + 1, h, i)))  BY <2>4, <3>1, <3>3, <3>4
    <3>6. Chunk(k + 1, h, i) \in LevelChunks(k + 1)  BY DEF LevelChunks, s
    <3>7. QED  BY <3>5, <3>6
  <2>7. QED  BY <2>5, <2>6
<1>4. Rows = Next_(Rows)
  <2>1. \A k \in LODs : k # n => k + 1 \in LODs  BY <1>1
  <2>2. \A k \in LODs : LevelChunks(k) = IF k = n THEN {TopChunk}
                                         ELSE UNION {ToSet(SubChunks(c)) : c \in Rows[k + 1]}
    BY <1>2, <1>3, <2>1
  <2>3. QED  BY <2>2
<1>5. Row = Next_(Row)  BY <1>4
<1>6. \A k \in LODs : Row[k] = IF k = n THEN {TopChunk}
                               ELSE UNION {ToSet(SubChunks(c)) : c \in Row[k + 1]}
  <2> DEFINE f == Next_(Row)
  <2>1. Row = f  BY <1>5
  <2>2. \A k \in LODs : f[k] = IF k = n THEN {TopChunk}
                               ELSE UNION {ToSet(SubChunks(c)) : c \in Row[k + 1]}
    OBVIOUS
  <2> HIDE DEF f, Row
  <2>3. QED  BY <2>1, <2>2
<1>7. ChunkTree = UNION {Row[k] : k \in LODs}  BY DEF ChunkTree
<1>13. n \in LODs /\ \A k \in LODs : n - k \in Nat /\ n - k <= n /\ n - (n - k) = k
  BY <1>1
<1> HIDE DEF Row, Next_, Rows, n
<1>14. ASSUME NEW m \in Nat, m + 1 <= n
       PROVE  n - (m + 1) \in LODs /\ n - (m + 1) # n /\ (n - (m + 1)) + 1 = n - m
  <2>1. n \in Nat  BY <1>1
  <2>2. n - (m + 1) \in 0 .. n  BY <2>1, <1>14
  <2>3. n - (m + 1) # n /\ (n - (m + 1)) + 1 = n - m  BY <2>1
  <2>4. QED  BY <1>1, <2>2, <2>3
<1> DEFINE S == {m \in Nat : m <= n => Row[n - m] = LevelChunks(n - m)}
<1>8. 0 \in S
  <2>1. n - 0 = n /\ n \in LODs  BY <1>1
  <2>2. Row[n - 0] = LevelChunks(n - 0)  BY <1>2, <1>6, <2>1
  <2>3. QED  BY <2>2
<1>9. ASSUME NEW m \in Nat, m \in S PROVE m + 1 \in S
  <2> SUFFICES ASSUME m + 1 <= n PROVE Row[n - (m + 1)] = LevelChunks(n - (m + 1))
    OBVIOUS
  <2> DEFINE k == n - (m + 1)
  <2>1. k \in LODs /\ k # n /\ k + 1 = n - m  BY <1>14
  <2>2. Row[n - m] = LevelChunks(n - m)  BY <1>1, <1>9
  <2> HIDE DEF k
  <2>3. Row[k] = LevelChunks(k)  BY <1>3, <1>6, <2>1, <2>2
  <2>4. QED  BY <2>3 DEF k
<1>10. Nat \subseteq S
  <2> HIDE DEF S
  <2>1. QED  BY <1>8, <1>9, Induct
<1>11. \A k \in LODs : Row[k] = LevelChunks(k)
  <2> SUFFICES ASSUME NEW k \in LODs PROVE Row[k] = LevelChunks(k)
    OBVIOUS
  <2>1. n - k \in Nat /\ n - k <= n /\ n - (n - k) = k  BY <1>13
  <2>2. Row[n - (n - k)] = LevelChunks(n - (n - k))  BY <1>10, <2>1
  <2>3. QED  BY <2>1, <2>2
<1>12. QED  BY <1>7, <1>11

(* What the index buffer of an indexed landscape holds.                    *)
Indexed ==
  /\ indexes = <<indexes[1]>> /\ indexes[1] \in Seq(Nat)
  /\ \A k \in LODs : \A i \in 1 .. StripSize :
       indexes[1][StartIndex(k) + i] = Spot(i)[1] + Spot(i)[2] * (quad * Side(k) + 1)

(* The vertices of a chunk: the column and the row of each in its level.   *)
Col(c, i) == c.x * quad + Spot(i)[1]
Row(c, i) == c.z * quad + Spot(i)[2]

(* A column of a chunk is one of its level.                                *)
LEMMA Along ==
  ASSUME quad \in Nat \ {0}, NEW s \in Nat \ {0}, NEW x \in 0 .. s - 1, NEW a \in 0 .. quad
  PROVE  x * quad \in Nat /\ x * quad + a \in 0 .. quad * s
<1>1. x * quad <= s * quad - quad  BY Product
<1>2. x * quad \in Nat /\ s * quad \in Nat /\ s * quad = quad * s  OBVIOUS
<1>3. QED  BY <1>1, <1>2

(* Which vertex of its level a chunk draws, and where it is.               *)
LEMMA DrawnIs ==
  ASSUME Sized, Indexed, NEW k \in LODs, NEW c \in LevelChunks(k), NEW i \in 1 .. StripSize
  PROVE  /\ c.lod = k /\ c.x \in 0 .. Side(k) - 1 /\ c.z \in 0 .. Side(k) - 1
         /\ c = Chunk(k, c.x, c.z)
         /\ Col(c, i) \in 0 .. quad * Side(k) /\ Row(c, i) \in 0 .. quad * Side(k)
         /\ DrawnVertex(c, i) = Col(c, i) + Row(c, i) * (quad * Side(k) + 1)
         /\ DrawnVertex(c, i) - StartVertex(c) = Spot(i)[1] + Spot(i)[2] * (quad * Side(k) + 1)
         /\ Position(k, DrawnVertex(c, i)) = <<Col(c, i) * Increment(k), Row(c, i) * Increment(k)>>
<1> DEFINE s == Side(k)
           P == quad * s + 1
           x == c.x
           z == c.z
           a == Spot(i)[1]
           b == Spot(i)[2]
<1>1. c.lod = k /\ x \in 0 .. s - 1 /\ z \in 0 .. s - 1 /\ c = Chunk(k, c.x, c.z)
  BY DEF LevelChunks, Chunk
<1>2. quad \in Nat \ {0} /\ s \in Nat \ {0} /\ VertexPerRow(k) = P /\ P \in Nat
  BY QuadEven, SideIs, VertexPerRowIs DEF Sized
<1>3. a \in 0 .. quad /\ b \in 0 .. quad  BY <1>2, SpotIn
<1>4. indexes[1][StartIndex(k) + i] = a + b * P  BY DEF Indexed
<1>5. DrawnVertex(c, i) = StartVertex(c) + (a + b * P) /\ StartVertex(c) = x * quad + z * quad * P
  BY <1>1, <1>2, <1>4 DEF DrawnVertex, StartVertex
<1>6. /\ x * quad \in Nat /\ x * quad + a \in 0 .. quad * s
      /\ z * quad \in Nat /\ z * quad + b \in 0 .. quad * s
  <2> HIDE DEF s, x, z, a, b
  <2>1. QED  BY <1>1, <1>2, <1>3, Along
<1> HIDE DEF s, P, x, z, a, b
<1>7. StartVertex(c) + (a + b * P) = (x * quad + a) + (z * quad + b) * P
  <2>1. \A u, v \in Nat : (u + v * P) + (a + b * P) = (u + a) + (v + b) * P  BY <1>2, <1>3
  <2>2. QED  BY <1>5, <1>6, <2>1
<1>8. DrawnVertex(c, i) - StartVertex(c) = a + b * P
  <2>1. StartVertex(c) \in Nat /\ a + b * P \in Nat
    <3>1. (z * quad) * P \in Nat /\ b * P \in Nat  BY <1>2, <1>3, <1>6
    <3>2. QED  BY <1>3, <1>5, <1>6, <3>1
  <2>2. QED  BY <1>5, <2>1
<1>9. Position(k, (x * quad + a) + (z * quad + b) * P)
        = <<(x * quad + a) * Increment(k), (z * quad + b) * Increment(k)>>
  BY <1>6, PositionIs DEF s, P
<1>10. Col(c, i) = x * quad + a /\ Row(c, i) = z * quad + b  BY DEF Col, Row, x, z, a, b
<1>11. QED  BY <1>1, <1>5, <1>6, <1>7, <1>8, <1>9, <1>10 DEF s, P, x, z, a, b

(* A vertex drawn is in its level's buffer and in the window announced.    *)
LEMMA DrawnInBounds ==
  ASSUME Sized, Indexed, NEW k \in LODs, NEW c \in LevelChunks(k), NEW i \in 1 .. StripSize
  PROVE  /\ DrawnVertex(c, i) < VertexPerRow(c.lod) * VertexPerRow(c.lod)
         /\ DrawnVertex(c, i) - StartVertex(c) < NumVertices(c.lod)
<1> DEFINE w == quad * Side(k)
           u == Col(c, i)
           v == Row(c, i)
           a == Spot(i)[1]
           b == Spot(i)[2]
<1>1. /\ c.lod = k /\ u \in 0 .. w /\ v \in 0 .. w
      /\ DrawnVertex(c, i) = u + v * (w + 1)
      /\ DrawnVertex(c, i) - StartVertex(c) = a + b * (w + 1)
  BY DrawnIs
<1>2. quad \in Nat \ {0} /\ w \in Nat /\ VertexPerRow(k) = w + 1  BY QuadEven, VertexPerRowIs DEF Sized
<1>3. a \in 0 .. quad /\ b \in 0 .. quad  BY <1>2, SpotIn
<1> HIDE DEF w, u, v, a, b
<1>4. u + v * (w + 1) < (w + 1) * (w + 1)
  <2>1. v * (w + 1) <= w * (w + 1)
    <3>1. w + 1 \in Nat \ {0} /\ v \in Int /\ w \in Int /\ v <= w  BY <1>1, <1>2
    <3>2. QED  BY <3>1, Product
  <2>2. (w + 1) * (w + 1) = w * (w + 1) + (w + 1) /\ w * (w + 1) \in Nat /\ v * (w + 1) \in Nat
    BY <1>1, <1>2
  <2>3. QED  BY <1>1, <1>2, <2>1, <2>2
<1>5. a + b * (w + 1) < (w + 1) * (quad + 1) - ((w + 1) - (quad + 1))
  <2>1. b * (w + 1) <= quad * (w + 1)
    <3>1. w + 1 \in Nat \ {0} /\ b \in Int /\ quad \in Int /\ b <= quad  BY <1>2, <1>3
    <3>2. QED  BY <3>1, Product
  <2>2. (w + 1) * (quad + 1) = quad * (w + 1) + (w + 1) /\ quad * (w + 1) \in Nat /\ b * (w + 1) \in Nat
    BY <1>2, <1>3
  <2>3. QED  BY <1>2, <1>3, <2>1, <2>2
<1>6. NumVertices(k) = (w + 1) * (quad + 1) - ((w + 1) - (quad + 1))  BY <1>2 DEF NumVertices
<1>7. QED  BY <1>1, <1>2, <1>4, <1>5, <1>6
(* The least of some numbers.                                              *)
LEMMA MinIs ==
  ASSUME NEW T \in SUBSET Int, NEW m \in T, \A t \in T : m <= t
  PROVE  Min(T) = m
<1>1. Min(T) = CHOOSE x \in T : \A y \in T : x <= y  BY DEF Min
<1>2. Min(T) \in T /\ \A y \in T : Min(T) <= y  BY <1>1
<1>3. Min(T) <= m /\ m <= Min(T) /\ m \in Int /\ Min(T) \in Int  BY <1>2
<1>4. QED  BY <1>3

(* The greatest of some numbers.                                           *)
LEMMA MaxIs ==
  ASSUME NEW T \in SUBSET Int, NEW m \in T, \A t \in T : t <= m
  PROVE  Max(T) = m
<1>1. Max(T) = CHOOSE x \in T : \A y \in T : x >= y  BY DEF Max
<1>2. Max(T) \in T /\ \A y \in T : Max(T) >= y  BY <1>1
<1>3. Max(T) >= m /\ m >= Max(T) /\ m \in Int /\ Max(T) \in Int  BY <1>2
<1>4. QED  BY <1>3

(* The rectangle of a chunk.                                               *)
BoxOf(c) ==
  LET n == Increment(c.lod)
  IN [low  |-> <<(c.x * quad) * n, (c.z * quad) * n>>,
      high |-> <<(c.x * quad + quad) * n, (c.z * quad + quad) * n>>]

(* The corners that tell where the box of a chunk ends are drawn.          *)
LEMMA CornersDrawn ==
  ASSUME quad \in Nat \ {0}
  PROVE  /\ \E i \in 1 .. StripSize : Spot(i)[1] = 0 /\ Spot(i)[2] = 0
         /\ \E i \in 1 .. StripSize : Spot(i)[1] = quad /\ Spot(i)[2] = quad
<1>1. 1 \in 1 .. StripSize /\ StripSize \in 1 .. StripSize  BY StripSizeIs
<1>2. Spot(1) = <<0, 0>>
  <2>1. 0 * Pitch + (2 * 0 + 1) = 1  BY DEF Pitch
  <2>2. Spot(0 * Pitch + (2 * 0 + 1)) = <<0, 0>>
    <3>1. 0 \in Nat /\ 0 \in 0 .. quad  OBVIOUS
    <3>2. QED  BY <3>1, SpotIs
  <2>3. QED  BY <2>1, <2>2
<1>3. Spot(StripSize) = <<quad, quad>>
  <2> DEFINE j == quad - 1
  <2>1. j \in Nat /\ quad \in 0 .. quad /\ j + 1 = quad  OBVIOUS
  <2>2. StripSize = j * Pitch + (2 * quad + 2)  BY StripSizeIs
  <2> HIDE DEF j
  <2>3. Spot(j * Pitch + (2 * quad + 2)) = <<quad, j + 1>>  BY <2>1, SpotIs
  <2>4. QED  BY <2>1, <2>2, <2>3
<1>4. QED  BY <1>1, <1>2, <1>3

(* The box of what a chunk draws is its rectangle.                         *)
LEMMA BoxIs ==
  ASSUME Sized, Indexed, NEW k \in LODs, NEW c \in LevelChunks(k)
  PROVE  Box(c) = BoxOf(c)
<1> DEFINE n == Increment(k)
           X == {Position(c.lod, DrawnVertex(c, i))[1] : i \in 1 .. StripSize}
           Z == {Position(c.lod, DrawnVertex(c, i))[2] : i \in 1 .. StripSize}
<1>1. n \in Nat \ {0} /\ quad \in Nat \ {0} /\ Side(k) \in Nat \ {0}  BY SideIs, QuadEven DEF Sized
<1>2. c.lod = k /\ c.x \in Nat /\ c.z \in Nat  BY <1>1 DEF LevelChunks, Chunk
<1>3. \A i \in 1 .. StripSize : /\ Position(c.lod, DrawnVertex(c, i))[1] = Col(c, i) * n
                                /\ Position(c.lod, DrawnVertex(c, i))[2] = Row(c, i) * n
  BY <1>2, DrawnIs
<1>4. X = {Col(c, i) * n : i \in 1 .. StripSize} /\ Z = {Row(c, i) * n : i \in 1 .. StripSize}
  BY <1>3
<1> HIDE DEF X, Z, n
<1>5. ASSUME NEW p \in Nat, NEW a \in 0 .. quad
      PROVE  /\ (p * quad + a) * n \in Int /\ (p * quad) * n <= (p * quad + a) * n
             /\ (p * quad + a) * n <= (p * quad + quad) * n
  <2> DEFINE q == p * quad
  <2>1. q \in Nat  BY <1>1
  <2> HIDE DEF q
  <2>2. q \in Int /\ q + a \in Int /\ q + quad \in Int /\ q <= q + a /\ q + a <= q + quad  BY <1>1, <2>1
  <2>3. q * n <= (q + a) * n /\ (q + a) * n <= (q + quad) * n  BY <1>1, <2>2, Product
  <2>4. (q + a) * n \in Int  BY <1>1, <2>2
  <2>5. QED  BY <2>3, <2>4 DEF q
<1>6. \A i \in 1 .. StripSize : Spot(i)[1] \in 0 .. quad /\ Spot(i)[2] \in 0 .. quad  BY <1>1, SpotIn
<1>7. PICK i \in 1 .. StripSize : Spot(i)[1] = 0 /\ Spot(i)[2] = 0  BY <1>1, CornersDrawn
<1>8. PICK j \in 1 .. StripSize : Spot(j)[1] = quad /\ Spot(j)[2] = quad  BY <1>1, CornersDrawn
<1>9. Min(X) = (c.x * quad) * n /\ Max(X) = (c.x * quad + quad) * n
  <2>1. X \in SUBSET Int  BY <1>2, <1>4, <1>5, <1>6 DEF Col
  <2>2. \A t \in X : (c.x * quad) * n <= t /\ t <= (c.x * quad + quad) * n
    BY <1>2, <1>4, <1>5, <1>6 DEF Col
  <2>3. c.x * quad + 0 = c.x * quad  BY <1>1, <1>2
  <2>4. Col(c, i) * n = (c.x * quad) * n /\ Col(c, j) * n = (c.x * quad + quad) * n
    BY <1>7, <1>8, <2>3 DEF Col
  <2>5. (c.x * quad) * n \in X /\ (c.x * quad + quad) * n \in X  BY <1>4, <2>4
  <2>6. QED  BY <2>1, <2>2, <2>5, MinIs, MaxIs
<1>10. Min(Z) = (c.z * quad) * n /\ Max(Z) = (c.z * quad + quad) * n
  <2>1. Z \in SUBSET Int  BY <1>2, <1>4, <1>5, <1>6 DEF Row
  <2>2. \A t \in Z : (c.z * quad) * n <= t /\ t <= (c.z * quad + quad) * n
    BY <1>2, <1>4, <1>5, <1>6 DEF Row
  <2>3. c.z * quad + 0 = c.z * quad  BY <1>1, <1>2
  <2>4. Row(c, i) * n = (c.z * quad) * n /\ Row(c, j) * n = (c.z * quad + quad) * n
    BY <1>7, <1>8, <2>3 DEF Row
  <2>5. (c.z * quad) * n \in Z /\ (c.z * quad + quad) * n \in Z  BY <1>4, <2>4
  <2>6. QED  BY <2>1, <2>2, <2>5, MinIs, MaxIs
<1>11. Box(c) = [low |-> <<Min(X), Min(Z)>>, high |-> <<Max(X), Max(Z)>>]  BY DEF Box, X, Z
<1>12. QED  BY <1>2, <1>9, <1>10, <1>11 DEF BoxOf, n

-----------------------------------------------------------------------------
(* What Open builds, stage by stage.                                       *)

(* What Open has built when it comes to a stage.                           *)
Sizes == stage \in {"created", "indexed", "shaped", "raised", "filled", "open"} => Sized
Strips == stage \in {"indexed", "shaped", "raised", "filled", "open"} => Indexed
Chunks ==
  stage = "open" => /\ chunks = UNION {LevelChunks(k) : k \in LODs}
                    /\ \A c \in chunks : boxes[c] = BoxOf(c)
Built == Sizes /\ Strips /\ Chunks

(* What the sizes alone determine stays while they do.                     *)
LEMMA SameShape ==
  ASSUME UNCHANGED <<quad, grid>>
  PROVE  /\ Sized' = Sized /\ LODs' = LODs /\ StripSize' = StripSize
         /\ \A k : Side(k)' = Side(k) /\ StartIndex(k)' = StartIndex(k)
         /\ \A k : LevelChunks(k)' = LevelChunks(k)
         /\ \A i : Spot(i)' = Spot(i)
         /\ \A c : BoxOf(c)' = BoxOf(c)
<1>1. Sized' = Sized  BY DEF Sized
<1>2. LODs' = LODs  BY DEF LODs, Level
<1>3. StripSize' = StripSize  BY DEF StripSize
<1>4. ASSUME NEW k PROVE Side(k)' = Side(k)  BY DEF Side, Level, Increment
<1>5. ASSUME NEW k PROVE StartIndex(k)' = StartIndex(k)  BY <1>3 DEF StartIndex
<1>6. ASSUME NEW k PROVE LevelChunks(k)' = LevelChunks(k)  BY <1>4 DEF LevelChunks, Chunk
<1>7. ASSUME NEW i PROVE Spot(i)' = Spot(i)  BY DEF Spot, Pitch
<1>8. ASSUME NEW c PROVE BoxOf(c)' = BoxOf(c)  BY DEF BoxOf, Increment
<1>9. QED  BY <1>1, <1>2, <1>3, <1>4, <1>5, <1>6, <1>7, <1>8

(* And so does the index buffer.                                           *)
LEMMA SameStrips ==
  ASSUME UNCHANGED <<quad, grid, indexes>>
  PROVE  Indexed' = Indexed
BY SameShape DEF Indexed

(* And so do the chunks.                                                   *)
LEMMA SameChunks ==
  ASSUME UNCHANGED <<quad, grid, boxes>>, stage = "open"
  PROVE  Chunks => Chunks'
BY SameShape DEF Chunks, chunks

(* Each stage of Open builds what it should, from what those before it     *)
(* built.                                                                  *)
LEMMA StepBuilds ==
  ASSUME Built, [Next]_vars
  PROVE  Built'
<1>1. CASE Open
  <2>1. stage' \in {"created", "failed"}  BY <1>1 DEF Open
  <2>2. stage' = "created" => Sized'  BY <1>1, SizeAssumption DEF Open, Sized
  <2>3. QED  BY <2>1, <2>2 DEF Built, Sizes, Strips, Chunks
<1>2. CASE Release
  BY <1>2 DEF Release, Built, Sizes, Strips, Chunks
<1>3. CASE CreateIndexBuffer
  <2>1. stage = "created" /\ stage' \in {"indexed", "failed"} /\ UNCHANGED <<quad, grid>>
        /\ indexes' = <<AllStrips>>
    BY <1>3 DEF CreateIndexBuffer, config
  <2>2. Sized  BY <2>1 DEF Built, Sizes
  <2>3. Indexed'
    <3>1. indexes'[1] = AllStrips /\ indexes' = <<indexes'[1]>>  BY <2>1
    <3>2. /\ indexes'[1] \in Seq(Nat)
          /\ \A k \in LODs : \A i \in 1 .. StripSize :
               indexes'[1][StartIndex(k) + i] = Spot(i)[1] + Spot(i)[2] * (quad * Side(k) + 1)
      BY <2>2, <3>1, AllStripsIs
    <3>3. QED  BY <2>1, <3>1, <3>2, SameShape DEF Indexed
  <2>4. Sized'  BY <2>1, <2>2, SameShape
  <2>5. QED  BY <2>1, <2>3, <2>4 DEF Built, Sizes, Strips, Chunks
<1>4. CASE CreateVertexBufferIndependent
  <2>1. stage = "indexed" /\ stage' = "shaped" /\ UNCHANGED <<quad, grid, indexes>>
    BY <1>4 DEF CreateVertexBufferIndependent, config
  <2>2. Sized' /\ Indexed'  BY <2>1, SameShape, SameStrips DEF Built, Sizes, Strips
  <2>3. QED  BY <2>1, <2>2 DEF Built, Sizes, Strips, Chunks
<1>5. CASE LoadHeightmap
  <2>1. stage = "shaped" /\ stage' \in {"raised", "failed"} /\ UNCHANGED <<quad, grid, indexes>>
    BY <1>5 DEF LoadHeightmap, config, memory
  <2>2. Sized' /\ Indexed'  BY <2>1, SameShape, SameStrips DEF Built, Sizes, Strips
  <2>3. QED  BY <2>1, <2>2 DEF Built, Sizes, Strips, Chunks
<1>6. CASE CreateVertexBuffer
  <2>1. /\ stage = "raised" /\ stage' \in {"filled", "raised", "failed"}
        /\ UNCHANGED <<quad, grid, indexes>>
    BY <1>6 DEF CreateVertexBuffer, config
  <2>2. Sized' /\ Indexed'  BY <2>1, SameShape, SameStrips DEF Built, Sizes, Strips
  <2>3. QED  BY <2>1, <2>2 DEF Built, Sizes, Strips, Chunks
<1>7. CASE CreateChunks
  <2>1. /\ stage = "filled" /\ stage' = "open" /\ UNCHANGED <<quad, grid, indexes>>
        /\ boxes' = [c \in ChunkTree |-> Box(c)]
    BY <1>7 DEF CreateChunks, config, memory
  <2>2. Sized /\ Indexed  BY <2>1 DEF Built, Sizes, Strips
  <2>3. Sized' /\ Indexed'  BY <2>1, <2>2, SameShape, SameStrips
  <2>4. DOMAIN boxes' = UNION {LevelChunks(k) : k \in LODs}  BY <2>1, <2>2, ChunkTreeIs
  <2>5. \A c \in DOMAIN boxes' : boxes'[c] = BoxOf(c)
    <3>1. \A k \in LODs : \A c \in LevelChunks(k) : Box(c) = BoxOf(c)  BY <2>2, BoxIs
    <3>2. QED  BY <2>1, <2>4, <3>1
  <2>6. Chunks'  BY <2>1, <2>4, <2>5, SameShape DEF Chunks, chunks
  <2>7. QED  BY <2>3, <2>6 DEF Built, Sizes, Strips
<1>8. CASE UNCHANGED vars
  <2>1. UNCHANGED <<quad, grid, indexes, boxes, stage>>  BY <1>8 DEF vars, config, memory, tree
  <2>2. Sizes' /\ Strips'  BY <2>1, SameShape, SameStrips DEF Built, Sizes, Strips
  <2>3. Chunks'
    <3>1. CASE stage = "open"  BY <2>1, <3>1, SameChunks DEF Built
    <3>2. CASE stage # "open"  BY <2>1, <3>2 DEF Chunks
    <3>3. QED  BY <3>1, <3>2
  <2>4. QED  BY <2>2, <2>3 DEF Built
<1>9. QED  BY <1>1, <1>2, <1>3, <1>4, <1>5, <1>6, <1>7, <1>8 DEF Next

(* Built is an invariant.                                                  *)
LEMMA AlwaysBuilt == Spec => []Built
<1>1. Init => Built  BY DEF Init, Built, Sizes, Strips, Chunks
<1>2. QED  BY <1>1, StepBuilds, PTL DEF Spec

(* The device reads within its buffers, whatever the sizes of the terrain  *)
(* (LandscapeChunk::Render).                                               *)
THEOREM DrawsInBounds == Spec => []DrawInBounds
<1>1. Built => DrawInBounds
  <2> SUFFICES ASSUME Built, stage = "open", NEW c \in chunks, NEW i \in 1 .. StripSize
               PROVE  /\ DrawnVertex(c, i) < VertexPerRow(c.lod) * VertexPerRow(c.lod)
                      /\ DrawnVertex(c, i) - StartVertex(c) < NumVertices(c.lod)
    BY DEF DrawInBounds
  <2>1. Sized /\ Indexed  BY DEF Built, Sizes, Strips
  <2>2. PICK k \in LODs : c \in LevelChunks(k)  BY DEF Built, Chunks
  <2>3. QED  BY <2>1, <2>2, DrawnInBounds
<1>2. QED  BY <1>1, AlwaysBuilt, PTL

-----------------------------------------------------------------------------
(* The water level of a point.                                             *)

(* The water level of a point: that of the vertex at the corner of its     *)
(* square.                                                                 *)
Water(p) == <<(p[2] \div 2) * VertexPerRow(0) + (p[1] \div 2)>>

(* A chunk of a level above the first has its four children, and a point   *)
(* in it is in one of them.                                                *)
LEMMA ChildHasPoint ==
  ASSUME Sized, Chunks, stage = "open", NEW c \in chunks, c.lod # 0, NEW p \in Int \X Int
  PROVE  /\ \A n \in 1 .. 4 : SubChunks(c)[n] \in chunks /\ SubChunks(c)[n].lod = c.lod - 1
         /\ ~ NotInChunk(c, p) => \E n \in 1 .. 4 : ~ NotInChunk(SubChunks(c)[n], p)
<1>1. PICK k \in LODs : c \in LevelChunks(k)  BY DEF Chunks
<1>2. PICK x \in 0 .. Side(k) - 1, z \in 0 .. Side(k) - 1 : c = Chunk(k, x, z)
  BY <1>1 DEF LevelChunks
<1>3. c.lod = k /\ c.x = x /\ c.z = z  BY <1>2 DEF Chunk
<1> DEFINE h == k - 1
           m == Increment(h)
           q == SubChunks(c)
<1>4. k \in 0 .. Level(grid) /\ Level(grid) \in 0 .. 15 /\ k # 0  BY <1>3, LevelIs DEF Sized, LODs
<1>5. h \in LODs /\ h + 1 = k /\ h \in 0 .. 14 /\ h < Level(grid) /\ h = k - 1  BY <1>4 DEF LODs
<1> HIDE DEF h
<1>6. /\ Side(h) = 2 * Side(k) /\ m \in Nat \ {0} /\ Increment(k) = 2 * m /\ quad \in Nat \ {0}
      /\ Side(k) \in Nat \ {0}
  BY <1>5, SideIs, Increments, QuadEven DEF Sized
<1>7. /\ q[1] = Chunk(h, x * 2 + 0, z * 2 + 0) /\ q[2] = Chunk(h, x * 2 + 1, z * 2 + 0)
      /\ q[3] = Chunk(h, x * 2 + 0, z * 2 + 1) /\ q[4] = Chunk(h, x * 2 + 1, z * 2 + 1)
  BY <1>2, <1>5, SubChunksAre
<1> HIDE DEF q, m
<1>8. ASSUME NEW a \in {0, 1}, NEW b \in {0, 1}
      PROVE  /\ Chunk(h, x * 2 + a, z * 2 + b) \in chunks
             /\ Chunk(h, x * 2 + a, z * 2 + b).lod = h
  <2>1. x * 2 + a \in 0 .. Side(h) - 1 /\ z * 2 + b \in 0 .. Side(h) - 1  BY <1>6
  <2>2. Chunk(h, x * 2 + a, z * 2 + b) \in LevelChunks(h)  BY <2>1 DEF LevelChunks
  <2>3. QED  BY <1>5, <2>2 DEF Chunks, Chunk
<1>9. \A n \in 1 .. 4 : \E a, b \in {0, 1} : q[n] = Chunk(h, x * 2 + a, z * 2 + b)
  <2>1. \A n \in 1 .. 4 : n = 1 \/ n = 2 \/ n = 3 \/ n = 4  OBVIOUS
  <2>2. QED  BY <1>7, <2>1
<1>10. \A a, b \in {0, 1} : \E n \in 1 .. 4 : q[n] = Chunk(h, x * 2 + a, z * 2 + b)
  <2>1. 1 \in 1 .. 4 /\ 2 \in 1 .. 4 /\ 3 \in 1 .. 4 /\ 4 \in 1 .. 4  OBVIOUS
  <2>2. QED  BY <1>7, <2>1
<1>11. \A n \in 1 .. 4 : q[n] \in chunks /\ q[n].lod = c.lod - 1  BY <1>3, <1>5, <1>8, <1>9
<1>12. ASSUME ~ NotInChunk(c, p) PROVE \E n \in 1 .. 4 : ~ NotInChunk(q[n], p)
  <2> DEFINE Lies(v, d) == 2 * ((v * quad) * m) <= p[d] /\ p[d] <= 2 * ((v * quad + quad) * m)
  <2>1. ASSUME NEW v \in Nat, NEW d \in {1, 2},
               2 * ((v * quad) * Increment(k)) <= p[d], p[d] <= 2 * ((v * quad + quad) * Increment(k))
        PROVE  \E a \in {0, 1} : Lies(v * 2 + a, d)
    <3> DEFINE u == v * quad
               r == u * m
               t == quad * m
    <3>1. u \in Nat /\ r \in Nat /\ t \in Nat  BY <1>6
    <3>2. (v * 2 + 0) * quad = 2 * u /\ (v * 2 + 1) * quad = 2 * u + quad  BY <1>6
    <3> HIDE DEF u
    <3>3. /\ u * (2 * m) = 2 * r /\ (u + quad) * (2 * m) = 2 * r + 2 * t
          /\ (2 * u) * m = 2 * r /\ (2 * u + quad) * m = 2 * r + t
          /\ (2 * u + quad + quad) * m = 2 * r + 2 * t
      BY <1>6, <3>1
    <3> HIDE DEF r, t
    <3>4. 2 * (2 * r) <= p[d] /\ p[d] <= 2 * (2 * r + 2 * t)  BY <1>6, <2>1, <3>3 DEF u
    <3>5. p[d] \in Int  OBVIOUS
    <3>6. CASE p[d] <= 2 * (2 * r + t)
      <4>1. Lies(v * 2 + 0, d)  BY <3>2, <3>3, <3>4, <3>6
      <4>2. QED  BY <4>1
    <3>7. CASE ~ (p[d] <= 2 * (2 * r + t))
      <4>1. 2 * (2 * r + t) <= p[d]  BY <3>1, <3>5, <3>7
      <4>2. Lies(v * 2 + 1, d)  BY <3>2, <3>3, <3>4, <4>1
      <4>3. QED  BY <4>2
    <3>8. QED  BY <3>6, <3>7
  <2>2. boxes[c] = BoxOf(c)  BY DEF Chunks
  <2>3. /\ 2 * ((x * quad) * Increment(k)) <= p[1] /\ p[1] <= 2 * ((x * quad + quad) * Increment(k))
        /\ 2 * ((z * quad) * Increment(k)) <= p[2] /\ p[2] <= 2 * ((z * quad + quad) * Increment(k))
    <3> DEFINE i == Increment(k)
               x1 == (x * quad) * i
               x2 == (x * quad + quad) * i
               z1 == (z * quad) * i
               z2 == (z * quad + quad) * i
    <3>1. boxes[c] = [low |-> <<x1, z1>>, high |-> <<x2, z2>>]  BY <1>3, <2>2 DEF BoxOf
    <3>2. x1 \in Int /\ x2 \in Int /\ z1 \in Int /\ z2 \in Int  BY <1>6
    <3> HIDE DEF x1, x2, z1, z2, i
    <3>3. p[1] \in Int /\ p[2] \in Int  OBVIOUS
    <3>4. ~ (p[1] < 2 * x1 \/ p[1] > 2 * x2) /\ ~ (p[2] < 2 * z1 \/ p[2] > 2 * z2)
      BY <1>12, <3>1 DEF NotInChunk
    <3>5. 2 * x1 <= p[1] /\ p[1] <= 2 * x2 /\ 2 * z1 <= p[2] /\ p[2] <= 2 * z2
      BY <3>2, <3>3, <3>4
    <3>6. QED  BY <3>5 DEF x1, x2, z1, z2, i
  <2>4. PICK a \in {0, 1} : Lies(x * 2 + a, 1)  BY <2>1, <2>3
  <2>5. PICK b \in {0, 1} : Lies(z * 2 + b, 2)  BY <2>1, <2>3
  <2> DEFINE e == Chunk(h, x * 2 + a, z * 2 + b)
             x1 == ((x * 2 + a) * quad) * m
             x2 == ((x * 2 + a) * quad + quad) * m
             z1 == ((z * 2 + b) * quad) * m
             z2 == ((z * 2 + b) * quad + quad) * m
  <2>6. e \in chunks /\ boxes[e] = BoxOf(e)  BY <1>8 DEF Chunks
  <2>7. boxes[e] = [low |-> <<x1, z1>>, high |-> <<x2, z2>>]  BY <2>6 DEF BoxOf, Chunk, m
  <2>8. x1 \in Int /\ x2 \in Int /\ z1 \in Int /\ z2 \in Int  BY <1>6
  <2>9. 2 * x1 <= p[1] /\ p[1] <= 2 * x2 /\ 2 * z1 <= p[2] /\ p[2] <= 2 * z2  BY <2>4, <2>5
  <2> HIDE DEF e, x1, x2, z1, z2
  <2>10. p[1] \in Int /\ p[2] \in Int  OBVIOUS
  <2>11. ~ NotInChunk(e, p)
    <3>1. /\ ~ (p[1] < 2 * x1) /\ ~ (p[1] > 2 * x2) /\ ~ (p[2] < 2 * z1) /\ ~ (p[2] > 2 * z2)
      BY <2>8, <2>9, <2>10
    <3>2. QED  BY <2>7, <3>1 DEF NotInChunk
  <2>12. QED  BY <1>10, <2>11 DEF e
<1>13. QED  BY <1>11, <1>12 DEF q

(* What one chunk answers, given what the others do: GetWaterIndex is the  *)
(* function that answers so for every chunk.                               *)
Reply(g, c, p) ==
  IF NotInChunk(c, p) THEN <<>>
  ELSE IF c.lod = 0 THEN Water(p)
  ELSE LET found == {n \in 1 .. 4 : g[SubChunks(c)[n]] # <<>>}
       IN IF found = {} THEN Asserted ELSE g[SubChunks(c)[Min(found)]]

(* The first child that has the point is one of those that have it.        *)
LEMMA FirstOf ==
  ASSUME NEW T, T \subseteq 1 .. 4, T # {}
  PROVE  Min(T) \in T
<1>1. T \subseteq Nat /\ T \in SUBSET Int  OBVIOUS
<1>2. PICK m \in T : \A t \in T : m <= t  BY <1>1, Least
<1>3. QED  BY <1>1, <1>2, MinIs

(* Each chunk that has the point answers its water level.                  *)
LEMMA ReplyIs ==
  ASSUME Sized, Chunks, stage = "open", NEW p \in Int \X Int, NEW c \in chunks, NEW g,
         c.lod # 0 => \A n \in 1 .. 4 : g[SubChunks(c)[n]] =
                        IF NotInChunk(SubChunks(c)[n], p) THEN <<>> ELSE Water(p)
  PROVE  Reply(g, c, p) = IF NotInChunk(c, p) THEN <<>> ELSE Water(p)
<1>1. CASE NotInChunk(c, p)  BY <1>1 DEF Reply
<1>2. CASE ~ NotInChunk(c, p) /\ c.lod = 0  BY <1>2 DEF Reply
<1>3. CASE ~ NotInChunk(c, p) /\ c.lod # 0
  <2> DEFINE found == {n \in 1 .. 4 : g[SubChunks(c)[n]] # <<>>}
  <2>1. \E n \in 1 .. 4 : ~ NotInChunk(SubChunks(c)[n], p)  BY <1>3, ChildHasPoint
  <2>2. Water(p) # <<>>  BY DEF Water
  <2>3. found # {}  BY <1>3, <2>1, <2>2
  <2>4. Min(found) \in found
    <3>1. found \subseteq 1 .. 4  OBVIOUS
    <3> HIDE DEF found
    <3>2. QED  BY <2>3, <3>1, FirstOf
  <2>5. g[SubChunks(c)[Min(found)]] = Water(p)
    <3> DEFINE n == Min(found)
    <3> HIDE DEF n
    <3>1. n \in 1 .. 4 /\ g[SubChunks(c)[n]] # <<>>  BY <2>4 DEF n
    <3>2. QED  BY <1>3, <3>1 DEF n
  <2> HIDE DEF found
  <2>6. Reply(g, c, p) = g[SubChunks(c)[Min(found)]]  BY <1>3, <2>3 DEF Reply, found
  <2>7. QED  BY <1>3, <2>5, <2>6
<1>4. QED  BY <1>1, <1>2, <1>3

(* GetWaterIndex answers the water level of every point the terrain has:   *)
(* the answers of the chunks exist, and are unique by induction on the     *)
(* level.                                                                  *)
LEMMA WaterIndexIs ==
  ASSUME Sized, Chunks, stage = "open", NEW p \in Int \X Int
  PROVE  GetWaterIndex(p) = IF NotInChunk(TopChunk, p) THEN <<>> ELSE Water(p)
<1> DEFINE Is(g) == g = [c \in chunks |-> Reply(g, c, p)]
           A == CHOOSE g : Is(g)
           W == [c \in chunks |-> IF NotInChunk(c, p) THEN <<>> ELSE Water(p)]
<1>1. GetWaterIndex(p) = A[TopChunk]  BY DEF GetWaterIndex, Reply, Water
<1>2. Level(grid) \in 0 .. 15 /\ LODs = 0 .. Level(grid)  BY LevelIs DEF Sized, LODs
<1>3. ASSUME NEW c \in chunks
      PROVE  c.lod \in Nat /\ c.lod # 0 => \A n \in 1 .. 4 : SubChunks(c)[n] \in chunks
                                                          /\ SubChunks(c)[n].lod = c.lod - 1
  BY ChildHasPoint
<1>4. Is(W)
  <2>1. \A c \in chunks : Reply(W, c, p) = IF NotInChunk(c, p) THEN <<>> ELSE Water(p)
    <3> SUFFICES ASSUME NEW c \in chunks
                 PROVE  Reply(W, c, p) = IF NotInChunk(c, p) THEN <<>> ELSE Water(p)
      OBVIOUS
    <3>1. \A d \in chunks : W[d] = IF NotInChunk(d, p) THEN <<>> ELSE Water(p)  OBVIOUS
    <3> HIDE DEF W
    <3>2. c.lod # 0 => \A n \in 1 .. 4 : SubChunks(c)[n] \in chunks  BY ChildHasPoint
    <3>3. c.lod # 0 => \A n \in 1 .. 4 : W[SubChunks(c)[n]] =
                         IF NotInChunk(SubChunks(c)[n], p) THEN <<>> ELSE Water(p)
      BY <3>1, <3>2
    <3>4. QED  BY <3>3, ReplyIs
  <2> DEFINE R(g) == [c \in chunks |-> Reply(g, c, p)]
  <2>2. R(W) = [c \in chunks |-> IF NotInChunk(c, p) THEN <<>> ELSE Water(p)]
    <3> HIDE DEF W
    <3>1. QED  BY <2>1
  <2>3. QED  BY <2>2
<1>5. Is(A)
  <2> HIDE DEF Is, W
  <2>1. QED  BY <1>4
<1>6. \A c \in chunks : A[c] = Reply(A, c, p)
  <2> DEFINE f == [c \in chunks |-> Reply(A, c, p)]
  <2>1. A = f  BY <1>5
  <2> HIDE DEF A
  <2>2. \A c \in chunks : f[c] = Reply(A, c, p)  OBVIOUS
  <2> HIDE DEF f
  <2>3. QED  BY <2>1, <2>2
<1> HIDE DEF A, W, Is
<1> DEFINE S == {n \in Nat : \A c \in chunks :
                   c.lod = n => A[c] = IF NotInChunk(c, p) THEN <<>> ELSE Water(p)}
<1>7. 0 \in S
  <2>1. \A c \in chunks : c.lod = 0 => A[c] = IF NotInChunk(c, p) THEN <<>> ELSE Water(p)
    BY <1>6, ReplyIs
  <2>2. QED  BY <2>1
<1>8. ASSUME NEW n \in Nat, n \in S PROVE n + 1 \in S
  <2> SUFFICES ASSUME NEW c \in chunks, c.lod = n + 1
               PROVE  A[c] = IF NotInChunk(c, p) THEN <<>> ELSE Water(p)
    OBVIOUS
  <2>1. c.lod # 0 /\ c.lod - 1 = n  OBVIOUS
  <2>2. \A m \in 1 .. 4 : SubChunks(c)[m] \in chunks /\ SubChunks(c)[m].lod = n
    BY <2>1, ChildHasPoint
  <2>3. \A m \in 1 .. 4 : A[SubChunks(c)[m]] =
          IF NotInChunk(SubChunks(c)[m], p) THEN <<>> ELSE Water(p)
    BY <1>8, <2>2
  <2>4. QED  BY <1>6, <2>3, ReplyIs
<1>9. Nat \subseteq S
  <2> HIDE DEF S
  <2>1. QED  BY <1>7, <1>8, Induct
<1>10. TopChunk \in chunks /\ TopChunk.lod \in Nat
  <2> DEFINE k == Level(grid)
  <2>1. k \in LODs /\ Side(k) = 1
    <3>1. k \in LODs  BY <1>2
    <3>2. QED  BY <3>1, SideIs DEF Sized
  <2>2. 0 \in 0 .. Side(k) - 1  BY <2>1
  <2>3. TopChunk \in LevelChunks(k)  BY <2>2 DEF LevelChunks, Chunk, TopChunk
  <2>4. TopChunk.lod = k  BY DEF TopChunk
  <2>5. QED  BY <1>2, <2>1, <2>3, <2>4 DEF Chunks
<1>11. A[TopChunk] = IF NotInChunk(TopChunk, p) THEN <<>> ELSE Water(p)  BY <1>9, <1>10
<1>12. QED  BY <1>1, <1>11

(* The top chunk has exactly the points of the terrain.                    *)
LEMMA TopChunkHas ==
  ASSUME Sized, Chunks, stage = "open", NEW x \in Int, NEW z \in Int
  PROVE  NotInChunk(TopChunk, <<x, z>>)
           <=> x < 0 \/ z < 0 \/ x > 2 * quad * grid \/ z > 2 * quad * grid
<1> DEFINE k == Level(grid)
           e == quad * grid
<1>1. k \in LODs /\ Side(k) = 1 /\ Increment(k) = grid /\ Increment(k) \in Nat \ {0}
  <2>1. k \in LODs  BY LevelIs DEF LODs, Sized
  <2>2. QED  BY <2>1, LevelIs, SideIs DEF Sized
<1>2. TopChunk \in chunks
  <2>1. 0 \in 0 .. Side(k) - 1  BY <1>1
  <2>2. TopChunk \in LevelChunks(k)  BY <2>1 DEF LevelChunks, Chunk, TopChunk
  <2>3. QED  BY <1>1, <2>2 DEF Chunks
<1>3. quad \in Nat /\ e \in Nat /\ 2 * quad * grid = 2 * e  BY <1>1, QuadEven DEF Sized
<1>4. boxes[TopChunk] = [low |-> <<(0 * quad) * grid, (0 * quad) * grid>>,
                         high |-> <<(0 * quad + quad) * grid, (0 * quad + quad) * grid>>]
  BY <1>1, <1>2 DEF Chunks, BoxOf, TopChunk
<1>5. (0 * quad) * grid = 0 /\ (0 * quad + quad) * grid = e  BY <1>1, <1>3
<1> HIDE DEF e, k
<1>6. boxes[TopChunk] = [low |-> <<0, 0>>, high |-> <<e, e>>]  BY <1>4, <1>5
<1>7. NotInChunk(TopChunk, <<x, z>>) <=> x < 2 * 0 \/ z < 2 * 0 \/ x > 2 * e \/ z > 2 * e
  BY <1>6 DEF NotInChunk
<1>8. QED  BY <1>3, <1>7

(* Every point of the terrain has the water level of its square, and no    *)
(* point outside has one, whatever the sizes of the terrain                *)
(* (LandscapeChunk::GetWaterIndex).                                        *)
THEOREM WaterIsExact == Spec => []WaterExact
<1>1. Built => WaterExact
  <2> SUFFICES ASSUME Built, stage = "open" PROVE WaterExact
    BY DEF WaterExact
  <2>1. Sized /\ Chunks  BY DEF Built, Sizes
  <2> DEFINE e == quad * grid
             Size == 2 * quad * grid
  <2>2. 0 \in LODs /\ Increment(0) = 1 /\ Side(0) = grid /\ grid \in Nat /\ quad \in Nat
    <3>1. 0 \in LODs  BY <2>1, LevelIs DEF Sized, LODs
    <3>2. Increment(0) = 1 /\ Side(0) \in Nat /\ Side(0) * Increment(0) = grid
      BY <2>1, <3>1, Increments, SideIs DEF Sized
    <3>3. Side(0) = grid  BY <3>2
    <3>4. QED  BY <2>1, <3>1, <3>2, <3>3, QuadEven DEF Sized
  <2>3. e \in Nat /\ Size \in Nat /\ Size = 2 * e  BY <2>2
  <2>4. VertexPerRow(0) = e + 1  BY <2>1, <2>2, VertexPerRowIs
  <2>5. ASSUME NEW x \in 0 .. Size, NEW z \in 0 .. Size
        PROVE  /\ GetWaterIndex(<<x, z>>) \notin {<<>>, Asserted}
               /\ Position(0, GetWaterIndex(<<x, z>>)[1]) = <<x \div 2, z \div 2>>
    <3> DEFINE a == x \div 2
               b == z \div 2
    <3> HIDE DEF e, Size
    <3>1. x \in Int /\ z \in Int /\ a \in 0 .. e /\ b \in 0 .. e  BY <2>3
    <3>2. <<x, z>> \in Int \X Int  BY <3>1
    <3>3. ~ NotInChunk(TopChunk, <<x, z>>)
      <4>1. ~ (x < 0 \/ z < 0 \/ x > Size \/ z > Size)  BY <2>3
      <4>2. QED  BY <2>1, <3>1, <4>1, TopChunkHas DEF Size
    <3>4. GetWaterIndex(<<x, z>>) = Water(<<x, z>>)  BY <2>1, <3>2, <3>3, WaterIndexIs
    <3>5. Water(<<x, z>>) = <<b * (e + 1) + a>>  BY <2>4 DEF Water
    <3> HIDE DEF a, b
    <3>6. b * (e + 1) \in Nat /\ b * (e + 1) + a = a + b * (e + 1) /\ a + b * (e + 1) \in Nat
      BY <2>3, <3>1
    <3>7. Position(0, a + b * (e + 1)) = <<a * Increment(0), b * Increment(0)>>
      <4>1. a \in 0 .. quad * Side(0) /\ b \in 0 .. quad * Side(0)  BY <2>2, <3>1 DEF e
      <4>2. Position(0, a + b * (quad * Side(0) + 1)) = <<a * Increment(0), b * Increment(0)>>
        BY <2>1, <2>2, <4>1, PositionIs
      <4>3. QED  BY <2>2, <4>2 DEF e
    <3>8. Position(0, a + b * (e + 1)) = <<a, b>>  BY <2>2, <3>1, <3>7
    <3>9. GetWaterIndex(<<x, z>>) = <<a + b * (e + 1)>>  BY <3>4, <3>5, <3>6
    <3>10. <<a + b * (e + 1)>> # <<>> /\ <<a + b * (e + 1)>> # <<-1>>  BY <3>6
    <3>11. QED  BY <3>8, <3>9, <3>10 DEF Asserted, a, b
  <2>6. ASSUME NEW x \in 0 .. Size PROVE GetWaterIndex(<<x, Size + 1>>) = <<>>
    <3> HIDE DEF e
    <3>1. x \in Int /\ Size + 1 \in Int /\ Size + 1 > Size  BY <2>3
    <3>2. <<x, Size + 1>> \in Int \X Int  BY <3>1
    <3>3. NotInChunk(TopChunk, <<x, Size + 1>>)  BY <2>1, <3>1, TopChunkHas
    <3>4. QED  BY <2>1, <3>2, <3>3, WaterIndexIs
  <2>7. QED
    <3> HIDE DEF Size, e
    <3>1. QED  BY <2>5, <2>6 DEF WaterExact, Size
<1>2. QED  BY <1>1, AlwaysBuilt, PTL

-----------------------------------------------------------------------------
(* The triangles of a level.                                               *)

(* One element or two.                                                     *)
LEMMA OneOrTwo ==
  ASSUME NEW x, NEW y
  PROVE  IsFiniteSet({x, y}) /\ Cardinality({x, y}) = IF x = y THEN 1 ELSE 2
<1> DEFINE S == {x}
<1>1. S \cup {y} = {x, y} /\ (y \in S <=> x = y)  OBVIOUS
<1>2. IsFiniteSet(S) /\ Cardinality(S) = 1  BY FS_Singleton
<1> HIDE DEF S
<1>3. /\ IsFiniteSet(S \cup {y})
      /\ Cardinality(S \cup {y}) = IF y \in S THEN Cardinality(S) ELSE Cardinality(S) + 1
  BY <1>2, FS_AddElement
<1>4. QED  BY <1>1, <1>2, <1>3

(* Three corners span a triangle when no two are the same.                 *)
LEMMA Three ==
  ASSUME NEW p, NEW q, NEW r, NEW s, s = <<p, q, r>>
  PROVE  /\ p # q /\ q # r /\ p # r => Cardinality(ToSet(s)) = 3
         /\ p = q \/ q = r \/ p = r => Cardinality(ToSet(s)) # 3
<1>1. ToSet(s) = {p, q, r}
  <2>1. DOMAIN s = {1, 2, 3}  OBVIOUS
  <2>2. s[1] = p /\ s[2] = q /\ s[3] = r  OBVIOUS
  <2>3. ToSet(s) = {s[i] : i \in {1, 2, 3}}  BY <2>1 DEF ToSet
  <2>4. QED  BY <2>2, <2>3
<1>3. \A x, y : IsFiniteSet({x, y}) /\ Cardinality({x, y}) = IF x = y THEN 1 ELSE 2
  BY OneOrTwo
<1>4. Cardinality({p, q, r}) = IF r \in {p, q} THEN Cardinality({p, q}) ELSE Cardinality({p, q}) + 1
  <2> DEFINE S == {p, q}
  <2>1. S \cup {r} = {p, q, r} /\ IsFiniteSet(S)  BY <1>3
  <2> HIDE DEF S
  <2>2. Cardinality(S \cup {r}) = IF r \in S THEN Cardinality(S) ELSE Cardinality(S) + 1
    BY <2>1, FS_AddElement
  <2>3. QED  BY <2>1, <2>2 DEF S
<1>5. Cardinality({p, q}) = IF p = q THEN 1 ELSE 2  BY <1>3
<1>6. p # q /\ q # r /\ p # r => Cardinality({p, q, r}) = 3
  <2>1. p # r /\ q # r => r \notin {p, q}  OBVIOUS
  <2>2. QED  BY <1>4, <1>5, <2>1
<1>7. p = q => Cardinality({p, q, r}) # 3  BY <1>4, <1>5
<1>8. q = r \/ p = r => Cardinality({p, q, r}) # 3
  <2>1. q = r \/ p = r => r \in {p, q}  OBVIOUS
  <2>2. QED  BY <1>4, <1>5, <2>1
<1>9. QED  BY <1>1, <1>6, <1>7, <1>8

(* The two triangles of the square in a column and a row of a chunk are    *)
(* drawn from consecutive indexes, and all others have no area.            *)
At(h, a, j) == j * Pitch + (2 * a + h)

(* The two triangles of a square, and their corners.                       *)
LEMMA AtIs ==
  ASSUME quad \in Nat \ {0}, NEW a \in 0 .. quad - 1, NEW j \in 0 .. quad - 1
  PROVE  /\ At(1, a, j) \in 1 .. StripSize - 2 /\ At(1, a, j) % 2 = 1
         /\ At(2, a, j) \in 1 .. StripSize - 2 /\ At(2, a, j) % 2 = 0
         /\ At(2, a, j) = At(1, a, j) + 1
         /\ Spot(At(1, a, j)) = <<a, j>> /\ Spot(At(1, a, j) + 1) = <<a, j + 1>>
         /\ Spot(At(1, a, j) + 2) = <<a + 1, j>> /\ Spot(At(1, a, j) + 3) = <<a + 1, j + 1>>
<1>1. Pitch \in Nat \ {0} /\ Pitch = 2 * (quad + 2)  BY DEF Pitch
<1>2. j \in Nat /\ a \in 0 .. quad /\ a + 1 \in 0 .. quad /\ j * Pitch \in Nat  BY <1>1
<1>3. /\ Spot(j * Pitch + (2 * a + 1)) = <<a, j>> /\ Spot(j * Pitch + (2 * a + 2)) = <<a, j + 1>>
      /\ Spot(j * Pitch + (2 * (a + 1) + 1)) = <<a + 1, j>>
      /\ Spot(j * Pitch + (2 * (a + 1) + 2)) = <<a + 1, j + 1>>
  BY <1>2, SpotIs
<1> DEFINE g == j * Pitch
           e == j * (quad + 2)
<1>4. g = 2 * e /\ e \in Nat  BY <1>1
<1>5. g <= (quad - 1) * Pitch
  <2>1. j \in Int /\ quad - 1 \in Int /\ j <= quad - 1  OBVIOUS
  <2>2. QED  BY <1>1, <2>1, Product
<1>6. StripSize = (quad - 1) * Pitch + (2 * quad + 2) /\ (quad - 1) * Pitch \in Nat
  BY <1>1, StripSizeIs
<1>7. At(1, a, j) = g + (2 * a + 1) /\ At(2, a, j) = g + (2 * a + 2)  BY DEF At
<1> HIDE DEF g, e
<1>8. /\ g + (2 * a + 1) \in 1 .. StripSize - 2 /\ g + (2 * a + 2) \in 1 .. StripSize - 2
      /\ (g + (2 * a + 1)) % 2 = 1 /\ (g + (2 * a + 2)) % 2 = 0
  BY <1>2, <1>4, <1>5, <1>6
<1>9. /\ (g + (2 * a + 1)) + 1 = g + (2 * a + 2) /\ (g + (2 * a + 1)) + 2 = g + (2 * (a + 1) + 1)
      /\ (g + (2 * a + 1)) + 3 = g + (2 * (a + 1) + 2)
  BY <1>2, <1>4
<1>10. /\ Spot(g + (2 * a + 1)) = <<a, j>> /\ Spot(g + (2 * a + 2)) = <<a, j + 1>>
       /\ Spot(g + (2 * (a + 1) + 1)) = <<a + 1, j>> /\ Spot(g + (2 * (a + 1) + 2)) = <<a + 1, j + 1>>
  BY <1>3 DEF g
<1>11. QED  BY <1>7, <1>8, <1>9, <1>10

(* No two triangles begin at one index.                                    *)
LEMMA AtOnce ==
  ASSUME quad \in Nat \ {0}, NEW g \in {1, 2}, NEW a \in 0 .. quad - 1, NEW j \in 0 .. quad - 1,
         NEW h \in {1, 2}, NEW b \in 0 .. quad - 1, NEW l \in 0 .. quad - 1,
         At(g, a, j) = At(h, b, l)
  PROVE  g = h /\ a = b /\ j = l
<1>1. Pitch \in Nat \ {0} /\ Pitch = 2 * quad + 4  BY DEF Pitch
<1>2. /\ 2 * a + g \in 0 .. Pitch - 1 /\ 2 * b + h \in 0 .. Pitch - 1 /\ j \in Nat /\ l \in Nat
      /\ a \in Nat /\ b \in Nat /\ g \in Nat /\ h \in Nat
  BY <1>1
<1>3. j * Pitch + (2 * a + g) = l * Pitch + (2 * b + h)  BY DEF At
<1> DEFINE r == 2 * a + g
           s == 2 * b + h
<1>8. r \in 0 .. Pitch - 1 /\ s \in 0 .. Pitch - 1 /\ j \in Nat /\ l \in Nat  BY <1>2
<1> HIDE DEF r, s
<1>4. \A y \in Nat : \A e \in 0 .. Pitch - 1 :
        (y * Pitch + e) \div Pitch = y /\ (y * Pitch + e) % Pitch = e
  BY <1>1, Division
<1>5. /\ (j * Pitch + r) \div Pitch = j /\ (j * Pitch + r) % Pitch = r
      /\ (l * Pitch + s) \div Pitch = l /\ (l * Pitch + s) % Pitch = s
  BY <1>4, <1>8
<1>6. j = l /\ r = s  BY <1>3, <1>5 DEF r, s
<1>7. QED  BY <1>2, <1>6 DEF r, s

(* Any other triangle has two corners in one place.                        *)
LEMMA OrFlat ==
  ASSUME quad \in Nat \ {0}, NEW i \in 1 .. StripSize - 2
  PROVE  \/ \E h \in {1, 2} : \E a, j \in 0 .. quad - 1 : i = At(h, a, j)
         \/ Spot(i) = Spot(i + 1) \/ Spot(i + 1) = Spot(i + 2)
<1>1. i \in 1 .. StripSize  BY StripSizeIs
<1>2. PICK j \in 0 .. quad - 1 :
           \/ \E a \in 0 .. quad : i = j * Pitch + (2 * a + 1) \/ i = j * Pitch + (2 * a + 2)
           \/ j < quad - 1 /\ (i = j * Pitch + (2 * quad + 3) \/ i = j * Pitch + (2 * quad + 4))
  BY <1>1, IndexIs
<1>3. Pitch \in Nat \ {0} /\ Pitch = 2 * quad + 4  BY DEF Pitch
<1>4. j \in Nat /\ j + 1 \in Nat /\ j * Pitch \in Nat /\ (j + 1) * Pitch = j * Pitch + (2 * quad + 4)
  BY <1>3
<1>5. /\ Spot(j * Pitch + (2 * quad + 2)) = <<quad, j + 1>>
      /\ Spot(j * Pitch + (2 * quad + 3)) = <<quad, j + 1>>
      /\ Spot(j * Pitch + (2 * quad + 4)) = <<0, j + 1>>
  <2>1. quad \in 0 .. quad  OBVIOUS
  <2>2. QED  BY <1>4, <2>1, SpotIs
<1>6. Spot(j * Pitch + (2 * quad + 5)) = <<0, j + 1>>
  <2>1. 0 \in 0 .. quad  OBVIOUS
  <2>2. Spot((j + 1) * Pitch + (2 * 0 + 1)) = <<0, j + 1>>  BY <1>4, <2>1, SpotIs
  <2>3. (j + 1) * Pitch + (2 * 0 + 1) = j * Pitch + (2 * quad + 5)  BY <1>4
  <2>4. QED  BY <2>2, <2>3
<1> DEFINE g == j * Pitch
<1> HIDE DEF g
<1>7. /\ Spot(g + (2 * quad + 2)) = <<quad, j + 1>> /\ Spot(g + (2 * quad + 3)) = <<quad, j + 1>>
      /\ Spot(g + (2 * quad + 4)) = <<0, j + 1>> /\ Spot(g + (2 * quad + 5)) = <<0, j + 1>>
      /\ g \in Nat
  BY <1>4, <1>5, <1>6 DEF g
<1>8. CASE \E a \in 0 .. quad : i = j * Pitch + (2 * a + 1) \/ i = j * Pitch + (2 * a + 2)
  <2>1. PICK a \in 0 .. quad : i = g + (2 * a + 1) \/ i = g + (2 * a + 2)  BY <1>8 DEF g
  <2>2. CASE a # quad
    <3>1. a \in 0 .. quad - 1  BY <2>2
    <3>2. i = At(1, a, j) \/ i = At(2, a, j)  BY <2>1 DEF At, g
    <3>3. QED  BY <3>1, <3>2
  <2>3. CASE a = quad
    <3>1. i = g + (2 * quad + 1) \/ i = g + (2 * quad + 2)  BY <2>1, <2>3
    <3>2. CASE i = g + (2 * quad + 1)
      <4>1. i + 1 = g + (2 * quad + 2) /\ i + 2 = g + (2 * quad + 3)  BY <1>7, <3>2
      <4>2. QED  BY <1>7, <4>1
    <3>3. CASE i = g + (2 * quad + 2)
      <4>1. i + 1 = g + (2 * quad + 3)  BY <1>7, <3>3
      <4>2. QED  BY <1>7, <3>3, <4>1
    <3>4. QED  BY <3>1, <3>2, <3>3
  <2>4. QED  BY <2>2, <2>3
<1>9. CASE i = j * Pitch + (2 * quad + 3)
  <2>1. i + 1 = g + (2 * quad + 4) /\ i + 2 = g + (2 * quad + 5)  BY <1>7, <1>9 DEF g
  <2>2. QED  BY <1>7, <2>1
<1>10. CASE i = j * Pitch + (2 * quad + 4)
  <2>1. i = g + (2 * quad + 4) /\ i + 1 = g + (2 * quad + 5)  BY <1>7, <1>10 DEF g
  <2>2. QED  BY <1>7, <2>1
<1>11. QED  BY <1>2, <1>8, <1>9, <1>10

(* The two halves of the square in column x and row z of a level.          *)
Half(h, x, z, n) ==
  IF h = 1 THEN << <<x * n, z * n>>, <<x * n, (z + 1) * n>>, <<(x + 1) * n, z * n>> >>
  ELSE << <<(x + 1) * n, z * n>>, <<x * n, (z + 1) * n>>, <<(x + 1) * n, (z + 1) * n>> >>

(* Either half of a square has an area.                                    *)
LEMMA HalfHasArea ==
  ASSUME NEW n \in Nat \ {0}, NEW x \in Nat, NEW z \in Nat, NEW h
  PROVE  Cardinality(ToSet(Half(h, x, z, n))) = 3
<1> DEFINE a == x * n
           b == (x + 1) * n
           c == z * n
           d == (z + 1) * n
<1>1. a # b /\ c # d
  <2>1. x \in Int /\ x + 1 \in Int /\ x # x + 1 /\ z \in Int /\ z + 1 \in Int /\ z # z + 1  OBVIOUS
  <2>2. QED  BY <2>1, Product
<1>2. Half(h, x, z, n) = IF h = 1 THEN << <<a, c>>, <<a, d>>, <<b, c>> >>
                         ELSE << <<b, c>>, <<a, d>>, <<b, d>> >>
  BY DEF Half
<1> HIDE DEF a, b, c, d
<1>3. ASSUME h = 1 PROVE Cardinality(ToSet(Half(h, x, z, n))) = 3
  <2> DEFINE p == <<a, c>>
             q == <<a, d>>
             r == <<b, c>>
  <2>1. p # q /\ q # r /\ p # r /\ Half(h, x, z, n) = <<p, q, r>>  BY <1>1, <1>2, <1>3
  <2> HIDE DEF p, q, r
  <2>2. QED  BY <2>1, Three
<1>4. ASSUME h # 1 PROVE Cardinality(ToSet(Half(h, x, z, n))) = 3
  <2> DEFINE p == <<b, c>>
             q == <<a, d>>
             r == <<b, d>>
  <2>1. p # q /\ q # r /\ p # r /\ Half(h, x, z, n) = <<p, q, r>>  BY <1>1, <1>2, <1>4
  <2> HIDE DEF p, q, r
  <2>2. QED  BY <2>1, Three
<1>5. QED  BY <1>3, <1>4

(* The corners of a chunk's i-th triangle, as the device turns it.         *)
Shown(k, c, i) ==
  IF i % 2 = 1
  THEN <<Position(k, DrawnVertex(c, i)), Position(k, DrawnVertex(c, i + 1)),
         Position(k, DrawnVertex(c, i + 2))>>
  ELSE <<Position(k, DrawnVertex(c, i + 1)), Position(k, DrawnVertex(c, i)),
         Position(k, DrawnVertex(c, i + 2))>>

(* What a chunk draws at each index.                                       *)
LEMMA ShownIs ==
  ASSUME Sized, Indexed, NEW k \in LODs, NEW c \in LevelChunks(k)
  PROVE  /\ \A h \in {1, 2} : \A a, j \in 0 .. quad - 1 :
              /\ At(h, a, j) \in 1 .. StripSize - 2
              /\ Shown(k, c, At(h, a, j)) = Half(h, c.x * quad + a, c.z * quad + j, Increment(k))
              /\ c.x * quad + a \in Nat /\ c.z * quad + j \in Nat
         /\ \A i \in 1 .. StripSize - 2 :
              Spot(i) = Spot(i + 1) \/ Spot(i + 1) = Spot(i + 2)
                => Cardinality(ToSet(Shown(k, c, i))) # 3
<1> DEFINE n == Increment(k)
           C(i) == Position(k, DrawnVertex(c, i))
<1>1. /\ quad \in Nat \ {0} /\ n \in Nat \ {0} /\ StripSize \in Nat
      /\ c.x \in Nat /\ c.z \in Nat /\ c.x * quad \in Nat /\ c.z * quad \in Nat
  <2>1. quad \in Nat \ {0} /\ n \in Nat \ {0} /\ Side(k) \in Nat \ {0}
    BY QuadEven, SideIs DEF Sized
  <2>2. c.x \in 0 .. Side(k) - 1 /\ c.z \in 0 .. Side(k) - 1  BY DEF LevelChunks, Chunk
  <2>3. QED  BY <2>1, <2>2, StripSizeIs
<1>2. \A i \in 1 .. StripSize :
        C(i) = <<(c.x * quad + Spot(i)[1]) * n, (c.z * quad + Spot(i)[2]) * n>>
  BY DrawnIs DEF Col, Row
<1> DEFINE u == c.x * quad
           v == c.z * quad
<1> HIDE DEF u, v, n, C
<1>3. \A i \in 1 .. StripSize : C(i) = <<(u + Spot(i)[1]) * n, (v + Spot(i)[2]) * n>>
  BY <1>2 DEF u, v
<1>4. u \in Nat /\ v \in Nat  BY <1>1 DEF u, v
<1>5. ASSUME NEW a \in 0 .. quad - 1, NEW j \in 0 .. quad - 1, NEW h \in {1, 2}
      PROVE  /\ At(h, a, j) \in 1 .. StripSize - 2
             /\ Shown(k, c, At(h, a, j)) = Half(h, u + a, v + j, n)
             /\ u + a \in Nat /\ v + j \in Nat
  <2> DEFINE i == At(1, a, j)
  <2>1. /\ i \in 1 .. StripSize - 2 /\ i % 2 = 1
        /\ At(2, a, j) \in 1 .. StripSize - 2 /\ At(2, a, j) % 2 = 0
        /\ At(2, a, j) = i + 1
        /\ Spot(i) = <<a, j>> /\ Spot(i + 1) = <<a, j + 1>>
        /\ Spot(i + 2) = <<a + 1, j>> /\ Spot(i + 3) = <<a + 1, j + 1>>
    BY <1>1, AtIs
  <2> HIDE DEF i
  <2>2. /\ i \in 1 .. StripSize /\ i + 1 \in 1 .. StripSize /\ i + 2 \in 1 .. StripSize
        /\ i + 3 \in 1 .. StripSize /\ (i + 1) + 1 = i + 2 /\ (i + 1) + 2 = i + 3
    BY <1>1, <2>1
  <2>3. /\ C(i) = <<(u + a) * n, (v + j) * n>> /\ C(i + 1) = <<(u + a) * n, (v + (j + 1)) * n>>
        /\ C(i + 2) = <<(u + (a + 1)) * n, (v + j) * n>>
        /\ C(i + 3) = <<(u + (a + 1)) * n, (v + (j + 1)) * n>>
    BY <1>3, <2>1, <2>2
  <2>4. u + (a + 1) = (u + a) + 1 /\ v + (j + 1) = (v + j) + 1 /\ u + a \in Nat /\ v + j \in Nat
    BY <1>4
  <2>5. Shown(k, c, i) = Half(1, u + a, v + j, n)
    <3>1. Shown(k, c, i) = <<C(i), C(i + 1), C(i + 2)>>  BY <2>1 DEF Shown, C
    <3>2. QED  BY <2>3, <2>4, <3>1 DEF Half
  <2>6. Shown(k, c, i + 1) = Half(2, u + a, v + j, n)
    <3>1. Shown(k, c, i + 1) = <<C(i + 2), C(i + 1), C(i + 3)>>  BY <2>1, <2>2 DEF Shown, C
    <3>2. QED  BY <2>3, <2>4, <3>1 DEF Half
  <2>7. CASE h = 1  BY <2>1, <2>4, <2>5, <2>7 DEF i
  <2>8. CASE h = 2  BY <2>1, <2>4, <2>6, <2>8
  <2>9. QED  BY <2>7, <2>8
<1>6. ASSUME NEW i \in 1 .. StripSize - 2, Spot(i) = Spot(i + 1) \/ Spot(i + 1) = Spot(i + 2)
      PROVE  Cardinality(ToSet(Shown(k, c, i))) # 3
  <2>1. i \in 1 .. StripSize /\ i + 1 \in 1 .. StripSize /\ i + 2 \in 1 .. StripSize  BY <1>1
  <2> DEFINE p == C(i)
             q == C(i + 1)
             r == C(i + 2)
  <2>2. p = q \/ q = r  BY <1>3, <1>6, <2>1
  <2>3. Shown(k, c, i) = <<p, q, r>> \/ Shown(k, c, i) = <<q, p, r>>  BY DEF Shown, C
  <2> HIDE DEF p, q, r
  <2>4. CASE Shown(k, c, i) = <<p, q, r>>  BY <2>2, <2>4, Three
  <2>5. CASE Shown(k, c, i) = <<q, p, r>>  BY <2>2, <2>5, Three
  <2>6. QED  BY <2>3, <2>4, <2>5
<1>7. QED  BY <1>5, <1>6 DEF u, v, n

(* All that a level draws: two triangles in every square of every chunk.   *)
Tile(k, c, h, a, j) ==
  [chunk |-> c, at |-> At(h, a, j),
   corners |-> Half(h, c.x * quad + a, c.z * quad + j, Increment(k))]

(* The triangles of a level, by chunk, half, column and row.               *)
LEMMA TrianglesAre ==
  ASSUME Sized, Indexed, Chunks, stage = "open", NEW k \in LODs
  PROVE  /\ {d \in chunks : d.lod = k} = LevelChunks(k)
         /\ \A t : t \in Triangles(k) <=>
              \E c \in LevelChunks(k), h \in {1, 2}, a, j \in 0 .. quad - 1 : t = Tile(k, c, h, a, j)
<1>1. {d \in chunks : d.lod = k} = LevelChunks(k)
  <2>1. \A l \in LODs : \A d \in LevelChunks(l) : d.lod = l  BY DEF LevelChunks, Chunk
  <2>2. QED  BY <2>1 DEF Chunks
<1>2. \A t : t \in Triangles(k) <=>
        \E c \in LevelChunks(k), i \in 1 .. StripSize - 2 :
          /\ t = [chunk |-> c, at |-> i, corners |-> Shown(k, c, i)]
          /\ Cardinality(ToSet(Shown(k, c, i))) = 3
  <2> DEFINE D == {d \in chunks : d.lod = k}
             T(c, i) == [chunk |-> c, at |-> i, corners |-> Shown(k, c, i)]
  <2>1. Triangles(k) = {t \in {T(c, i) : c \in D, i \in 1 .. StripSize - 2} :
                          Cardinality(ToSet(t.corners)) = 3}
    BY DEF Triangles, Shown
  <2>2. \A c, i : T(c, i).corners = Shown(k, c, i)  OBVIOUS
  <2>3. D = LevelChunks(k)  BY <1>1
  <2> HIDE DEF D, T
  <2>4. \A t : t \in Triangles(k) <=>
          \E c \in LevelChunks(k), i \in 1 .. StripSize - 2 :
            t = T(c, i) /\ Cardinality(ToSet(T(c, i).corners)) = 3
    BY <2>1, <2>3
  <2>5. QED  BY <2>2, <2>4 DEF T
<1>3. quad \in Nat \ {0} /\ Increment(k) \in Nat \ {0}  BY QuadEven, SideIs DEF Sized
<1>4. ASSUME NEW t \in Triangles(k)
      PROVE  \E c \in LevelChunks(k), h \in {1, 2}, a, j \in 0 .. quad - 1 : t = Tile(k, c, h, a, j)
  <2>1. PICK c \in LevelChunks(k), i \in 1 .. StripSize - 2 :
               /\ t = [chunk |-> c, at |-> i, corners |-> Shown(k, c, i)]
               /\ Cardinality(ToSet(Shown(k, c, i))) = 3
    BY <1>2
  <2>2. PICK h \in {1, 2}, a \in 0 .. quad - 1, j \in 0 .. quad - 1 : i = At(h, a, j)
    BY <1>3, <2>1, OrFlat, ShownIs
  <2>3. Shown(k, c, i) = Half(h, c.x * quad + a, c.z * quad + j, Increment(k))
    BY <2>2, ShownIs
  <2>4. t = Tile(k, c, h, a, j)  BY <2>1, <2>2, <2>3 DEF Tile
  <2>5. QED  BY <2>4
<1>5. ASSUME NEW c \in LevelChunks(k), NEW h \in {1, 2}, NEW a \in 0 .. quad - 1, NEW j \in 0 .. quad - 1
      PROVE  Tile(k, c, h, a, j) \in Triangles(k)
  <2> DEFINE i == At(h, a, j)
             x == c.x * quad + a
             z == c.z * quad + j
  <2>1. /\ i \in 1 .. StripSize - 2 /\ Shown(k, c, i) = Half(h, x, z, Increment(k))
        /\ x \in Nat /\ z \in Nat
    BY ShownIs
  <2>2. Tile(k, c, h, a, j) = [chunk |-> c, at |-> i, corners |-> Shown(k, c, i)]
    BY <2>1 DEF Tile
  <2> HIDE DEF i, x, z
  <2>3. Cardinality(ToSet(Shown(k, c, i))) = 3  BY <1>3, <2>1, HalfHasArea
  <2>4. QED  BY <1>2, <2>1, <2>2, <2>3
<1>6. QED  BY <1>1, <1>4, <1>5

(* The triangles of a level by the column and the row of their square in   *)
(* the whole terrain.                                                      *)
TileAt(k, h, x, z) == Tile(k, Chunk(k, x \div quad, z \div quad), h, x % quad, z % quad)

(* The chunk, and the column and the row in it, of a square.               *)
LEMMA TileAtIs ==
  ASSUME Sized, NEW k \in LODs,
         NEW x \in 0 .. quad * Side(k) - 1, NEW z \in 0 .. quad * Side(k) - 1, NEW h \in {1, 2}
  PROVE  /\ Chunk(k, x \div quad, z \div quad) \in LevelChunks(k)
         /\ x % quad \in 0 .. quad - 1 /\ z % quad \in 0 .. quad - 1
         /\ TileAt(k, h, x, z) = [chunk |-> Chunk(k, x \div quad, z \div quad),
                                  at |-> At(h, x % quad, z % quad),
                                  corners |-> Half(h, x, z, Increment(k))]
<1>1. quad \in Nat \ {0} /\ Side(k) \in Nat \ {0}  BY QuadEven, SideIs DEF Sized
<1> DEFINE s == Side(k)
<1> HIDE DEF s
<1>2. ASSUME NEW y \in 0 .. quad * Side(k) - 1
      PROVE  y \div quad \in 0 .. Side(k) - 1 /\ y % quad \in 0 .. quad - 1
             /\ y = (y \div quad) * quad + (y % quad)
  <2> DEFINE v == y \div quad
  <2>1. y \in Nat /\ y < quad * s  BY <1>1 DEF s
  <2>2. v \in Nat /\ y % quad \in 0 .. quad - 1 /\ y = v * quad + (y % quad)
    BY <1>1, <2>1, Remainder
  <2>3. v <= s - 1
    <3> HIDE DEF v
    <3>1. SUFFICES ASSUME s <= v PROVE FALSE  BY <1>1, <2>2 DEF s
    <3>2. s * quad <= v * quad /\ s * quad = quad * s /\ s * quad \in Nat /\ v * quad \in Nat
      BY <1>1, <2>2, <3>1, Product DEF s
    <3>3. QED  BY <2>1, <2>2, <3>2
  <2>4. QED  BY <1>1, <2>2, <2>3 DEF s
<1>3. Chunk(k, x \div quad, z \div quad) \in LevelChunks(k)  BY <1>2 DEF LevelChunks
<1> DEFINE c == Chunk(k, x \div quad, z \div quad)
<1>4. c.x = x \div quad /\ c.z = z \div quad  BY DEF Chunk
<1> HIDE DEF c
<1>5. c.x * quad + (x % quad) = x /\ c.z * quad + (z % quad) = z  BY <1>2, <1>4
<1>6. TileAt(k, h, x, z) = [chunk |-> c, at |-> At(h, x % quad, z % quad),
                            corners |-> Half(h, x, z, Increment(k))]
  BY <1>5 DEF TileAt, Tile, c
<1>7. QED  BY <1>2, <1>3, <1>6 DEF c

(* The triangles of a level, by half and square.                           *)
LEMMA TrianglesAt ==
  ASSUME Sized, Indexed, Chunks, stage = "open", NEW k \in LODs
  PROVE  \A t : t \in Triangles(k) <=>
           \E h \in {1, 2}, x, z \in 0 .. quad * Side(k) - 1 : t = TileAt(k, h, x, z)
<1>1. quad \in Nat \ {0} /\ Side(k) \in Nat \ {0}  BY QuadEven, SideIs DEF Sized
<1>2. ASSUME NEW h \in {1, 2}, NEW x \in 0 .. quad * Side(k) - 1, NEW z \in 0 .. quad * Side(k) - 1
      PROVE  TileAt(k, h, x, z) \in Triangles(k)
  BY TileAtIs, TrianglesAre DEF TileAt
<1>3. ASSUME NEW c \in LevelChunks(k), NEW h \in {1, 2}, NEW a \in 0 .. quad - 1, NEW j \in 0 .. quad - 1
      PROVE  \E x, z \in 0 .. quad * Side(k) - 1 : Tile(k, c, h, a, j) = TileAt(k, h, x, z)
  <2>1. c.x \in 0 .. Side(k) - 1 /\ c.z \in 0 .. Side(k) - 1 /\ c = Chunk(k, c.x, c.z)
    BY DEF LevelChunks, Chunk
  <2>2. ASSUME NEW y \in 0 .. Side(k) - 1, NEW b \in 0 .. quad - 1
        PROVE  /\ y * quad + b \in 0 .. quad * Side(k) - 1
               /\ (y * quad + b) \div quad = y /\ (y * quad + b) % quad = b
    <3>1. (y * quad + b) \div quad = y /\ (y * quad + b) % quad = b
      <4>1. y \in Nat  BY <1>1
      <4>2. QED  BY <1>1, <4>1, Division
    <3>2. b \in 0 .. quad /\ b + 1 \in 0 .. quad  BY <1>1
    <3>3. y * quad \in Nat /\ y * quad + (b + 1) \in 0 .. quad * Side(k)  BY <1>1, <3>2, Along
    <3>4. quad * Side(k) \in Nat  BY <1>1
    <3> DEFINE e == y * quad
               w == quad * Side(k)
    <3> HIDE DEF e, w
    <3>5. e \in Nat /\ w \in Nat /\ e + (b + 1) \in 0 .. w /\ b \in Nat  BY <1>1, <3>3, <3>4 DEF e, w
    <3>6. e + b \in 0 .. w - 1  BY <3>5
    <3>7. QED  BY <3>1, <3>6 DEF e, w
  <2> DEFINE x == c.x * quad + a
             z == c.z * quad + j
  <2>3. /\ x \in 0 .. quad * Side(k) - 1 /\ x \div quad = c.x /\ x % quad = a
        /\ z \in 0 .. quad * Side(k) - 1 /\ z \div quad = c.z /\ z % quad = j
    BY <2>1, <2>2
  <2> HIDE DEF x, z
  <2>4. TileAt(k, h, x, z) = Tile(k, c, h, a, j)  BY <2>1, <2>3 DEF TileAt
  <2>5. QED  BY <2>3, <2>4
<1>4. QED  BY <1>2, <1>3, TrianglesAre

(* How many triangles a level draws, and how many each of its chunks.      *)
LEMMA TrianglesCounted ==
  ASSUME Sized, Indexed, Chunks, stage = "open", NEW k \in LODs
  PROVE  /\ Cardinality(Triangles(k)) = 2 * ((quad * Side(k)) * (quad * Side(k)))
         /\ \A c \in LevelChunks(k) :
              Cardinality({t \in Triangles(k) : t.chunk = c}) = 2 * quad * quad
<1>1. quad \in Nat \ {0} /\ Side(k) \in Nat \ {0}  BY QuadEven, SideIs DEF Sized
<1> DEFINE w == quad * Side(k)
<1>2. w \in Nat  BY <1>1
<1> HIDE DEF w
<1>3. \A m \in Nat : /\ IsFiniteSet({1, 2} \X ((0 .. m - 1) \X (0 .. m - 1)))
                     /\ Cardinality({1, 2} \X ((0 .. m - 1) \X (0 .. m - 1))) = 2 * (m * m)
  <2> SUFFICES ASSUME NEW m \in Nat
               PROVE  /\ IsFiniteSet({1, 2} \X ((0 .. m - 1) \X (0 .. m - 1)))
                      /\ Cardinality({1, 2} \X ((0 .. m - 1) \X (0 .. m - 1))) = 2 * (m * m)
    OBVIOUS
  <2> DEFINE I == 0 .. m - 1
             B == 1 .. 2
  <2>1. IsFiniteSet(I) /\ Cardinality(I) = m
    <3> DEFINE l == m - 1
    <3>1. 0 \in Int /\ l \in Int /\ (IF 0 > l THEN 0 ELSE l - 0 + 1) = m  OBVIOUS
    <3> HIDE DEF l
    <3>2. IsFiniteSet(0 .. l) /\ Cardinality(0 .. l) = IF 0 > l THEN 0 ELSE l - 0 + 1
      BY <3>1, FS_Interval
    <3>3. QED  BY <3>1, <3>2 DEF l
  <2>2. IsFiniteSet(B) /\ Cardinality(B) = 2 /\ B = {1, 2}
    <3>1. B = {1, 2} /\ 1 # 2  OBVIOUS
    <3> HIDE DEF B
    <3>2. IsFiniteSet({1, 2}) /\ Cardinality({1, 2}) = IF 1 = 2 THEN 1 ELSE 2  BY OneOrTwo
    <3>3. QED  BY <3>1, <3>2
  <2> HIDE DEF I, B
  <2>3. IsFiniteSet(I \X I) /\ Cardinality(I \X I) = m * m  BY <2>1, FS_Product
  <2> DEFINE II == I \X I
             mm == m * m
  <2> HIDE DEF II, mm
  <2>4. IsFiniteSet(II) /\ Cardinality(II) = mm  BY <2>3 DEF II, mm
  <2>5. IsFiniteSet(B \X II) /\ Cardinality(B \X II) = 2 * mm  BY <2>2, <2>4, FS_Product
  <2>6. QED  BY <2>2, <2>5 DEF I, II, mm
<1>4. Cardinality(Triangles(k)) = 2 * (w * w)
  <2> DEFINE S == {1, 2} \X ((0 .. w - 1) \X (0 .. w - 1))
             f == [s \in S |-> TileAt(k, s[1], s[2][1], s[2][2])]
  <2>1. f \in [S -> Triangles(k)]
    <3>1. \A s \in S : s[1] \in {1, 2} /\ s[2][1] \in 0 .. w - 1 /\ s[2][2] \in 0 .. w - 1  OBVIOUS
    <3>2. \A s \in S : TileAt(k, s[1], s[2][1], s[2][2]) \in Triangles(k)
      BY <3>1, TrianglesAt DEF w
    <3>3. QED  BY <3>2
  <2>2. \A t \in Triangles(k) : \E s \in S : f[s] = t
    <3> SUFFICES ASSUME NEW t \in Triangles(k) PROVE \E s \in S : f[s] = t
      OBVIOUS
    <3>1. PICK h \in {1, 2}, x \in 0 .. w - 1, z \in 0 .. w - 1 : t = TileAt(k, h, x, z)
      BY TrianglesAt DEF w
    <3>2. <<h, <<x, z>>>> \in S /\ f[<<h, <<x, z>>>>] = t  BY <3>1
    <3> HIDE DEF f, S
    <3>3. QED  BY <3>2
  <2>3. ASSUME NEW s \in S, NEW r \in S, f[s] = f[r] PROVE s = r
    <3>1. /\ s[1] \in {1, 2} /\ s[2][1] \in 0 .. w - 1 /\ s[2][2] \in 0 .. w - 1
          /\ r[1] \in {1, 2} /\ r[2][1] \in 0 .. w - 1 /\ r[2][2] \in 0 .. w - 1
          /\ s = <<s[1], <<s[2][1], s[2][2]>>>> /\ r = <<r[1], <<r[2][1], r[2][2]>>>>
      OBVIOUS
    <3> DEFINE h == s[1]
               x == s[2][1]
               z == s[2][2]
               g == r[1]
               y == r[2][1]
               v == r[2][2]
    <3>2. TileAt(k, h, x, z) = TileAt(k, g, y, v)  BY <2>3
    <3> HIDE DEF h, x, z, g, y, v
    <3>3. /\ h \in {1, 2} /\ x \in 0 .. w - 1 /\ z \in 0 .. w - 1
          /\ g \in {1, 2} /\ y \in 0 .. w - 1 /\ v \in 0 .. w - 1
          /\ s = <<h, <<x, z>>>> /\ r = <<g, <<y, v>>>>
      BY <3>1 DEF h, x, z, g, y, v
    <3>4. /\ x % quad \in 0 .. quad - 1 /\ z % quad \in 0 .. quad - 1
          /\ TileAt(k, h, x, z) = [chunk |-> Chunk(k, x \div quad, z \div quad),
                                   at |-> At(h, x % quad, z % quad),
                                   corners |-> Half(h, x, z, Increment(k))]
      BY <3>3, TileAtIs DEF w
    <3>5. /\ y % quad \in 0 .. quad - 1 /\ v % quad \in 0 .. quad - 1
          /\ TileAt(k, g, y, v) = [chunk |-> Chunk(k, y \div quad, v \div quad),
                                   at |-> At(g, y % quad, v % quad),
                                   corners |-> Half(g, y, v, Increment(k))]
      BY <3>3, TileAtIs DEF w
    <3>6. /\ Chunk(k, x \div quad, z \div quad) = Chunk(k, y \div quad, v \div quad)
          /\ At(h, x % quad, z % quad) = At(g, y % quad, v % quad)
      <4> DEFINE t == TileAt(k, h, x, z)
                 u == TileAt(k, g, y, v)
      <4>1. t.chunk = Chunk(k, x \div quad, z \div quad) /\ t.at = At(h, x % quad, z % quad)
        BY <3>4
      <4>2. u.chunk = Chunk(k, y \div quad, v \div quad) /\ u.at = At(g, y % quad, v % quad)
        BY <3>5
      <4>3. t = u  BY <3>2
      <4> HIDE DEF t, u
      <4>4. QED  BY <4>1, <4>2, <4>3
    <3>7. h = g /\ x % quad = y % quad /\ z % quad = v % quad
      <4> DEFINE a == x % quad
                 j == z % quad
                 b == y % quad
                 l == v % quad
      <4>1. /\ a \in 0 .. quad - 1 /\ j \in 0 .. quad - 1
            /\ b \in 0 .. quad - 1 /\ l \in 0 .. quad - 1
            /\ At(h, a, j) = At(g, b, l)
        BY <3>4, <3>5, <3>6
      <4> HIDE DEF a, j, b, l
      <4>2. h = g /\ a = b /\ j = l  BY <1>1, <3>3, <4>1, AtOnce
      <4>3. QED  BY <4>2 DEF a, j, b, l
    <3>8. x \div quad = y \div quad /\ z \div quad = v \div quad
      <4> DEFINE c == Chunk(k, x \div quad, z \div quad)
                 d == Chunk(k, y \div quad, v \div quad)
      <4>1. c.x = x \div quad /\ c.z = z \div quad /\ d.x = y \div quad /\ d.z = v \div quad
        BY DEF Chunk
      <4>2. c = d  BY <3>6
      <4>3. QED  BY <4>1, <4>2
    <3>9. /\ x = (x \div quad) * quad + (x % quad) /\ z = (z \div quad) * quad + (z % quad)
          /\ y = (y \div quad) * quad + (y % quad) /\ v = (v \div quad) * quad + (v % quad)
      <4>1. x \in Nat /\ z \in Nat /\ y \in Nat /\ v \in Nat  BY <1>2, <3>3
      <4>2. QED  BY <1>1, <4>1, Remainder
    <3>10. x = y /\ z = v  BY <3>7, <3>8, <3>9
    <3>11. QED  BY <3>3, <3>7, <3>10
  <2>4. IsFiniteSet(S) /\ Cardinality(S) = 2 * (w * w)  BY <1>2, <1>3
  <2> HIDE DEF S, f
  <2>5. Cardinality(Triangles(k)) = Cardinality(S)  BY <2>1, <2>2, <2>3, <2>4, Matched
  <2>6. QED  BY <2>4, <2>5
<1>5. ASSUME NEW c \in LevelChunks(k)
      PROVE  Cardinality({t \in Triangles(k) : t.chunk = c}) = 2 * quad * quad
  <2> DEFINE S == {1, 2} \X ((0 .. quad - 1) \X (0 .. quad - 1))
             T == {t \in Triangles(k) : t.chunk = c}
             f == [s \in S |-> Tile(k, c, s[1], s[2][1], s[2][2])]
  <2>1. f \in [S -> T]
    <3>1. \A s \in S : /\ s[1] \in {1, 2} /\ s[2][1] \in 0 .. quad - 1 /\ s[2][2] \in 0 .. quad - 1
      OBVIOUS
    <3>2. \A s \in S : Tile(k, c, s[1], s[2][1], s[2][2]) \in Triangles(k)
      BY <3>1, TrianglesAre
    <3>3. \A s \in S : Tile(k, c, s[1], s[2][1], s[2][2]).chunk = c  BY DEF Tile
    <3>4. QED  BY <3>2, <3>3
  <2>2. \A t \in T : \E s \in S : f[s] = t
    <3> SUFFICES ASSUME NEW t \in T PROVE \E s \in S : f[s] = t
      OBVIOUS
    <3>1. PICK d \in LevelChunks(k), h \in {1, 2}, a \in 0 .. quad - 1, j \in 0 .. quad - 1 :
               t = Tile(k, d, h, a, j)
      BY TrianglesAre
    <3>2. d = c  BY <3>1 DEF Tile
    <3>3. <<h, <<a, j>>>> \in S /\ f[<<h, <<a, j>>>>] = t  BY <3>1, <3>2
    <3> HIDE DEF f, S, T
    <3>4. QED  BY <3>3
  <2>3. ASSUME NEW s \in S, NEW r \in S, f[s] = f[r] PROVE s = r
    <3>1. /\ s[1] \in {1, 2} /\ s[2][1] \in 0 .. quad - 1 /\ s[2][2] \in 0 .. quad - 1
          /\ r[1] \in {1, 2} /\ r[2][1] \in 0 .. quad - 1 /\ r[2][2] \in 0 .. quad - 1
          /\ s = <<s[1], <<s[2][1], s[2][2]>>>> /\ r = <<r[1], <<r[2][1], r[2][2]>>>>
      OBVIOUS
    <3>2. At(s[1], s[2][1], s[2][2]) = At(r[1], r[2][1], r[2][2])  BY <2>3 DEF Tile
    <3>3. s[1] = r[1] /\ s[2][1] = r[2][1] /\ s[2][2] = r[2][2]  BY <1>1, <3>1, <3>2, AtOnce
    <3>4. QED  BY <3>1, <3>3
  <2>4. IsFiniteSet(S) /\ Cardinality(S) = 2 * (quad * quad)  BY <1>1, <1>3
  <2> HIDE DEF S, f, T
  <2>5. Cardinality(T) = Cardinality(S)  BY <2>1, <2>2, <2>3, <2>4, Matched
  <2>6. 2 * (quad * quad) = 2 * quad * quad  BY <1>1
  <2>7. QED  BY <2>4, <2>5, <2>6 DEF T
<1>6. QED  BY <1>4, <1>5 DEF w

(* The squares of a level.                                                 *)
LEMMA SquaresAre ==
  ASSUME Sized, NEW k \in LODs
  PROVE  /\ Squares(k) = {<<x * Increment(k), z * Increment(k)>> : x, z \in 0 .. quad * Side(k) - 1}
         /\ Cardinality(Squares(k)) = (quad * Side(k)) * (quad * Side(k))
<1> DEFINE n == Increment(k)
           w == quad * Side(k)
           I == 0 .. w - 1
           S == I \X I
           f == [s \in S |-> <<s[1] * n, s[2] * n>>]
<1>1. n \in Nat \ {0} /\ w \in Nat  BY SideIs, VertexPerRowIs DEF Sized
<1>2. (quad * grid) \div n = w
  <2>1. RowOfVertices = w * n + 1  BY VertexPerRowIs
  <2>2. quad * grid \in Int /\ w * n \in Nat
    <3>1. quad \in Nat /\ grid \in Nat  BY QuadEven, LevelIs, Increments DEF Sized
    <3>2. QED  BY <1>1, <3>1
  <2>3. quad * grid = w * n + 0  BY <2>1, <2>2 DEF RowOfVertices
  <2> HIDE DEF n, w
  <2>4. 0 \in 0 .. n - 1  BY <1>1
  <2>5. QED  BY <1>1, <2>3, <2>4, Division
<1>3. Squares(k) = {<<x * n, z * n>> : x, z \in I}  BY <1>2 DEF Squares
<1> HIDE DEF n, w
<1>4. IsFiniteSet(I) /\ Cardinality(I) = w
  <2> DEFINE l == w - 1
  <2>1. 0 \in Int /\ l \in Int /\ (IF 0 > l THEN 0 ELSE l - 0 + 1) = w  BY <1>1
  <2> HIDE DEF l
  <2>2. IsFiniteSet(0 .. l) /\ Cardinality(0 .. l) = IF 0 > l THEN 0 ELSE l - 0 + 1
    BY <2>1, FS_Interval
  <2>3. QED  BY <2>1, <2>2 DEF l
<1>5. IsFiniteSet(S) /\ Cardinality(S) = w * w
  <2> HIDE DEF I
  <2>1. QED  BY <1>4, FS_Product
<1>6. \A x, y \in I : x * n = y * n => x = y  BY <1>1, Product
<1>7. f \in [S -> Squares(k)] /\ \A s \in S : f[s] = <<s[1] * n, s[2] * n>>  BY <1>3
<1>8. \A q \in Squares(k) : \E s \in S : f[s] = q
  <2> SUFFICES ASSUME NEW q \in Squares(k) PROVE \E s \in S : f[s] = q
    OBVIOUS
  <2>1. PICK x \in I, z \in I : q = <<x * n, z * n>>  BY <1>3
  <2>2. <<x, z>> \in S /\ f[<<x, z>>] = q  BY <2>1
  <2> HIDE DEF f, S
  <2>3. QED  BY <2>2
<1>9. \A s, r \in S : f[s] = f[r] => s = r
  <2> SUFFICES ASSUME NEW s \in S, NEW r \in S, f[s] = f[r] PROVE s = r
    OBVIOUS
  <2>1. s[1] \in I /\ s[2] \in I /\ r[1] \in I /\ r[2] \in I /\ s = <<s[1], s[2]>> /\ r = <<r[1], r[2]>>
    OBVIOUS
  <2> HIDE DEF I, S, f
  <2>2. <<s[1] * n, s[2] * n>> = <<r[1] * n, r[2] * n>>  BY <1>7
  <2>3. s[1] * n = r[1] * n /\ s[2] * n = r[2] * n  BY <2>2
  <2>4. QED  BY <1>6, <2>1, <2>3
<1> HIDE DEF S, f, I
<1>10. Cardinality(Squares(k)) = Cardinality(S)  BY <1>5, <1>7, <1>8, <1>9, Matched
<1>11. QED  BY <1>3, <1>5, <1>10 DEF n, w, I

(* The two halves of a square, as the property names them.                 *)
HalvesOf(s, n) ==
  { <<s, <<s[1], s[2] + n>>, <<s[1] + n, s[2]>> >>,
    << <<s[1] + n, s[2]>>, <<s[1], s[2] + n>>, <<s[1] + n, s[2] + n>> >> }

(* They are the two halves the strip draws.                                *)
LEMMA HalvesAre ==
  ASSUME NEW n \in Nat, NEW x \in Nat, NEW z \in Nat
  PROVE  HalvesOf(<<x * n, z * n>>, n) = {Half(1, x, z, n), Half(2, x, z, n)}
<1> DEFINE a == x * n
           b == z * n
<1>1. (x + 1) * n = a + n /\ (z + 1) * n = b + n  OBVIOUS
<1> DEFINE s == <<a, b>>
<1>2. s[1] = a /\ s[2] = b /\ s = <<a, b>>  OBVIOUS
<1> HIDE DEF s
<1>3. HalvesOf(s, n) = { << <<a, b>>, <<a, b + n>>, <<a + n, b>> >>,
                         << <<a + n, b>>, <<a, b + n>>, <<a + n, b + n>> >> }
  BY <1>2 DEF HalvesOf
<1>4. /\ Half(1, x, z, n) = << <<a, b>>, <<a, b + n>>, <<a + n, b>> >>
      /\ Half(2, x, z, n) = << <<a + n, b>>, <<a, b + n>>, <<a + n, b + n>> >>
  BY <1>1 DEF Half
<1>5. QED  BY <1>3, <1>4 DEF s

(* Every level of detail covers the terrain once and with nothing else,    *)
(* whatever the sizes of the terrain (CreateIndexBuffer,                   *)
(* LandscapeChunk::Create and Render).                                     *)
THEOREM EachSquareDrawn == Spec => []TerrainTiled
<1>1. Built => TerrainTiled
  <2> SUFFICES ASSUME Built, stage = "open", NEW k \in LODs
               PROVE  /\ {t.corners : t \in Triangles(k)}
                           = UNION {HalvesOf(s, Increment(k)) : s \in Squares(k)}
                      /\ Cardinality(Triangles(k)) = 2 * Cardinality(Squares(k))
                      /\ \A c \in {d \in chunks : d.lod = k} :
                           Cardinality({t \in Triangles(k) : t.chunk = c}) = 2 * quad * quad
    BY DEF TerrainTiled, HalvesOf
  <2>1. Sized /\ Indexed /\ Chunks  BY DEF Built, Sizes, Strips
  <2> DEFINE n == Increment(k)
             I == 0 .. quad * Side(k) - 1
  <2>2. n \in Nat /\ I \subseteq Nat  BY <2>1, SideIs, VertexPerRowIs DEF Sized
  <2> HIDE DEF n, I
  <2>3. \A t : t \in Triangles(k) <=> \E h \in {1, 2}, x, z \in I : t = TileAt(k, h, x, z)
    BY <2>1, TrianglesAt DEF I
  <2>4. \A h \in {1, 2} : \A x, z \in I : TileAt(k, h, x, z).corners = Half(h, x, z, n)
    BY <2>1, TileAtIs DEF I, n
  <2>5. Squares(k) = {<<x * n, z * n>> : x, z \in I}  BY <2>1, SquaresAre DEF I, n
  <2>6. \A x, z \in I : HalvesOf(<<x * n, z * n>>, n) = {Half(1, x, z, n), Half(2, x, z, n)}
    BY <2>2, HalvesAre
  <2>7. ASSUME NEW t \in Triangles(k)
        PROVE  t.corners \in UNION {HalvesOf(s, n) : s \in Squares(k)}
    <3>1. PICK h \in {1, 2}, x \in I, z \in I : t = TileAt(k, h, x, z)  BY <2>3
    <3>2. t.corners \in HalvesOf(<<x * n, z * n>>, n)  BY <2>4, <2>6, <3>1
    <3>3. <<x * n, z * n>> \in Squares(k)  BY <2>5
    <3>4. QED  BY <3>2, <3>3
  <2>8. ASSUME NEW e \in UNION {HalvesOf(s, n) : s \in Squares(k)}
        PROVE  e \in {t.corners : t \in Triangles(k)}
    <3>1. PICK s \in Squares(k) : e \in HalvesOf(s, n)  OBVIOUS
    <3>2. PICK x \in I, z \in I : s = <<x * n, z * n>>  BY <2>5
    <3>3. PICK h \in {1, 2} : e = Half(h, x, z, n)  BY <2>6, <3>1, <3>2
    <3>4. TileAt(k, h, x, z) \in Triangles(k) /\ TileAt(k, h, x, z).corners = e  BY <2>3, <2>4, <3>3
    <3>5. QED  BY <3>4
  <2>9. {t.corners : t \in Triangles(k)} = UNION {HalvesOf(s, n) : s \in Squares(k)}
    BY <2>7, <2>8
  <2>10. QED  BY <2>1, <2>9, TrianglesAre, TrianglesCounted, SquaresAre DEF n
<1>2. QED  BY <1>1, AlwaysBuilt, PTL

-----------------------------------------------------------------------------
(* The types of the variables.                                             *)

(* What the types of the variables need beyond IInv and Built.             *)
Sorts ==
  /\ quad \in Quads \cup {0} /\ grid \in Grids \cup {0}
  /\ format \in {"unknown", "default", "liquid"}
  /\ indexes \in Seq(Seq(Nat))
  /\ IsInjective(buffers)

(* A key that is not in use is none of those in the list.                  *)
LEMMA AppendedOnce ==
  ASSUME NEW s \in Seq(Nat), IsInjective(s), NEW key \in Nat, key \notin ToSet(s)
  PROVE  IsInjective(Append(s, key))
<1> DEFINE a == Append(s, key)
<1>1. /\ DOMAIN a = 1 .. Len(s) + 1 /\ DOMAIN s = 1 .. Len(s) /\ Len(s) \in Nat
      /\ a[Len(s) + 1] = key /\ \A i \in 1 .. Len(s) : a[i] = s[i]
  OBVIOUS
<1> HIDE DEF a
<1>2. \A i \in 1 .. Len(s) : s[i] # key  BY <1>1 DEF ToSet
<1>3. \A i, j \in 1 .. Len(s) : s[i] = s[j] => i = j  BY <1>1 DEF IsInjective
<1>4. \A i, j \in 1 .. Len(s) + 1 : a[i] = a[j] => i = j
  <2>1. \A i \in 1 .. Len(s) + 1 : i \in 1 .. Len(s) \/ i = Len(s) + 1  BY <1>1
  <2>2. QED  BY <1>1, <1>2, <1>3, <2>1
<1>5. QED  BY <1>1, <1>4 DEF IsInjective, a

(* Each operation keeps them.                                              *)
LEMMA StepSorts ==
  ASSUME IInv, Built, Sorts, [Next]_vars
  PROVE  Sorts'
<1>1. <<>> \in Seq(Seq(Nat)) /\ IsInjective(<<>>)
  <2>1. DOMAIN <<>> = {}  OBVIOUS
  <2>2. IsInjective(<<>>)  BY <2>1 DEF IsInjective
  <2>3. QED  BY <2>2
<1>2. CASE Open
  <2>1. /\ quad' \in Quads /\ grid' \in Grids /\ format' \in {"default", "liquid"}
        /\ indexes' = <<>> /\ buffers' = <<>>
    BY <1>2 DEF Open, Close
  <2>2. QED  BY <1>1, <2>1 DEF Sorts
<1>3. CASE Release
  BY <1>1, <1>3 DEF Release, Close, config, Sorts
<1>4. CASE CreateIndexBuffer
  <2>1. stage = "created" /\ indexes' = <<AllStrips>> /\ UNCHANGED <<quad, grid, format, buffers>>
    BY <1>4 DEF CreateIndexBuffer, config
  <2>2. AllStrips \in Seq(Nat)  BY <2>1, AllStripsIs DEF Built, Sizes
  <2>3. QED  BY <2>1, <2>2 DEF Sorts
<1>5. CASE CreateVertexBufferIndependent \/ LoadHeightmap \/ CreateChunks \/ UNCHANGED vars
  BY <1>5 DEF CreateVertexBufferIndependent, LoadHeightmap, CreateChunks, vars, config, memory,
              device, Sorts
<1>6. CASE CreateVertexBuffer
  <2> DEFINE key == NextKey(vertexKeys)
  <2>1. /\ UNCHANGED <<quad, grid, format, indexes>>
        /\ buffers' = buffers \/ buffers' = Append(buffers, key)
    BY <1>6 DEF CreateVertexBuffer, config
  <2>2. key \in Nat /\ key \notin ToSet(buffers) /\ buffers \in Seq(Nat)
    BY NextKeyIsNew DEF IInv, Types, Owned
  <2> HIDE DEF key
  <2>3. IsInjective(buffers')  BY <2>1, <2>2, AppendedOnce DEF Sorts
  <2>4. QED  BY <2>1, <2>3 DEF Sorts
<1>7. QED  BY <1>2, <1>3, <1>4, <1>5, <1>6 DEF Next

(* The variables have their types, and no key is in use twice (Open,       *)
(* Close).                                                                 *)
THEOREM TypeCorrect == Spec => []TypeOK
<1>1. Init => Sorts
  <2>1. DOMAIN <<>> = {} /\ <<>> \in Seq(Seq(Nat))  OBVIOUS
  <2>2. QED  BY <2>1 DEF Init, Sorts, IsInjective
<1>2. Spec => [](IInv /\ Built /\ Sorts)
  <2>1. Init => IInv /\ Built /\ Sorts
    BY <1>1, InitHolds DEF Init, Built, Sizes, Strips, Chunks
  <2>2. IInv /\ Built /\ Sorts /\ [Next]_vars => (IInv /\ Built /\ Sorts)'
    BY StepKeeps, StepBuilds, StepSorts
  <2>3. QED  BY <2>1, <2>2, PTL DEF Spec
<1>3. IInv /\ Sorts => TypeOK
  <2> SUFFICES ASSUME IInv, Sorts PROVE TypeOK
    OBVIOUS
  <2>1. arrays \in Nat /\ indexBuffer \in indexKeys \cup {0} /\ inTree \subseteq chunks
    <3>1. arrays \in Nat  BY DEF IInv, Types, Owned
    <3>2. QED  BY <3>1 DEF IInv, Owned
  <2>2. buffers \in Seq(vertexKeys)
    <3>1. /\ buffers \in Seq(Nat) /\ DOMAIN buffers = 1 .. Len(buffers) /\ Len(buffers) \in Nat
          /\ vertexKeys = ToSet(buffers)
      BY DEF IInv, Types, Owned
    <3>2. \A i \in 1 .. Len(buffers) : buffers[i] \in vertexKeys  BY <3>1 DEF ToSet
    <3>3. buffers = [i \in 1 .. Len(buffers) |-> buffers[i]]  BY <3>1
    <3>4. QED  BY <3>1, <3>2, <3>3
  <2>3. QED  BY <2>1, <2>2 DEF IInv, Types, Sorts, TypeOK
<1>4. QED  BY <1>2, <1>3, PTL
=============================================================================
