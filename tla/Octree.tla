------------------------------- MODULE Octree -------------------------------
(***************************************************************************)
(* Core/Octree.cpp and Core/OctreeNode.cpp: the spatial index of a scene.  *)
(* Nodes live in a pool and name each other by pool index; a node exists   *)
(* as long as an object touches its region.  The clients are the landscape *)
(* chunks of the finest LOD (Landscape/LandscapeChunk.cpp), the only code  *)
(* that puts objects in the tree; the reader is the frustum query of       *)
(* Scene::Update.                                                          *)
(*                                                                         *)
(* A region is named by its path from the root, one octant per level, and  *)
(* an object's box by the set of leaf regions it touches: the six float    *)
(* comparisons of AddObject and RemoveObject say whether a child's region  *)
(* touches the box, borders included.                                      *)
(***************************************************************************)
EXTENDS Integers, Sequences, FiniteSets, SequencesExt

CONSTANTS
  Depth,    \* depth level of the root (4 in Data/Scenes/SceneTest00.lua)
  Arity,    \* children per node (EOctreeAABB_COUNT, 8)
  Chunks,   \* landscape chunks of LOD 0
  Boxes,    \* sets of leaf regions; {} lies outside the tree
  Frusta    \* what the frustum may answer: region -> NONE, PARTIAL or FULL

Octants == 1 .. Arity
Regions == UNION {[1 .. n -> Octants] : n \in 0 .. Depth}
Leaves  == [1 .. Depth -> Octants]
IsLeaf(path) == Len(path) = Depth

Touches(b, path) == \E leaf \in b : IsPrefix(path, leaf)

ASSUME ShapeAssumption == Depth \in Nat \ {0} /\ Arity \in Nat \ {0}
ASSUME BoxAssumption   == \A b \in Boxes : b \subseteq Leaves

(* The sphere of a child node lies inside its parent's (Create, line 52),  *)
(* so a frustum that misses, or contains, a node's sphere misses, or       *)
(* contains, those of all nodes below it.                                  *)
ASSUME FrustumAssumption ==
  \A f \in Frusta :
    /\ f \in [Regions -> {"NONE", "PARTIAL", "FULL"}]
    /\ \A p, q \in Regions : IsPrefix(p, q) /\ f[p] # "PARTIAL" => f[q] = f[p]

VARIABLES
  tree,   \* the Octree object: m_vPool, m_vInUse, m_vAvailable
  live,   \* chunks created and not yet released
  box     \* box of each chunk (OctreeObject::m_vPoints)

treeVars == <<tree, live, box>>
-----------------------------------------------------------------------------
(* The pool of nodes, m_vPool; node i is pool[i + 1].  Node 0 is the root;  *)
(* in m_vChildren 0 means none.                                            *)
Node  == [path : Regions, children : [Octants -> Nat] \cup {<<>>}, objects : SUBSET Chunks]
Trees == [pool : Seq(Node), inUse : SUBSET Nat, available : Seq(Nat)]

Path(t, i)     == t.pool[i + 1].path
Children(t, i) == t.pool[i + 1].children
Objects(t, i)  == t.pool[i + 1].objects

NoChildren == [k \in Octants |-> 0]
EmptyNode  == [path |-> <<>>, children |-> NoChildren, objects |-> {}]

(* NewNode_: the pool grows by one node, which is at once available.       *)
Grow(t) ==
  [t EXCEPT !.pool = Append(@, EmptyNode), !.available = Append(@, Len(t.pool))]

(* Mutant: the index is handed out and stays available.                    *)
NewNodeKept(t) ==
  LET s == IF t.available = <<>> THEN Grow(t) ELSE t
  IN [index |-> Last(s.available), tree |-> [s EXCEPT !.inUse = @ \cup {Last(s.available)}]]

NewNode(t) ==
  LET s == IF t.available = <<>> THEN Grow(t) ELSE t
      i == Last(s.available)
  IN [index |-> i,
      tree  |-> [s EXCEPT !.inUse = @ \cup {i}, !.available = Front(@)]]

DeleteNode(t, i) ==
  IF i \in t.inUse
  THEN [t EXCEPT !.inUse = @ \ {i}, !.available = Append(@, i)]
  ELSE t

(* The loop of OctreeNode::Release over the children it has.               *)
DropChildren(t, children) ==
  LET dropped[n \in 0 .. Len(children)] ==
        IF n = 0 THEN t
        ELSE IF children[n] = 0 THEN dropped[n - 1]
        ELSE DeleteNode(dropped[n - 1], children[n])
  IN dropped[Len(children)]

(* OctreeNode::Release.  The model also forgets the node's region, which    *)
(* the code leaves behind and Create overwrites before anyone reads it.     *)
ReleaseNode(t, i) ==
  [DropChildren(t, Children(t, i)) EXCEPT !.pool[i + 1] = [EmptyNode EXCEPT !.children = <<>>]]

(* OctreeNode::Create.                                                     *)
CreateNode(t, i, path) ==
  [ReleaseNode(t, i) EXCEPT !.pool[i + 1] = [EmptyNode EXCEPT !.path = path]]

(* AddObject's lines 195-214: the child, made when it does not exist.      *)
EnsureChild(t, i, k) ==
  IF Children(t, i)[k] # 0 THEN t
  ELSE LET new == NewNode(t)
       IN CreateNode([new.tree EXCEPT !.pool[i + 1].children[k] = new.index],
                     new.index, Append(Path(t, i), k))
-----------------------------------------------------------------------------
(* AddObject and RemoveObject walk the children in order and stop at the   *)
(* first one that fails.  ok is the result, which the caller of the root   *)
(* ignores (LandscapeChunk.cpp 135 and 159).  The calls go down one depth  *)
(* level at a time: below is the call at the level of the children, as a   *)
(* function of the tree and the node.                                      *)
Calls == Trees \X Nat

Insert(t, i, c) == [t EXCEPT !.pool[i + 1].objects = @ \cup {c}]

(* One turn of AddObject's loop.                                           *)
AddToChild(acc, i, k, b, below) ==
  IF acc.failed \/ ~Touches(b, Append(Path(acc.tree, i), k)) THEN acc
  ELSE LET s == EnsureChild(acc.tree, i, k)
           r == below[<<s, Children(s, i)[k]>>]
       IN [tree |-> r.tree, ok |-> r.ok, failed |-> ~r.ok]

AddToChildren(t, i, b, below) ==
  LET after[k \in 0 .. Arity] ==
        IF k = 0 THEN [tree |-> t, ok |-> FALSE, failed |-> FALSE]
        ELSE AddToChild(after[k - 1], i, k, b, below)
  IN after[Arity]

AddAtLeaf(c) == [x \in Calls |-> [tree |-> Insert(x[1], x[2], c), ok |-> TRUE]]

AddAbove(c, b, below) ==
  [x \in Calls |->
     LET r == AddToChildren(x[1], x[2], b, below)
     IN [tree |-> IF r.ok THEN Insert(r.tree, x[2], c) ELSE r.tree, ok |-> r.ok]]

(* Octree::AddObject, a call at the root.                                  *)
AddObject(t, c, b) ==
  LET add[level \in 0 .. Depth] ==
        IF level = 0 THEN AddAtLeaf(c) ELSE AddAbove(c, b, add[level - 1])
  IN add[Depth][<<t, 0>>].tree

(* Mutant: a child is pruned whatever it still holds.                      *)
PruneChildAlways(t, i, k) ==
  LET j == Children(t, i)[k]
  IN [DeleteNode(ReleaseNode(t, j), j) EXCEPT !.pool[i + 1].children[k] = 0]

(* Mutant: the child is emptied and unlinked, and stays in use.            *)
PruneChildInUse(t, i, k) ==
  LET j == Children(t, i)[k]
  IN IF Objects(t, j) = {}
     THEN [ReleaseNode(t, j) EXCEPT !.pool[i + 1].children[k] = 0]
     ELSE t

(* RemoveObject's lines 308-313.                                           *)
PruneChild(t, i, k) ==
  LET j == Children(t, i)[k]
  IN IF Objects(t, j) = {}
     THEN [DeleteNode(ReleaseNode(t, j), j) EXCEPT !.pool[i + 1].children[k] = 0]
     ELSE t

(* Its first lines: whether the object was there, and the node without it. *)
Erased(t, i, c) ==
  [tree |-> [t EXCEPT !.pool[i + 1].objects = @ \ {c}], ok |-> c \in Objects(t, i)]

(* One turn of RemoveObject's loop.                                        *)
RemoveFromChild(acc, i, k, b, below) ==
  IF \/ acc.failed
     \/ Children(acc.tree, i)[k] = 0
     \/ ~Touches(b, Append(Path(acc.tree, i), k))
  THEN acc
  ELSE LET r == below[<<acc.tree, Children(acc.tree, i)[k]>>]
       IN [tree   |-> IF r.ok THEN PruneChild(r.tree, i, k) ELSE r.tree,
           ok     |-> r.ok,
           failed |-> ~r.ok]

RemoveFromChildren(e, i, b, below) ==
  LET after[k \in 0 .. Arity] ==
        IF k = 0 THEN [tree |-> e.tree, ok |-> e.ok, failed |-> FALSE]
        ELSE RemoveFromChild(after[k - 1], i, k, b, below)
  IN after[Arity]

RemoveAtLeaf(c) == [x \in Calls |-> Erased(x[1], x[2], c)]

RemoveAbove(c, b, below) ==
  [x \in Calls |->
     LET r == RemoveFromChildren(Erased(x[1], x[2], c), x[2], b, below)
     IN [tree |-> r.tree, ok |-> r.ok]]

(* Octree::RemoveObject.                                                   *)
RemoveObject(t, c, b) ==
  LET remove[level \in 0 .. Depth] ==
        IF level = 0 THEN RemoveAtLeaf(c) ELSE RemoveAbove(c, b, remove[level - 1])
  IN remove[Depth][<<t, 0>>].tree
-----------------------------------------------------------------------------
(* TraverseNoRecursion: an explicit stack; the result may name an object   *)
(* once per leaf (the find in lines 396 and 424 is commented out).         *)

(* The loop that pushes the children that exist.                           *)
Existing(children) ==
  LET pushed[k \in 0 .. Arity] ==
        IF k = 0 THEN <<>>
        ELSE IF children[k] = 0 THEN pushed[k - 1] ELSE Append(pushed[k - 1], children[k])
  IN pushed[Arity]

(* Mutant: a node wholly in view reports nothing, its children are skipped.*)
VisitFullSkipped(t, f, i) ==
  CASE f[Path(t, i)] = "NONE" -> [push |-> <<>>, found |-> {}]
    [] f[Path(t, i)] # "NONE" /\ ~IsLeaf(Path(t, i)) ->
         [push |-> IF f[Path(t, i)] = "PARTIAL" THEN Existing(Children(t, i)) ELSE <<>>,
          found |-> {}]
    [] OTHER -> [push |-> <<>>, found |-> Objects(t, i)]

(* What is done with a node: the children to push, the objects to report.  *)
Visit(t, f, i) ==
  CASE f[Path(t, i)] = "NONE" -> [push |-> <<>>, found |-> {}]
    [] f[Path(t, i)] = "PARTIAL" /\ ~IsLeaf(Path(t, i)) ->
         [push |-> Existing(Children(t, i)), found |-> {}]
    [] OTHER -> [push |-> <<>>, found |-> Objects(t, i)]

(* One turn of the loop.                                                   *)
Turn(t, f, q) ==
  IF q.stack = <<>> THEN q
  ELSE LET v == Visit(t, f, Last(q.stack))
       IN [stack |-> Front(q.stack) \o v.push, objects |-> q.objects \cup v.found]

(* As many turns as the pool has nodes: QueryExact says that the stack is  *)
(* empty by then.                                                          *)
Traverse(t, f) ==
  LET turn[n \in 0 .. Len(t.pool)] ==
        IF n = 0 THEN [stack |-> <<0>>, objects |-> {}] ELSE Turn(t, f, turn[n - 1])
  IN turn[Len(t.pool)]
-----------------------------------------------------------------------------
(* Octree::Create on a new or released tree: NewNode gives the root 0.     *)
NewTree ==
  LET root == NewNode([pool |-> <<>>, inUse |-> {}, available |-> <<>>])
  IN CreateNode(root.tree, root.index, <<>>)

(* LandscapeChunk::Create at LOD 0, on a chunk just constructed.  Its       *)
(* Release takes the chunk out of a tree it is not in, with a box that      *)
(* nobody has set: the constructor leaves the points uninitialized.         *)
CreateChunk(c) ==
  /\ c \notin live
  /\ \E stray, b \in Boxes :
       /\ box'  = [box EXCEPT ![c] = b]
       /\ tree' = AddObject(RemoveObject(tree, c, stray), c, b)
  /\ live' = live \cup {c}

(* LandscapeChunk::Release, then delete (Landscape::Close).                 *)
ReleaseChunk(c) ==
  /\ c \in live
  /\ tree' = RemoveObject(tree, c, box[c])
  /\ live' = live \ {c}
  /\ box'  = [box EXCEPT ![c] = {}]

(* Scene::Release releases the landscapes and then the tree; the next scene *)
(* makes its own.                                                           *)
ReloadScene ==
  /\ live = {}
  /\ tree' = NewTree
  /\ UNCHANGED <<live, box>>

TreeInit ==
  /\ tree = NewTree
  /\ live = {}
  /\ box = [c \in Chunks |-> {}]

TreeNext == ReloadScene \/ \E c \in Chunks : CreateChunk(c) \/ ReleaseChunk(c)

TreeSpec == TreeInit /\ [][TreeNext]_treeVars
-----------------------------------------------------------------------------
(* Properties.                                                             *)

Indices == 0 .. Len(tree.pool) - 1
Links(i) == ToSet(Children(tree, i)) \ {0}

TreeTypeOK ==
  /\ tree \in Trees
  /\ \A i \in tree.inUse : Children(tree, i) \in [Octants -> Indices]
  /\ tree.inUse \subseteq Indices
  /\ ToSet(tree.available) \subseteq Indices
  /\ live \subseteq Chunks
  /\ box \in [Chunks -> Boxes \cup {{}}]

(* Every index is either in use or available once, and the nodes in use are *)
(* the root and the nodes that exactly one node in use has for a child, at  *)
(* the octant its path says (Octree.cpp 121-144): no node is leaked, shared *)
(* or handed out twice, however often chunks come and go.                   *)
PoolConsistent ==
  /\ tree.inUse \cap ToSet(tree.available) = {}
  /\ tree.inUse \cup ToSet(tree.available) = Indices
  /\ IsInjective(tree.available)
  /\ 0 \in tree.inUse
  /\ \A i \in tree.inUse \ {0} :
       Cardinality({p \in tree.inUse : i \in Links(p)}) = 1
  /\ \A i \in tree.inUse, k \in Octants :
       LET j == Children(tree, i)[k]
       IN j # 0 => j \in tree.inUse /\ Path(tree, j) = Append(Path(tree, i), k)

(* A node holds exactly the live chunks whose box touches its region, and   *)
(* there is a node for a region when, and only when, such a chunk exists: a *)
(* deleted chunk is nowhere in the tree, and nothing is left of its nodes.  *)
Placement ==
  /\ \A i \in tree.inUse :
       Objects(tree, i) = {c \in live : Touches(box[c], Path(tree, i))}
  /\ {Path(tree, i) : i \in tree.inUse} =
       {<<>>} \cup {p \in Regions : \E c \in live : Touches(box[c], p)}

(* Whatever the camera sees, the query of Scene::Update reports the chunks  *)
(* with a leaf in view and no others: shortcuts at nodes wholly inside or   *)
(* outside the frustum neither lose a chunk nor add one.                    *)
QueryExact ==
  \A f \in Frusta :
    LET q == Traverse(tree, f)
    IN /\ q.stack = <<>>
       /\ q.objects = {c \in live : \E leaf \in box[c] : f[leaf] # "NONE"}
=============================================================================
