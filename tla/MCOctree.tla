------------------------------ MODULE MCOctree ------------------------------
(* TLC instance of Octree: a binary tree of depth 2 over a line of four     *)
(* leaf regions.                                                            *)
EXTENDS Octree, TLC

LeafAt(n) == <<1 + ((n - 1) \div 2), 1 + ((n - 1) % 2)>>
Interval(i, j) == {LeafAt(n) : n \in i .. j}

(* Outside, one leaf, two siblings, across the middle, everything.          *)
MCBoxes == {{}, Interval(1, 1), Interval(3, 4), Interval(2, 3), Interval(1, 4)}

Below(p) == {leaf \in Leaves : IsPrefix(p, leaf)}

(* A frustum that sees the leaves w; when it is coarse, the spheres of      *)
(* inner nodes always stick out of it and into it.                          *)
See(w, coarse) ==
  [p \in Regions |->
     IF coarse /\ ~IsLeaf(p) THEN "PARTIAL"
     ELSE IF Below(p) \subseteq w THEN "FULL"
     ELSE IF Below(p) \cap w = {} THEN "NONE" ELSE "PARTIAL"]

MCFrusta == {See(w, coarse) :
               w \in {Interval(i, j) : i, j \in 1 .. 4}, coarse \in BOOLEAN}

Symmetry == Permutations(Chunks)
=============================================================================
