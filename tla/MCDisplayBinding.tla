------------------------- MODULE MCDisplayBinding --------------------------
(* The terrain with one level, and a sphere.                                *)
EXTENDS DisplayBinding, TLC

CONSTANTS level, ball, terrain, sphere

MCMeshOf == (level :> terrain) @@ (ball :> sphere)

\* The two meshes may change places, with their parts.
MeshSymmetry ==
  {f \in Permutations(Parts \cup Meshes) :
     \A p \in Parts : f[p] \in Parts /\ f[MeshOf[p]] = MeshOf[f[p]]}
=============================================================================
