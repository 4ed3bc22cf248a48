\* Two meshes with a vertex and an index buffer each, the three kinds of overlay,
\* and three declarations: each of two owners may have one at a time, and one of
\* them makes its own again after a release.
CONSTANTS
  level = level
  ball = ball
  terrain = terrain
  sphere = sphere
  Parts = {level, ball}
  Meshes = {terrain, sphere}
  MeshOf <- MCMeshOf
  Buffers = {1, 2, 3}
  NULL = 0
  MaxDecls = 3
SPECIFICATION Spec
INVARIANTS TypeOK NothingReleasedIsUsed
PROPERTY DrawAsAsked
SYMMETRY MeshSymmetry
