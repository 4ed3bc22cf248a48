SPECIFICATION Spec
CONSTANTS
  Quads = {2, 3, 4, 8}
  Grids = {1, 2, 3, 4, 8}
INVARIANTS
  TypeOK
  OneOwner
  TerrainTiled
  DrawInBounds
  WaterExact
