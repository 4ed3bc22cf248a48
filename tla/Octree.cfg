\* Two chunks over a line of four leaf regions.
CONSTANTS
  Depth = 2
  Arity = 2
  Chunks = {c1, c2}
  Boxes <- MCBoxes
  Frusta <- MCFrusta
SYMMETRY Symmetry
SPECIFICATION TreeSpec
INVARIANTS TreeTypeOK PoolConsistent Placement QueryExact
