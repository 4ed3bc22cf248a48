\* The user presses and releases any of the five inputs in any frame; up to
\* two dummies are created, on two places on the water, one of which is
\* outside the box of every chunk.
CONSTANTS
  Processes <- MCProcesses
  Water = {w1, w2}
  Covered = {w1}
  Ground = Ground
  Nowhere = Nowhere
  MaxDummies = 2
SPECIFICATION Spec
INVARIANTS TypeOK PickingMatchesPending
PROPERTIES LostOnlyToTheOther CreatedWhereShown PathHasItsEntity
CHECK_DEADLOCK FALSE
