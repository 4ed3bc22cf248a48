\* Three threads on a ring of two slots: positions wrap around the ring, the
\* third push finds the ring full, and both hints can lag.
CONSTANTS
  Producers = {p1, p2}
  Consumers = {c1}
  Items = {a, b}
  NoItem = NoItem
  Size = 2
  WordMod = 100
  MaxPush = 3
SPECIFICATION Spec
SYMMETRY Symmetry
INVARIANTS TypeOK Window Delivery
PROPERTY Linearizable
