\* One thread alternately pushes and pops, so no step is ever stale; the ring
\* size does not divide the counters' modulus (8 is to 3 as 2^32 is to 100).
CONSTANTS
  Producers = {t1}
  Consumers = {t1}
  Items = {a}
  NoItem = NoItem
  Size = 3
  WordMod = 8
  MaxPush = 11
SPECIFICATION Spec
PROPERTY FalseOnlyWhenFull
