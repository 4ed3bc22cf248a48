\* Two producers and a consumer fight over a ring of one slot.
CONSTANTS
  Producers = {p1, p2}
  Consumers = {c1}
  Items = {a}
  NoItem = NoItem
  Size = 1
  WordMod = 100
  MaxPush = 2
SPECIFICATION FairSpec
PROPERTIES EveryCallReturns EveryItemDelivered
