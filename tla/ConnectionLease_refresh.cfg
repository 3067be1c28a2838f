\* A lifetime with background refreshes, no eviction.
SPECIFICATION Spec
CONSTANTS
  Requests = {r1, r2}
  Cachings = {"for"}
  MaxConnects = 3
  MaxDrops = 0
PROPERTIES
  HandsOutOpen
CHECK_DEADLOCK FALSE
