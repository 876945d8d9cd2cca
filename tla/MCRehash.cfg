SPECIFICATION Spec
CONSTANTS
  ka = ka
  kb = kb
  kc = kc
  kd = kd
  ke = ke
  kf = kf
  x1 = x1
  None = None
  Key = {ka, kb, kc, kd, ke, kf}
  Value = {x1}
  SLOT_PER_BUCKET = 1
  MAX_BFS_PATH_LEN = 3
  InitHashpower = 2
  MaxHashpower = 4
  hash_key <- MCHash
CHECK_DEADLOCK FALSE
INVARIANTS
  PrimaryPassHasRoom
  PlaceItemExact
PROPERTIES
  DoubleKeepsItems
