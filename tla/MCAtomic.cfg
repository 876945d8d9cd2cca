SPECIFICATION SeenSpec
CONSTANTS
  t1 = t1
  t2 = t2
  t3 = t3
  ka = ka
  kb = kb
  kc = kc
  kd = kd
  ke = ke
  kf = kf
  x1 = x1
  x2 = x2
  None = None
  Thread = {t1, t2, t3}
  Key = {ka, kb, ke}
  Value = {x1, x2}
  NumLocks = 2
  MaxVersion = 100
  SLOT_PER_BUCKET = 2
  MAX_BFS_PATH_LEN = 2
  InitHashpower = 1
  InitMaximum = 1
  MinimumLoad = 5
  hash_key <- MCHash
  Preload <- AtomicPreload
  Script <- AtomicScript
INVARIANTS
  NoDuplicateKeys
  CountersAgree
  IterSeesTable
  BodyLookupsNeedNoLock
  BodyInv
PROPERTIES
  Linearizable
