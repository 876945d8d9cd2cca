SPECIFICATION Spec
CONSTANTS
  t1 = t1
  t2 = t2
  t3 = t3
  ka = ka
  kb = kb
  kc = kc
  kd = kd
  ke = ke
  kf = kf
  x1 = x1
  x2 = x2
  None = None
  Thread = {t1}
  Key = {kb, kd, ke, kf}
  Value = {x1, x2}
  NumLocks = 2
  MaxVersion = 100
  SLOT_PER_BUCKET = 1
  MAX_BFS_PATH_LEN = 3
  InitHashpower = 1
  InitMaximum = 3
  MinimumLoad = 60
  hash_key <- MCHash
  Preload <- SequentialPreload
  Script <- SequentialScript
INVARIANTS
  TypeOK
  ItemsFindable
  ResizesOnlyWhenCrowded
PROPERTIES
  ActsAsDictionary
