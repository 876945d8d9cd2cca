SPECIFICATION Spec
CONSTANTS
  Capacity = {1, 4, 5, 9, 16, 33}
  Hash = {0, 1, 2, 5, 11, 21, 42, 63, 85, 127, 170, 255}
  Partial = {0, 1, 2, 3, 6, 15, 63, 127, 128, 255}
  SLOT_PER_BUCKET = 4
  MAX_NUM_LOCKS = 4
  MaxHashpower = 8
CHECK_DEADLOCK FALSE
INVARIANTS
  AltInvolution
  CapacityHolds
PROPERTIES
  StripesStay
  BucketsSplit
