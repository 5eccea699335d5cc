\* The flag array cannot be allocated.
SPECIFICATION Spec
CONSTANTS
  v1 = v1
  v2 = v2
  Key = {7, 14, 12, 5}
  Hash <- MCHash
  Word = 16
  Golden = 9
  MaxBits = 4
  Val = {v1}
  ResizeRequest = {0, 5, 9}
  AllocFailure = {"used"}
  NoBucket = NoBucket
  NoKey = NoKey
INVARIANT MemoryShortageIsReported
