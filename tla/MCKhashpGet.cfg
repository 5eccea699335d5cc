\* khp_get's loop goes on over equal keys and stops at another one.
SPECIFICATION Spec
CONSTANTS
  v1 = v1
  v2 = v2
  a1 = a1
  a2 = a2
  a3 = a3
  a4 = a4
  a5 = a5
  Key = {7, 14, 12}
  Hash <- MCHash
  Word = 16
  Golden = 9
  MaxBits = 4
  Val = {v1, v2}
  Addr = {a1, a2, a3}
  ResizeRequest = {0, 5, 9}
  AllocFailure = {}
  NoBucket = NoBucket
  Freed = Freed
  NoKey = NoKey
INVARIANT GetFindsTheKey
