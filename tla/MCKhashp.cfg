\* Five keys whose homes collide and wrap, four copies, capacities 4, 8 and 16.
SPECIFICATION Spec
CONSTANTS
  v1 = v1
  v2 = v2
  a1 = a1
  a2 = a2
  a3 = a3
  a4 = a4
  a5 = a5
  Key = {7, 14, 12, 5, 0}
  Hash <- MCHash
  Word = 16
  Golden = 9
  MaxBits = 4
  Val = {v1}
  Addr = {a1, a2, a3, a4}
  ResizeRequest = {0, 5, 9}
  AllocFailure = {"flags", "buckets", "tmp", "copy"}
  NoBucket = NoBucket
  Freed = Freed
  NoKey = NoKey
INVARIANTS
  TableIsSound
  BucketsOwnCopies
PROPERTIES
  CopiesAreLostOnlyBy
  ImplementsDict
SYMMETRY AddrSymmetry
