\* Five keys whose homes collide and wrap, two values, capacities 4, 8 and 16.
SPECIFICATION Spec
CONSTANTS
  v1 = v1
  v2 = v2
  Key = {7, 14, 12, 5, 0}
  Hash <- MCHash
  Word = 16
  Golden = 9
  MaxBits = 4
  Val = {v1, v2}
  ResizeRequest = {0, 5, 9}
  AllocFailure = {"used", "keys"}
  NoBucket = NoBucket
  NoKey = NoKey
INVARIANTS
  IInv
PROPERTIES
  ImplementsDict
  CallReturns
