\* khashe: two tables, of which one has two keys; two puts may run out of memory.
\* kbtree: nine keys.
SPECIFICATION MapsSpec
CONSTANTS
  Key = {0, 1, 2}
  Hash <- MCHash
  Val = {1, 2}
  NSub = 2
  MaxFailures = 2
  Null = Null
INVARIANTS
  KeysAreRouted
  SizeIsElements
  TreeIsSound
  IntervalIsTight
PROPERTIES
  ImplementsDict
  KbtreeIterationInOrder
  KbtreeImplementsDict
