\* Every AVL tree of up to seven nodes, and large ones of ten to twelve.
SPECIFICATION Spec
CONSTANTS
  Key = {1, 2, 3, 4, 5, 6, 7, 8, 9, 10, 11, 12}
  Session <- MCSession
  Root = Root
  Null = Null
INVARIANTS
  IsAVLTree
  LookupsAreRight
  FreesEachOnce
PROPERTIES
  IterationInOrder
  ImplementsRankedSet
