\* Where kavl_itr_find leaves the iterator.
SPECIFICATION Spec
CONSTANTS
  Key = {1, 2, 3, 4, 5, 6, 7, 8, 9, 10, 11, 12}
  Session <- MCShortSession
  Root = Root
  Null = Null
INVARIANT FindIsAtOrAfter
