\* Three threads race for three keys, two of which collide.
SPECIFICATION Spec
CONSTANTS
  t1 = t1
  t2 = t2
  t3 = t3
  k1 = k1
  k2 = k2
  k3 = k3
  Thread = {t1, t2, t3}
  Key = {k1, k2, k3}
  Hash <- MCHash
  ArenaSize = 2
  Fair = {}
  Root = Root
  Null = Null
INVARIANT TrieIsSound
PROPERTIES
  PublishedForGood
  ImplementsCells
SYMMETRY ThreadSymmetry
