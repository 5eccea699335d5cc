\* One thread keeps running; the other may stop for good.
SPECIFICATION Spec
CONSTANTS
  t1 = t1
  t2 = t2
  t3 = t3
  k1 = k1
  k2 = k2
  k3 = k3
  Thread = {t1, t2}
  Key = {k1, k2, k3}
  Hash <- MCHash
  ArenaSize = 4
  Fair = {t1}
  Root = Root
  Null = Null
PROPERTY LockFree
