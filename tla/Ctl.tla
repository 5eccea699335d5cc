-------------------------------- MODULE Ctl ---------------------------------
(***************************************************************************)
(* The unordered_map of CTL (ctl/ctl/unordered_set.h, unordered_map.h):    *)
(* buckets of singly linked nodes, a prime number of them once the table   *)
(* has grown.  A new node goes to the front of its bucket, so that moving  *)
(* to another number of buckets turns chains around.  A call is one step.  *)
(***************************************************************************)
EXTENDS Integers, Sequences, FiniteSets

CONSTANTS
  Key,
  Stored,          \* the values clients give each key
  Hash,
  Primes,          \* the table of __next_prime, a set
  InitialBuckets,  \* what init reserves, not a prime (8)
  Growth,          \* CTL_USET_GROWTH_FACTOR in thousandths (1618)
  Desired,         \* what a client passes to reserve and rehash
  MaxBuckets       \* bound: no table with more buckets

VARIABLES
  t,               \* the table
  answer           \* what the last call said

vars == <<t, answer>>

Said(op, k, found, vals) == [op |-> op, key |-> k, found |-> found, vals |-> vals]
Silent == [op |-> "none"]

Buckets(T) == Cardinality(DOMAIN T.buckets)

\* limit is max_bucket_count: how many nodes make the table grow
NewTable(n) == [buckets |-> [b \in 0..(n-1) |-> <<>>], size |-> 0, limit |-> n]

\* after free: no array, bucket_max is 0
Freed(limit) == [NewTable(0) EXCEPT !.limit = limit]

\* bucket_max + 1
Modulus(T) == IF Buckets(T) = 0 THEN 1 ELSE Buckets(T)
IndexOf(T, k) == Hash[k] % Modulus(T)

\* __next_prime
NextPrime(n) == CHOOSE p \in Primes : p >= n /\ \A q \in Primes : q >= n => p <= q

(***************************************************************************)
(* Nodes.                                                                  *)
(***************************************************************************)
\* find_node: the node of a key as a set of positions in its chain
Places(T, k) ==
  IF T.size = 0 THEN {}
  ELSE LET chain == T.buckets[IndexOf(T, k)]
       IN  {i \in DOMAIN chain : chain[i].key = k}

Found(T, k) == {T.buckets[IndexOf(T, k)][i] : i \in Places(T, k)}

\* push: in front of the chain
Push(T, kv) == [T EXCEPT !.buckets[IndexOf(T, kv.key)] = <<kv>> \o @, !.size = @ + 1]

(***************************************************************************)
(* _rehash and rehash: every node is pushed to a new array.                *)
(***************************************************************************)
RECURSIVE PushAll(_, _), MoveFrom(_, _, _)
PushAll(T, chain) == IF chain = <<>> THEN T ELSE PushAll(Push(T, Head(chain)), Tail(chain))

MoveFrom(old, b, T) ==
  IF b \notin DOMAIN old THEN T ELSE MoveFrom(old, b + 1, PushAll(T, old[b]))

Moved_AsTheyWere(T, n) ==
  [NewTable(n) EXCEPT
     !.buckets = [b \in DOMAIN @ |-> IF b \in DOMAIN T.buckets THEN T.buckets[b] ELSE <<>>],
     !.size = T.size]

Moved(T, n) == MoveFrom(T.buckets, 0, NewTable(n))

\* the buckets of a new table that reserved room for so many
BucketsFor(desired) ==
  IF desired > 0 /\ NextPrime(desired) > InitialBuckets THEN NextPrime(desired) ELSE InitialBuckets

Rehashed(T, desired) == IF desired = Modulus(T) THEN T ELSE Moved(T, BucketsFor(desired))

\* _pre_insert_grow
Grown(T) ==
  LET U == IF Buckets(T) = 0 THEN Rehashed(T, InitialBuckets) ELSE T
  IN  IF U.size + 1 > U.limit THEN Rehashed(U, (Growth * Buckets(U)) \div 1000) ELSE U

\* erase: the node is unlinked
Unlinked(T, k) ==
  LET b == IndexOf(T, k)
  IN  [T EXCEPT !.buckets[b] = SelectSeq(@, LAMBDA kv : kv.key # k), !.size = @ - 1]

(***************************************************************************)
(* The calls.                                                              *)
(***************************************************************************)
WithinBound(T) == Buckets(T) <= MaxBuckets

Init == t = NewTable(InitialBuckets) /\ answer = Silent

\* find, contains, count
Find(k) ==
  /\ answer' = Said("find", k, Found(t, k) # {}, {kv.val : kv \in Found(t, k)})
  /\ UNCHANGED t

\* insert, emplace and their _found variants; emplace_hint at the end, of a key
\* that is not there; and insert_or_assign, which does not assign: when the key
\* is there, unordered_map.h:24 frees the value it was given
Insert(k, v) ==
  LET T == IF Found(t, k) # {} THEN t ELSE Push(Grown(t), [key |-> k, val |-> v])
  IN  /\ WithinBound(T)
      /\ t' = T
      /\ answer' = Said("insert", k, Found(t, k) # {}, {})

\* emplace_hint with a node at hand: the table does not grow
EmplaceHint(k, v) ==
  /\ t.size > 0
  /\ t' = IF Found(t, k) # {} THEN t ELSE Push(t, [key |-> k, val |-> v])
  /\ answer' = Said("insert", k, Found(t, k) # {}, {})

\* a value is changed where find or insert_found left the client
Write(k, v) ==
  /\ \E i \in Places(t, k) : t' = [t EXCEPT !.buckets[IndexOf(t, k)][i].val = v]
  /\ answer' = Said("assign", k, TRUE, {v})

\* erase, which reads the array at once: a freed table has none
Erase(k) ==
  /\ Buckets(t) > 0
  /\ t' = IF Found(t, k) = {} THEN t ELSE Unlinked(t, k)
  /\ answer' = Said("erase", k, Found(t, k) # {}, {})

\* clear keeps the array, free does not
Clear ==
  /\ t' = [NewTable(Buckets(t)) EXCEPT !.limit = t.limit]
  /\ answer' = [op |-> "clear"]

Free ==
  /\ t' = Freed(t.limit)
  /\ answer' = [op |-> "clear"]

\* reserve, and rehash, which may shrink
Reserve(desired) ==
  LET n == NextPrime(desired)
  IN  /\ n <= MaxBuckets
      /\ t' = IF n <= Modulus(t) THEN t ELSE Moved(t, n)
      /\ answer' = Silent

Rehash(desired) ==
  /\ BucketsFor(desired) <= MaxBuckets
  /\ t' = Rehashed(t, desired)
  /\ answer' = Silent

Next ==
  \/ \E k \in Key : Find(k) \/ Erase(k)
  \/ \E k \in Key : \E v \in Stored[k] : Insert(k, v) \/ EmplaceHint(k, v) \/ Write(k, v)
  \/ \E desired \in Desired : Reserve(desired) \/ Rehash(desired)
  \/ Clear
  \/ Free

Spec == Init /\ [][Next]_vars

(***************************************************************************)
(* What is checked.                                                        *)
(***************************************************************************)
RECURSIVE SumOfSizes(_, _)
SumOfSizes(T, b) ==
  IF b \notin DOMAIN T.buckets THEN 0 ELSE Len(T.buckets[b]) + SumOfSizes(T, b + 1)

\* Every node is in the bucket of its hash among the buckets there are now,
\* and no key has two; the size is the number of nodes.
NodesAreInTheirBuckets(T) ==
  /\ SumOfSizes(T, 0) = T.size
  /\ \A b \in DOMAIN T.buckets : \A i, j \in DOMAIN T.buckets[b] :
       /\ IndexOf(T, T.buckets[b][i].key) = b
       /\ i # j => T.buckets[b][i].key # T.buckets[b][j].key

TableIsSound == NodesAreInTheirBuckets(t)

Bindings == UNION {{t.buckets[b][i] : i \in DOMAIN t.buckets[b]} : b \in DOMAIN t.buckets}
=============================================================================
