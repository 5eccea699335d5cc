----------------------------- MODULE Verstable ------------------------------
(***************************************************************************)
(* Verstable (verstable/verstable.h): open addressing in which the keys of *)
(* one home bucket form a chain.  The chain begins at home: a stranger     *)
(* there is evicted.  A bucket's metadatum has a fragment of the hash,     *)
(* whether the key is at home, and the quadratic displacement from home of *)
(* the next key of the chain.  Displacements have a limit; where it is     *)
(* met, the table is rehashed.  A call is one step.                        *)
(***************************************************************************)
EXTENDS Integers, Sequences, FiniteSets

CONSTANTS
  Key, Null,
  Stored,         \* the values clients give each key
  Hash, Frag,     \* HASH_FN without and vt_hashfrag: its highest four bits
  MinBuckets,     \* VT_MIN_NONZERO_BUCKET_COUNT (8)
  MaxLoad,        \* MAX_LOAD in percent (90)
  Last,           \* VT_DISPLACEMENT_MASK (0x7FF): the chain's end, and the limit
  Reserved,       \* what a client passes to reserve
  MallocFails,    \* the outcomes of malloc: a set of Booleans
  MaxBuckets      \* bound: no table with more buckets

VARIABLES
  t,              \* the table
  answer          \* what the last call said

vars == <<t, answer>>

Said(op, k, found, vals) == [op |-> op, key |-> k, found |-> found, vals |-> vals]
Silent == [op |-> "none"]

\* VT_EMPTY
Empty == [frag |-> 0, home |-> FALSE, disp |-> 0]

NewTable(n) == [n |-> n, count |-> 0, kv |-> [b \in 0..(n-1) |-> Null],
                meta |-> [b \in 0..(n-1) |-> Empty]]

\* no buckets, and the placeholder for their metadata
NoTable == NewTable(0)
MetaAt(T, b) == IF T.n = 0 THEN Empty ELSE T.meta[b]

HomeOf(T, k) == IF T.n = 0 THEN 0 ELSE Hash[k] % T.n

\* vt_quadratic
Quadratic(d) == (d * d + d) \div 2
Displaced(T, home, d) == (home + Quadratic(d)) % T.n

(***************************************************************************)
(* Chains.                                                                 *)
(***************************************************************************)
RECURSIVE ChainFrom(_, _, _, _)
ChainFrom(T, home, b, most) ==
  IF most = 0 THEN <<>>
  ELSE <<b>> \o IF T.meta[b].disp = Last THEN <<>>
                ELSE ChainFrom(T, home, Displaced(T, home, T.meta[b].disp), most - 1)

\* the buckets of the keys whose home this is
Chain(T, home) ==
  IF MetaAt(T, home).home THEN ChainFrom(T, home, home, T.n + 1) ELSE <<>>

\* the bucket of a key, as a set: the fragments are compared first
Bucket(T, k) ==
  LET c == Chain(T, HomeOf(T, k))
  IN  {c[i] : i \in {j \in DOMAIN c : T.meta[c[j]].frag = Frag[k] /\ T.kv[c[j]].key = k}}

\* the bucket before b in the chain of home
Before(T, home, b) ==
  LET c == ChainFrom(T, home, home, T.n + 1)
  IN  c[(CHOOSE i \in DOMAIN c : c[i] = b) - 1]

\* find_first_empty: the displacement of an empty bucket, below the limit
FreeDisplacements(T, home) ==
  {d \in 1..(Last - 1) : T.meta[Displaced(T, home, d)] = Empty}
FirstEmpty(T, home) ==
  CHOOSE d \in FreeDisplacements(T, home) : \A e \in FreeDisplacements(T, home) : d <= e

InsertLocation_AtEnd(T, home, d) ==
  LET c == ChainFrom(T, home, home, T.n + 1) IN c[Len(c)]

\* find_insert_location_in_chain: after it the chain stays in quadratic order
InsertLocation(T, home, d) ==
  LET c == ChainFrom(T, home, home, T.n + 1)
  IN  c[CHOOSE i \in DOMAIN c : /\ T.meta[c[i]].disp > d
                                /\ \A j \in 1..(i-1) : T.meta[c[j]].disp <= d]

\* a bucket of the chain of home becomes the place of a key
LinkAt(T, home, d, kv, frag) ==
  LET prev == InsertLocation(T, home, d)
      e == Displaced(T, home, d)
  IN  [T EXCEPT !.kv[e] = kv,
                !.meta = [@ EXCEPT ![e] = [frag |-> frag, home |-> FALSE,
                                           disp |-> T.meta[prev].disp],
                                   ![prev].disp = d]]

(***************************************************************************)
(* evict: the stranger leaves its chain before a bucket is looked for, and *)
(* when none is within the limit it stays, in no chain.                    *)
(***************************************************************************)
Disconnected(T, b) ==
  [T EXCEPT !.meta[Before(T, HomeOf(T, T.kv[b].key), b)].disp = T.meta[b].disp]

Moved(U, home, b) ==
  IF FreeDisplacements(U, home) = {} THEN [ok |-> FALSE, table |-> U]
  ELSE [ok |-> TRUE, table |-> LinkAt(U, home, FirstEmpty(U, home), U.kv[b], U.meta[b].frag)]

Evict(T, b) == Moved(Disconnected(T, b), HomeOf(T, T.kv[b].key), b)

(***************************************************************************)
(* insert_raw: where the key went, if it could go anywhere.                *)
(***************************************************************************)
Full(T) == (T.count + 1) * 100 > T.n * MaxLoad

\* the key goes to its home, unless a stranger is still there
Settled(e, kv) ==
  IF ~e.ok THEN e
  ELSE [ok |-> TRUE,
        table |-> [e.table EXCEPT
                    !.kv[HomeOf(e.table, kv.key)] = kv, !.count = @ + 1,
                    !.meta[HomeOf(e.table, kv.key)] =
                      [frag |-> Frag[kv.key], home |-> TRUE, disp |-> Last]]]

AtHome(T, kv) ==
  LET b == HomeOf(T, kv.key)
  IN  Settled(IF T.meta[b] = Empty THEN [ok |-> TRUE, table |-> T] ELSE Evict(T, b), kv)

InChain(T, kv) ==
  LET home == HomeOf(T, kv.key)
      U == LinkAt(T, home, FirstEmpty(T, home), kv, Frag[kv.key])
  IN  IF FreeDisplacements(T, home) = {} THEN [ok |-> FALSE, table |-> T]
      ELSE [ok |-> TRUE, table |-> [U EXCEPT !.count = @ + 1]]

\* a key that is not there
InsertNew(T, kv) ==
  IF Full(T) THEN [ok |-> FALSE, table |-> T]
  ELSE IF MetaAt(T, HomeOf(T, kv.key)).home THEN InChain(T, kv) ELSE AtHome(T, kv)

InsertRaw(T, kv, replace) ==
  LET found == Bucket(T, kv.key)
  IN  IF found = {} THEN InsertNew(T, kv)
      ELSE [ok |-> TRUE,
            table |-> IF replace THEN [T EXCEPT !.kv[CHOOSE b \in found : TRUE] = kv] ELSE T]

(***************************************************************************)
(* rehash: until every key finds a bucket within the limit.  A result with *)
(* more than MaxBuckets buckets only says so.                              *)
(***************************************************************************)
RECURSIVE Reinsert(_, _, _), Rehash(_, _)
Reinsert(T, b, r) ==
  IF b = T.n \/ ~r.ok THEN r.table
  ELSE Reinsert(T, b + 1, IF T.meta[b] = Empty THEN r ELSE InsertNew(r.table, T.kv[b]))

Rehashed(T, new) == IF new.count < T.count THEN Rehash(T, 2 * new.n) ELSE new

Rehash(T, n) ==
  IF n > MaxBuckets THEN NewTable(n)
  ELSE Rehashed(T, Reinsert(T, 0, [ok |-> TRUE, table |-> NewTable(n)]))

WithinBound(T) == T.n <= MaxBuckets

\* insert, get_or_insert: until there is room, or no memory
RECURSIVE Inserted(_, _, _, _), Retried(_, _, _, _)
Retried(r, kv, replace, oom) ==
  IF r.ok \/ oom \/ ~WithinBound(r.table) THEN r
  ELSE Inserted(Rehash(r.table, IF r.table.n = 0 THEN MinBuckets ELSE 2 * r.table.n),
                kv, replace, oom)

Inserted(T, kv, replace, oom) == Retried(InsertRaw(T, kv, replace), kv, replace, oom)

(***************************************************************************)
(* erase_itr_raw: the last key of the chain takes the place of the erased. *)
(***************************************************************************)
Erased(T, b) ==
  LET home == HomeOf(T, T.kv[b].key)
      c == Chain(T, home)
      last == c[Len(c)]
      Cut(m) == [m EXCEPT ![c[Len(c) - 1]].disp = Last, ![last] = Empty]
  IN  [T EXCEPT
        !.count = @ - 1,
        !.kv = [@ EXCEPT ![b] = T.kv[last], ![last] = Null],
        !.meta = IF Len(c) = 1 THEN [@ EXCEPT ![b] = Empty]
                 ELSE Cut([@ EXCEPT ![b].frag = T.meta[last].frag])]

(***************************************************************************)
(* The calls.                                                              *)
(***************************************************************************)
Init == t = NoTable /\ answer = Silent

\* get
Get(k) ==
  /\ answer' = Said("find", k, Bucket(t, k) # {}, {t.kv[b].val : b \in Bucket(t, k)})
  /\ UNCHANGED t

\* insert, which replaces, and get_or_insert, which does not
Insert(k, v, replace, oom) ==
  \E r \in {Inserted(t, [key |-> k, val |-> v], replace, oom)} :
    /\ WithinBound(r.table)
    /\ t' = r.table
    /\ answer' = IF ~r.ok THEN Silent
                 ELSE IF replace THEN Said("assign", k, TRUE, {v})
                 ELSE Said("insert", k, Bucket(t, k) # {}, {})

\* erase, and erase_itr of what get returned
Erase(k) ==
  /\ answer' = Said("erase", k, Bucket(t, k) # {}, {})
  /\ \/ \E b \in Bucket(t, k) : t' = Erased(t, b)
     \/ Bucket(t, k) = {} /\ UNCHANGED t

RECURSIVE FitFrom(_, _)
FitFrom(n, size) == IF size * 100 > n * MaxLoad THEN FitFrom(2 * n, size) ELSE n

\* min_bucket_count_for_size
MinBucketsFor(size) == IF size = 0 THEN 0 ELSE FitFrom(MinBuckets, size)

\* reserve
Reserve(size, oom) ==
  LET n == MinBucketsFor(size)
      T == IF n <= t.n \/ oom THEN t ELSE Rehash(t, n)
  IN  /\ WithinBound(T)
      /\ t' = T
      /\ answer' = Silent

\* shrink
Shrink(oom) ==
  LET n == MinBucketsFor(t.count)
      T == IF n = 0 THEN NoTable ELSE IF n = t.n \/ oom THEN t ELSE Rehash(t, n)
  IN  /\ WithinBound(T)
      /\ t' = T
      /\ answer' = Silent

\* clear keeps the buckets, cleanup does not
Clear ==
  /\ t' = IF t.count = 0 THEN t ELSE NewTable(t.n)
  /\ answer' = [op |-> "clear"]

Cleanup ==
  /\ t' = NoTable
  /\ answer' = [op |-> "clear"]

Next ==
  \/ \E k \in Key : Get(k) \/ Erase(k)
  \/ \E k \in Key, replace \in BOOLEAN, oom \in MallocFails : \E v \in Stored[k] :
       Insert(k, v, replace, oom)
  \/ \E size \in Reserved, oom \in MallocFails : Reserve(size, oom)
  \/ \E oom \in MallocFails : Shrink(oom)
  \/ Clear
  \/ Cleanup

Spec == Init /\ [][Next]_vars

(***************************************************************************)
(* What is checked.                                                        *)
(***************************************************************************)
Taken(T) == {b \in DOMAIN T.meta : T.meta[b] # Empty}

\* Every key is in the chain of its home, which starts there, has no bucket
\* twice, and goes by ascending displacement.
ChainsAreSound(T) ==
  /\ T.count = Cardinality(Taken(T))
  /\ \A b \in Taken(T) :
       LET home == HomeOf(T, T.kv[b].key)
           c == Chain(T, home)
       IN  /\ \E i \in DOMAIN c : c[i] = b
           /\ T.meta[b].home <=> home = b
           /\ T.meta[b].frag = Frag[T.kv[b].key]
           /\ \A i, j \in DOMAIN c : i < j => T.meta[c[i]].disp < T.meta[c[j]].disp

TableIsSound == ChainsAreSound(t)

\* an iteration from bucket b on that erases the keys of S on its way, with
\* the keys it has met: erase_itr moves on unless a key came from further on
RECURSIVE Sweep(_, _, _, _)
Sweep(T, b, S, seen) ==
  IF b >= T.n THEN [table |-> T, seen |-> seen]
  ELSE IF T.meta[b] = Empty THEN Sweep(T, b + 1, S, seen)
  ELSE LET k == T.kv[b].key
           c == Chain(T, HomeOf(T, k))
           stays == Len(c) > 1 /\ c[Len(c)] > b
       IN  IF k \notin S THEN Sweep(T, b + 1, S, Append(seen, k))
           ELSE Sweep(Erased(T, b), IF stays THEN b ELSE b + 1, S, Append(seen, k))

\* Erasing while iterating meets every key once and erases what it should.
SweepMeetsEachOnce ==
  \A S \in SUBSET Key :
    LET s == Sweep(t, 0, S, <<>>)
        keys == {t.kv[b].key : b \in Taken(t)}
    IN  /\ {s.seen[i] : i \in DOMAIN s.seen} = keys
        /\ Len(s.seen) = Cardinality(keys)
        /\ {s.table.kv[b].key : b \in Taken(s.table)} = keys \ S

Bindings == {t.kv[b] : b \in UNION {{Chain(t, home)[i] : i \in DOMAIN Chain(t, home)} :
                                      home \in DOMAIN t.meta}}
=============================================================================
