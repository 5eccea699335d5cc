-------------------------------- MODULE CcMap --------------------------------
(***************************************************************************)
(* CC's map (CC/cc.h), verstable "within the constraints of the CC API".   *)
(* How metadata and chains are laid out, and how a new key finds its       *)
(* place, is Verstable's.  The port writes anew what is here: a key moved  *)
(* by a rehash is not looked for, the container of a rehash is another     *)
(* one, and an iterator does not know the home of its key.                 *)
(***************************************************************************)
EXTENDS Verstable

(***************************************************************************)
(* cc_map_reinsert, cc_map_make_rehash, cc_map_insert.                     *)
(***************************************************************************)
ReinsertRaw(T, kv) == IF T.meta[HomeOf(T, kv.key)].home THEN InChain(T, kv) ELSE AtHome(T, kv)

RECURSIVE Refilled(_, _, _), MakeRehash(_, _)
Refilled(T, b, r) ==
  IF b = T.n \/ ~r.ok THEN r.table
  ELSE Refilled(T, b + 1, IF T.meta[b] = Empty THEN r ELSE ReinsertRaw(r.table, T.kv[b]))

\* the copy of T with n buckets, or with more if a key found none in reach
DoubledUntilAllFit(T, new) == IF new.count < T.count THEN MakeRehash(T, 2 * new.n) ELSE new

MakeRehash(T, n) ==
  IF n > MaxBuckets THEN NewTable(n)
  ELSE DoubledUntilAllFit(T, Refilled(T, 0, [ok |-> TRUE, table |-> NewTable(n)]))

RECURSIVE MapInserted(_, _, _, _), InsertLoop(_, _, _, _)
InsertLoop(r, kv, replace, oom) ==
  IF r.ok \/ oom \/ ~WithinBound(r.table) THEN r
  ELSE MapInserted(MakeRehash(r.table, IF r.table.n = 0 THEN MinBuckets ELSE 2 * r.table.n),
                   kv, replace, oom)

MapInserted(T, kv, replace, oom) == InsertLoop(InsertRaw(T, kv, replace), kv, replace, oom)

(***************************************************************************)
(* cc_map_erase_raw, with the home of the key or, from an iterator,        *)
(* without it.  It tells whether an iteration should go on to the next.    *)
(***************************************************************************)
HomeOfBucket(T, b, home) ==
  IF home # Null THEN home ELSE IF T.meta[b].home THEN b ELSE HomeOf(T, T.kv[b].key)

IsLast(T, b) == T.meta[b].disp = Last

WithoutBucket(T, b) == [T EXCEPT !.kv[b] = Null, !.meta[b] = Empty, !.count = @ - 1]

\* the last key of the chain, behind prev, takes the bucket of the erased one
Replaced(T, b, prev, last) ==
  WithoutBucket([T EXCEPT !.kv[b] = T.kv[last],
                          !.meta = [@ EXCEPT ![b].frag = T.meta[last].frag,
                                             ![prev].disp = Last]], last)

ReplacedByLast(T, b, tail) == Replaced(T, b, tail[Len(tail) - 1], tail[Len(tail)])

EraseRaw(T, b, home) ==
  IF T.meta[b].home /\ IsLast(T, b) THEN WithoutBucket(T, b)
  ELSE LET h == HomeOfBucket(T, b, home)
       IN  IF IsLast(T, b) THEN WithoutBucket([T EXCEPT !.meta[Before(T, h, b)].disp = Last], b)
           ELSE ReplacedByLast(T, b, ChainFrom(T, h, b, T.n + 1))

\* not if a key from further on has come to b
GoesOn(T, b) ==
  LET tail == ChainFrom(T, HomeOfBucket(T, b, Null), b, T.n + 1)
  IN  IsLast(T, b) \/ tail[Len(tail)] < b

(***************************************************************************)
(* The calls.                                                              *)
(***************************************************************************)
\* insert, and get_or_insert, which does not replace
InsertPair(k, v, replace, oom) ==
  \E r \in {MapInserted(t, [key |-> k, val |-> v], replace, oom)} :
    /\ WithinBound(r.table)
    /\ t' = r.table
    /\ answer' = IF ~r.ok THEN Silent
                 ELSE IF replace THEN Said("assign", k, TRUE, {v})
                 ELSE Said("insert", k, Bucket(t, k) # {}, {})

\* erase knows the home of the key, erase_itr does not
EraseKey(k) ==
  /\ answer' = Said("erase", k, Bucket(t, k) # {}, {})
  /\ \/ \E b \in Bucket(t, k) : t' = EraseRaw(t, b, HomeOf(t, k))
     \/ Bucket(t, k) = {} /\ UNCHANGED t

EraseItr(k) ==
  \E b \in Bucket(t, k) :
    /\ t' = EraseRaw(t, b, Null)
    /\ answer' = Said("erase", k, TRUE, {})

Rehoused(T) == WithinBound(T) /\ t' = T /\ answer' = Silent

\* reserve
ReservePairs(size, oom) ==
  Rehoused(IF MinBucketsFor(size) <= t.n \/ oom THEN t ELSE MakeRehash(t, MinBucketsFor(size)))

\* shrink
ShrinkToSize(oom) ==
  Rehoused(IF t.count = 0 THEN NoTable
           ELSE IF MinBucketsFor(t.count) = t.n \/ oom THEN t
           ELSE MakeRehash(t, MinBucketsFor(t.count)))

\* init_clone: the client goes on with the clone, where there is one
InitClone == Rehoused(IF t.count = 0 THEN NoTable ELSE t)

CcNext ==
  \/ \E k \in Key : Get(k) \/ EraseKey(k) \/ EraseItr(k)
  \/ \E k \in Key, replace \in BOOLEAN, oom \in MallocFails : \E v \in Stored[k] :
       InsertPair(k, v, replace, oom)
  \/ \E size \in Reserved, oom \in MallocFails : ReservePairs(size, oom)
  \/ \E oom \in MallocFails : ShrinkToSize(oom)
  \/ InitClone
  \/ Clear
  \/ Cleanup

CcSpec == Init /\ [][CcNext]_vars

(***************************************************************************)
(* What is checked.                                                        *)
(***************************************************************************)
\* The port does what verstable does: it erases from a bucket, with the home
\* or without it, and fills a table of another size, with the same result.
PortAgrees ==
  /\ \A b \in Taken(t), known \in BOOLEAN :
       EraseRaw(t, b, IF known THEN HomeOf(t, t.kv[b].key) ELSE Null) = Erased(t, b)
  /\ \A n \in {m \in {MinBuckets, 2 * MinBuckets} : m >= MinBucketsFor(t.count)} :
       MakeRehash(t, n) = Rehash(t, n)

\* an iteration that erases the keys of S on its way
RECURSIVE EraseSweep(_, _, _, _)
EraseSweep(T, b, S, seen) ==
  IF b >= T.n THEN seen
  ELSE IF T.meta[b] = Empty THEN EraseSweep(T, b + 1, S, seen)
  ELSE IF T.kv[b].key \notin S THEN EraseSweep(T, b + 1, S, Append(seen, T.kv[b].key))
  ELSE EraseSweep(EraseRaw(T, b, Null), IF GoesOn(T, b) THEN b + 1 ELSE b, S,
                  Append(seen, T.kv[b].key))

\* Erasing while iterating meets every key once.
EraseSweepMeetsEachOnce ==
  \A S \in SUBSET Key :
    LET seen == EraseSweep(t, 0, S, <<>>)
    IN  /\ {seen[i] : i \in DOMAIN seen} = {t.kv[b].key : b \in Taken(t)}
        /\ Len(seen) = t.count
=============================================================================
