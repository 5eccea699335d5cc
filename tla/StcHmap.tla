------------------------------ MODULE StcHmap -------------------------------
(***************************************************************************)
(* The hmap of STC (STC/hmap.h): Robin Hood hashing that goes round.  The  *)
(* metadatum of a bucket has six bits of the hash and, in ten bits, the    *)
(* distance from home counted from one; behind the last bucket there is an *)
(* end mark for iterators.  A call is one step.  malloc may fail.          *)
(***************************************************************************)
EXTENDS Integers, Sequences, FiniteSets

CONSTANTS
  Key, Null,
  Stored,         \* the values clients give each key
  Hash, Hashx,    \* i_hash, and six of its bits (hash >> 24) & _hashmask
  DistMask,       \* _distmask (0x3ff)
  Requested,      \* what a client passes to reserve
  MaxBuckets      \* bound: no table with more buckets

VARIABLES
  t,              \* the table
  answer          \* what the last call said

vars == <<t, answer>>

Said(op, k, found, vals) == [op |-> op, key |-> k, found |-> found, vals |-> vals]
Silent == [op |-> "none"]

Empty == [hashx |-> 0, dist |-> 0]

NewTable(n) == [n |-> n, size |-> 0, kv |-> [b \in 0..(n-1) |-> Null],
                meta |-> [b \in 0..(n-1) |-> Empty]]

\* the bit field dist
Dist(d) == d % (DistMask + 1)

\* i_max_load_factor is four fifths
Capacity(T) == (T.n * 4) \div 5

(***************************************************************************)
(* _bucket_lookup_: the step at which the probe for a key ends, at the key *)
(* or at a bucket whose key is nearer to its home.                         *)
(***************************************************************************)
At(T, k, r) == (Hash[k] + r) % T.n

Matches(T, k, r) ==
  LET b == At(T, k, r)
  IN  T.meta[b].dist > r /\ T.meta[b].hashx = Hashx[k] /\ T.kv[b].key = k

LastStep(T, k) ==
  LET ends == {r \in 0..T.n : T.meta[At(T, k, r)].dist <= r \/ Matches(T, k, r)}
  IN  CHOOSE r \in ends : \A s \in ends : r <= s

\* the bucket of a key, as a set
Found(T, k) ==
  IF T.size > 0 /\ Matches(T, k, LastStep(T, k)) THEN {At(T, k, LastStep(T, k))} ELSE {}

(***************************************************************************)
(* _bucket_insert_: the key takes the bucket at which its probe ended, and *)
(* what was there goes on, one further from home at every bucket, until it *)
(* meets an empty one; it changes places with those nearer to their home.  *)
(***************************************************************************)
RECURSIVE Carry(_, _, _, _)
Carry(T, b, meta, kv) ==
  LET here == T.meta[b]
      m == [meta EXCEPT !.dist = Dist(@ + 1)]
      swapped == [T EXCEPT !.meta[b] = m, !.kv[b] = kv]
      next == (b + 1) % T.n
  IN  IF here.dist = 0 THEN swapped
      ELSE IF here.dist < m.dist THEN Carry(swapped, next, here, T.kv[b])
      ELSE Carry(T, next, m, kv)

BucketInsert(T, kv) ==
  LET r == LastStep(T, kv.key)
      b == At(T, kv.key, r)
      U == [T EXCEPT !.meta[b] = [hashx |-> Hashx[kv.key], dist |-> Dist(r + 1)], !.kv[b] = kv]
  IN  IF T.meta[b].dist = 0 THEN U ELSE Carry(U, (b + 1) % T.n, T.meta[b], T.kv[b])

(***************************************************************************)
(* _reserve: also to fewer buckets, if the elements have room there.       *)
(***************************************************************************)
RECURSIVE NextPow2(_, _), MoveAll(_, _, _)
NextPow2(n, least) == IF n >= least THEN n ELSE NextPow2(2 * n, least)

MoveAll(old, b, T) ==
  IF b = old.n THEN T
  ELSE MoveAll(old, b + 1, IF old.meta[b].dist = 0 THEN T ELSE BucketInsert(T, old.kv[b]))

BucketsFor(cap) == NextPow2(1, (cap * 5) \div 4 + 4)

KeepsItsBuckets(T, cap) == cap < T.size \/ BucketsFor(cap) = T.n

Reserved(T, cap) ==
  IF KeepsItsBuckets(T, cap) \/ BucketsFor(cap) > MaxBuckets THEN T
  ELSE MoveAll(T, 0, [NewTable(BucketsFor(cap)) EXCEPT !.size = T.size])

\* _insert_entry_: room first, even if the key is there
Wanted(T) == (T.size * 3) \div 2 + 2
Grows(T) == T.size >= Capacity(T)
Grown(T) == IF Grows(T) THEN Reserved(T, Wanted(T)) ELSE T

(***************************************************************************)
(* _erase_entry: the buckets behind move back by one, up to an empty one   *)
(* or one that is at home.  The bits of the hash that stay in the last one *)
(* are not read while it is empty.                                         *)
(***************************************************************************)
RECURSIVE Erased_KeepDist(_, _), Erased(_, _)
Erased_KeepDist(T, b) ==
  LET next == (b + 1) % T.n
  IN  IF T.meta[next].dist < 2
        THEN [T EXCEPT !.meta[b] = Empty, !.kv[b] = Null, !.size = @ - 1]
      ELSE Erased_KeepDist([T EXCEPT !.kv[b] = T.kv[next], !.meta[b] = T.meta[next]], next)

Erased(T, b) ==
  LET next == (b + 1) % T.n
  IN  IF T.meta[next].dist < 2
        THEN [T EXCEPT !.meta[b] = Empty, !.kv[b] = Null, !.size = @ - 1]
      ELSE Erased([T EXCEPT !.kv[b] = T.kv[next],
                            !.meta[b] = [T.meta[next] EXCEPT !.dist = @ - 1]], next)

(***************************************************************************)
(* The calls.                                                              *)
(***************************************************************************)
Init == t = NewTable(0) /\ answer = Silent

\* get, find, contains
Get(k) ==
  /\ answer' = Said("find", k, Found(t, k) # {}, {t.kv[b].val : b \in Found(t, k)})
  /\ UNCHANGED t

\* a table that must grow finds no memory
NoMemory(k) == Grows(t) /\ UNCHANGED t /\ answer' = Silent

\* insert and emplace, which leave the value of a key that is there, and
\* insert_or_assign and emplace_or_assign, which do not
Insert(k, v, assign) ==
  LET T == Grown(t)
      found == Found(T, k)
  IN  /\ Grows(t) => BucketsFor(Wanted(t)) <= MaxBuckets
      /\ t' = IF found = {} THEN [BucketInsert(T, [key |-> k, val |-> v]) EXCEPT !.size = @ + 1]
              ELSE IF assign THEN [T EXCEPT !.kv[CHOOSE b \in found : TRUE].val = v]
              ELSE T
      /\ answer' = IF assign THEN Said("assign", k, TRUE, {v})
                   ELSE Said("insert", k, found # {}, {})

\* erase, and erase_entry of what insert returned
Erase(k) ==
  /\ answer' = Said("erase", k, Found(t, k) # {}, {})
  /\ \/ \E b \in Found(t, k) : t' = Erased(t, b)
     \/ Found(t, k) = {} /\ UNCHANGED t

\* clear keeps the buckets, drop does not
Clear ==
  /\ \E n \in {0, t.n} : t' = NewTable(n)
  /\ answer' = [op |-> "clear"]

\* reserve, and shrink_to_fit
Reserve(cap) ==
  /\ BucketsFor(cap) <= MaxBuckets
  /\ t' = Reserved(t, cap)
  /\ answer' = Silent

Next ==
  \/ \E k \in Key : Get(k) \/ NoMemory(k) \/ Erase(k)
  \/ \E k \in Key, assign \in BOOLEAN : \E v \in Stored[k] : Insert(k, v, assign)
  \/ \E cap \in Requested \cup {t.size} : Reserve(cap)
  \/ Clear

Spec == Init /\ [][Next]_vars

(***************************************************************************)
(* What is checked.                                                        *)
(***************************************************************************)
Taken(T) == {b \in DOMAIN T.meta : T.meta[b].dist > 0}
Keys(T) == {T.kv[b].key : b \in Taken(T)}

\* Every element is where the probe for its key ends; its bucket says how far
\* from home that is and what its hash is; one bucket in five stays empty.
BucketsAreReached(T) ==
  /\ T.size = Cardinality(Taken(T))
  /\ T.n > 0 => T.size <= Capacity(T)
  /\ \A b \in Taken(T) :
       LET k == T.kv[b].key
       IN  /\ Found(T, k) = {b}
           /\ T.meta[b] = [hashx |-> Hashx[k], dist |-> 1 + ((b - Hash[k]) % T.n)]

\* an iteration from bucket b on that erases the keys of S on its way with
\* erase_at, which goes to the next bucket only if this one became empty
RECURSIVE Sweep(_, _, _, _)
Sweep(T, b, S, seen) ==
  IF b >= T.n THEN [table |-> T, seen |-> seen]
  ELSE IF T.meta[b].dist = 0 THEN Sweep(T, b + 1, S, seen)
  ELSE LET k == T.kv[b].key
       IN  IF k \in S THEN Sweep(Erased(T, b), b, S, seen \cup {k})
           ELSE Sweep(T, b + 1, S, seen \cup {k})

\* An iteration that erases on its way misses no element; when a probe went
\* round the end it meets some element twice, but never passes one by.
SweepMissesNone(T) ==
  \A S \in SUBSET Keys(T) :
    LET s == Sweep(T, 0, S, {})
    IN  s.seen = Keys(T) /\ Keys(s.table) = Keys(T) \ S

TableIsSound == BucketsAreReached(t) /\ SweepMissesNone(t)

Bindings == {t.kv[b] : b \in Taken(t)}
=============================================================================
