--------------------------- MODULE UnorderedDense ---------------------------
(***************************************************************************)
(* ankerl::unordered_dense::map (unordered_dense/unordered_dense.h): the   *)
(* elements lie without holes in a vector, in no order; buckets index it.  *)
(* A bucket has the place of its element and, in one number, the distance  *)
(* from home, counted from one, above a fingerprint of the hash.  Buckets  *)
(* are ordered as in Robin Hood hashing, and go round.  Home is given by   *)
(* the highest bits of the hash.  A call is one step.                      *)
(***************************************************************************)
EXTENDS Integers, Sequences, FiniteSets

CONSTANTS
  Key,
  Stored,         \* the values clients give each key
  Hash,           \* mixed_hash
  HashBits,       \* the bits of a hash (64)
  Prints,         \* the number of fingerprints, Bucket::dist_inc (2^8)
  InitialShifts,  \* initial_shifts (62)
  MaxBuckets,     \* max_bucket_count(), and the number of indices (2^32)
  MaxLoad,        \* default_max_load_factor in percent (80)
  Reserved,       \* what a client passes to reserve and rehash
  Containers      \* what a client passes to replace: sequences of bindings

VARIABLES
  t,              \* the table
  answer          \* what the last call said

vars == <<t, answer>>

Said(op, k, found, vals) == [op |-> op, key |-> k, found |-> found, vals |-> vals]
Silent == [op |-> "none"]

NoBucket == [df |-> 0, idx |-> 0]

(***************************************************************************)
(* The number of buckets has a limit that m_shifts has not; at the limit   *)
(* every bucket may be used.  extracted says that the vector was moved out *)
(* from under the buckets.                                                 *)
(***************************************************************************)
AtMost(a, b) == IF a <= b THEN a ELSE b
NumBuckets(shifts) == AtMost(MaxBuckets, 2 ^ (HashBits - shifts))
LoadOf(n) == (n * MaxLoad) \div 100

\* allocate_buckets_from_shift, clear_buckets
Cleared(shifts, values) ==
  LET n == NumBuckets(shifts)
  IN  [shifts |-> shifts, n |-> n, cap |-> IF n = MaxBuckets THEN n ELSE LoadOf(n),
       buckets |-> [b \in 0..(n-1) |-> NoBucket], values |-> values, extracted |-> FALSE]

\* calc_shifts_for_size
ShiftsFor(size) ==
  LET enough == {s \in 1..InitialShifts : LoadOf(NumBuckets(s)) >= size}
  IN  IF enough = {} THEN 0 ELSE CHOOSE s \in enough : \A r \in enough : r <= s

(***************************************************************************)
(* Probing: the r-th bucket from home, and what it would say of the key.   *)
(***************************************************************************)
Home(T, k) == (Hash[k] \div (2 ^ T.shifts)) % MaxBuckets
At(T, k, r) == (Home(T, k) + r) % T.n
DistAndPrint(k, r) == Prints * (r + 1) + (Hash[k] % Prints)
DfAt(T, k, r) == T.buckets[At(T, k, r)].df
KeyAt(T, b) == T.values[T.buckets[b].idx + 1].key

Steps(T) == 0..T.n
Earliest(S) == CHOOSE r \in S : \A s \in S : r <= s

Matches(T, k, r) == DfAt(T, k, r) = DistAndPrint(k, r) /\ KeyAt(T, At(T, k, r)) = k

\* do_find, do_try_emplace, emplace, replace: the search goes on while the
\* bucket's element is as far from home
Found(T, k) ==
  {At(T, k, r) : r \in {q \in Steps(T) :
     /\ Matches(T, k, q)
     /\ \A s \in 0..(q-1) : DistAndPrint(k, s) <= DfAt(T, k, s)}}

\* next_while_less
NextWhileLess(T, k) == Earliest({r \in Steps(T) : DistAndPrint(k, r) >= DfAt(T, k, r)})

FoundToErase_PrintOnly(T, k) ==
  {At(T, k, r) : r \in {q \in Steps(T) :
     q >= NextWhileLess(T, k) /\ DfAt(T, k, q) = DistAndPrint(k, q)}}

\* do_erase_key: from there on only while the numbers are equal
FoundToErase(T, k) ==
  {At(T, k, r) : r \in {q \in Steps(T) :
     /\ q >= NextWhileLess(T, k)
     /\ Matches(T, k, q)
     /\ \A s \in NextWhileLess(T, k)..(q-1) : DistAndPrint(k, s) = DfAt(T, k, s)}}

\* erase of an iterator: the bucket that has the place
BucketOf(T, k, idx) ==
  At(T, k, Earliest({r \in Steps(T) : T.buckets[At(T, k, r)].idx = idx}))

(***************************************************************************)
(* Moving buckets.                                                         *)
(***************************************************************************)
\* place_and_shift_up: the buckets up to the next empty one move by one
Place(T, k, r, idx) ==
  LET at(q) == At(T, k, q)
      e == Earliest({q \in Steps(T) : q >= r /\ DfAt(T, k, q) = 0})
      moved(b) == [b EXCEPT !.df = @ + Prints]
  IN  [T EXCEPT !.buckets =
         [b \in DOMAIN @ |->
            IF b = at(r) THEN [df |-> DistAndPrint(k, r), idx |-> idx]
            ELSE IF \E q \in (r+1)..e : b = at(q) THEN moved(@[(b - 1) % T.n])
            ELSE @[b]]]

\* clear_and_fill_buckets_from_values, from the i-th value on
RECURSIVE Filled(_, _)
Filled(T, i) ==
  IF i > Len(T.values) THEN T
  ELSE LET k == T.values[i].key
       IN  Filled(Place(T, k, NextWhileLess(T, k), i - 1), i + 1)

Rebuilt(T, shifts) == Filled(Cleared(shifts, T.values), 1)

\* where a new element belongs: the first bucket that is nearer to its home
SpotFor(T, k) == Earliest({r \in Steps(T) : DistAndPrint(k, r) > DfAt(T, k, r)})

\* do_place_element: at the limit the element is taken back, and the call throws
Placed(T, kv) ==
  LET U == [T EXCEPT !.values = Append(@, kv)]
  IN  IF Len(U.values) > T.cap
        THEN IF T.cap = MaxBuckets THEN T ELSE Rebuilt(U, T.shifts - 1)
      ELSE Place(U, kv.key, SpotFor(T, kv.key), Len(T.values))

\* do_erase: buckets move back until one is at home; then the last element
\* takes the place of the erased one and its bucket is told
ShiftDown(T, b) ==
  LET at(q) == (b + q) % T.n
      e == Earliest({q \in Steps(T) : T.buckets[at(q + 1)].df < 2 * Prints})
      back(c) == [T.buckets[(c + 1) % T.n] EXCEPT !.df = @ - Prints]
  IN  [T EXCEPT !.buckets =
         [c \in DOMAIN @ |-> IF c = at(e) THEN NoBucket
                             ELSE IF \E q \in 0..(e-1) : c = at(q) THEN back(c) ELSE @[c]]]

Erased_BucketNotTold(T, b) ==
  LET idx == T.buckets[b].idx
      last == Len(T.values) - 1
      U == ShiftDown(T, b)
  IN  [U EXCEPT !.values = SubSeq([@ EXCEPT ![idx + 1] = T.values[last + 1]], 1, last)]

Erased(T, b) ==
  LET idx == T.buckets[b].idx
      last == Len(T.values) - 1
      U == ShiftDown(T, b)
      V == [U EXCEPT !.values[idx + 1] = T.values[last + 1],
                     !.buckets[BucketOf(U, T.values[last + 1].key, last)].idx = idx]
      W == IF idx = last THEN U ELSE V
  IN  [W EXCEPT !.values = SubSeq(@, 1, last)]

ErasedAt(T, idx) == Erased(T, BucketOf(T, T.values[idx + 1].key, idx))

(***************************************************************************)
(* erase of a range: from left to right while elements behind the range    *)
(* come to fill the holes, then from the right.                            *)
(***************************************************************************)
RECURSIVE ErasedUp(_, _, _), ErasedDown(_, _, _)
ErasedUp(T, i, end) == IF i = end THEN T ELSE ErasedUp(ErasedAt(T, i), i + 1, end)
ErasedDown(T, i, end) == IF i = end THEN T ELSE ErasedDown(ErasedAt(T, i - 1), i - 1, end)

ErasedRange(T, first, last) ==
  LET mid == first + AtMost(last - first, Len(T.values) - last)
  IN  ErasedDown(ErasedUp(T, first, mid), last, mid)

(***************************************************************************)
(* replace: a container is taken as the vector; an element whose key there *)
(* is already makes place for the last one.                                *)
(***************************************************************************)
RECURSIVE Unique(_, _)
Unique(T, i) ==
  LET k == T.values[i].key
      last == Len(T.values)
      swapped == [T.values EXCEPT ![i] = T.values[last]]
  IN  IF i > last THEN T
      ELSE IF Found(T, k) # {} THEN Unique([T EXCEPT !.values = SubSeq(swapped, 1, last - 1)], i)
      ELSE Unique(Place(T, k, SpotFor(T, k), i - 1), i + 1)

Replaced(T, c) ==
  Unique(Cleared(AtMost(ShiftsFor(Len(c)), T.shifts), c), 1)

(***************************************************************************)
(* The calls.  After extract the client gives a vector back with replace.  *)
(***************************************************************************)
Init == t = Cleared(InitialShifts, <<>>) /\ answer = Silent

Usable == ~t.extracted

\* find, which asks first whether there is any element
Find(k) ==
  LET found == IF t.values = <<>> THEN {} ELSE Found(t, k)
  IN  /\ answer' = Said("find", k, found # {}, {t.values[t.buckets[b].idx + 1].val : b \in found})
      /\ UNCHANGED t

\* try_emplace, operator[], emplace, and insert_or_assign
Emplace(k, v, assign) ==
  LET found == Found(t, k)
      T == IF found = {} THEN Placed(t, [key |-> k, val |-> v])
           ELSE IF assign THEN [t EXCEPT !.values[t.buckets[CHOOSE b \in found : TRUE].idx + 1].val = v]
           ELSE t
      threw == found = {} /\ T = t
  IN  /\ Usable
      /\ t' = T
      /\ answer' = IF threw THEN Silent
                   ELSE IF assign THEN Said("assign", k, TRUE, {v})
                   ELSE Said("insert", k, found # {}, {})

\* erase of a key
Erase(k) ==
  LET found == IF t.values = <<>> THEN {} ELSE FoundToErase(t, k)
  IN  /\ answer' = Said("erase", k, found # {}, {})
      /\ \/ \E b \in found : t' = Erased(t, b)
         \/ found = {} /\ UNCHANGED t

\* erase and extract of an iterator
EraseIterator(i) ==
  /\ t' = ErasedAt(t, i - 1)
  /\ answer' = Said("erase", t.values[i].key, TRUE, {})

\* clear
Clear ==
  /\ Usable
  /\ t' = Cleared(t.shifts, <<>>)
  /\ answer' = [op |-> "clear"]

\* extract: the buckets stay as they are
Extract ==
  /\ Usable
  /\ t' = [t EXCEPT !.values = <<>>, !.extracted = TRUE]
  /\ answer' = [op |-> "clear"]

\* replace
Replace(c) ==
  /\ t' = Replaced(t, c)
  /\ answer' = [op |-> "replace", with |-> {c[i] : i \in DOMAIN c}]

\* reserve and rehash, which differ in whether a table may become smaller
Reserve(size, shrinks) ==
  LET s == ShiftsFor(IF size > Len(t.values) THEN size ELSE Len(t.values))
  IN  /\ Usable
      /\ t' = IF s < t.shifts \/ (shrinks /\ s # t.shifts) THEN Rebuilt(t, s) ELSE t
      /\ answer' = Silent

Next ==
  \/ \E k \in Key : Find(k) \/ Erase(k)
  \/ \E k \in Key, assign \in BOOLEAN : \E v \in Stored[k] : Emplace(k, v, assign)
  \/ \E i \in DOMAIN t.values : EraseIterator(i)
  \/ \E size \in Reserved, shrinks \in BOOLEAN : Reserve(size, shrinks)
  \/ \E c \in Containers : Replace(c)
  \/ Extract
  \/ Clear

Spec == Init /\ [][Next]_vars

(***************************************************************************)
(* What is checked.                                                        *)
(***************************************************************************)
Taken(T) == {b \in DOMAIN T.buckets : T.buckets[b].df # 0}

\* Every element has one bucket, which gives its distance from home and its
\* fingerprint.
BucketsIndexValues(T) ==
  /\ {T.buckets[b].idx : b \in Taken(T)} = 0..(Len(T.values) - 1)
  /\ Cardinality(Taken(T)) = Len(T.values)
  /\ Len(T.values) <= T.cap
  /\ \A b \in Taken(T) :
       T.buckets[b].df = DistAndPrint(KeyAt(T, b), (b - Home(T, KeyAt(T, b))) % T.n)

\* No bucket is more than one unit above the one before it, unless its
\* element is at home: the searches for find and for erase both rely on it.
DistancesClimbByOne(T) ==
  \A b \in Taken(T) :
    T.buckets[b].df >= 2 * Prints => T.buckets[b].df <= T.buckets[(b - 1) % T.n].df + Prints

\* Erasing a range of the vector erases the elements that were in it.
RangesAreErased(T) ==
  \A last \in 0..Len(T.values) : \A first \in 0..last :
    LET U == ErasedRange(T, first, last)
    IN  /\ {U.values[i] : i \in DOMAIN U.values} =
             {T.values[i] : i \in DOMAIN T.values \ ((first+1)..last)}
        /\ Len(U.values) = Len(T.values) - (last - first)

TableIsSound ==
  Usable => BucketsIndexValues(t) /\ DistancesClimbByOne(t) /\ RangesAreErased(t)

Bindings == {t.values[i] : i \in DOMAIN t.values}
=============================================================================
