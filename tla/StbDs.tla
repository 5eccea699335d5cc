------------------------------- MODULE StbDs --------------------------------
(***************************************************************************)
(* The hash map of stb_ds (stb_ds/stb_ds.h): the elements lie side by side *)
(* in an array, and an index of hashes points into it.  The index is       *)
(* probed bucket by bucket, quadratically; within a bucket from the hash's *)
(* own offset round to it.  Deletion swaps with the last element, leaves a *)
(* tombstone, and shrinks or rebuilds the index.  A call is one step.      *)
(***************************************************************************)
EXTENDS Integers, Sequences, FiniteSets

CONSTANTS
  Key,
  Stored,        \* the values clients give each key
  Hash,          \* stbds_hash_bytes with the index's seed
  BucketLength,  \* STBDS_BUCKET_LENGTH: eight, or four with small buckets
  MaxSlots       \* bound: no index larger than this

VARIABLES
  t,             \* the array and its index
  answer         \* what the last call said

vars == <<t, answer>>

Said(op, k, found, vals) == [op |-> op, key |-> k, found |-> found, vals |-> vals]
Silent == [op |-> "none"]

\* STBDS_HASH_EMPTY, STBDS_HASH_DELETED, STBDS_INDEX_EMPTY, STBDS_INDEX_DELETED
EmptySlot == [hash |-> 0, index |-> -1]
DeletedSlot == [hash |-> 1, index |-> -2]

\* the two hashes that mark free slots are not stored
StoredHash(k) == IF Hash[k] < 2 THEN Hash[k] + 2 ELSE Hash[k]

SlotCount(T) == Cardinality(DOMAIN T.slots)

\* no index yet
NoIndex == [slots |-> <<>>, arr |-> <<>>, used |-> 0, tombs |-> 0]

\* the element an index in use points at
At(T, index) == T.arr[index + 1]
InUse(slot) == slot.index >= 0

(***************************************************************************)
(* The thresholds.                                                         *)
(***************************************************************************)
UsedThreshold_Full(n) == n
UsedThreshold(n) == n - n \div 4
TombstoneThreshold(n) == n \div 8 + n \div 16
ShrinkThreshold(n) == IF n <= BucketLength THEN 0 ELSE n \div 4

(***************************************************************************)
(* Probing.                                                                *)
(***************************************************************************)
\* the r-th slot a probe looks at: the steps between buckets grow by one
\* bucket each time
Slot(hash, r, n) ==
  LET round == r \div BucketLength
      pos == (hash + BucketLength * ((round * (round + 1)) \div 2)) % n
  IN  (pos - (pos % BucketLength)) + ((pos + r) % BucketLength)

\* the first of some slots on the way of a hash through n, as a set
FirstSlot(hash, n, stops) ==
  LET ends == {r \in 0..(n-1) : Slot(hash, r, n) \in stops}
  IN  {Slot(hash, r, n) : r \in {q \in ends : \A s \in ends : q <= s}}

IsEmpty(slot) == slot.hash = 0
Matches(T, slot, k) == slot.hash = StoredHash(k) /\ At(T, slot.index).key = k

\* stbds_hm_find_slot: at the key, or at the first empty slot
FindSlot(T, k) ==
  FirstSlot(StoredHash(k), SlotCount(T),
            {s \in DOMAIN T.slots : IsEmpty(T.slots[s]) \/ Matches(T, T.slots[s], k)})

\* the slot a new key takes: the first tombstone before the empty slot, or it
FreeSlot(T, k) ==
  FirstSlot(StoredHash(k), SlotCount(T), {s \in DOMAIN T.slots : ~InUse(T.slots[s])})

(***************************************************************************)
(* stbds_make_hash_index: the slots in use move to an index of n slots.    *)
(***************************************************************************)
RECURSIVE CopySlots(_, _, _)
CopySlots(old, i, new) ==
  IF i \notin DOMAIN old THEN new
  ELSE CopySlots(old, i + 1,
         IF ~InUse(old[i]) THEN new
         ELSE LET free == {j \in DOMAIN new : IsEmpty(new[j])}
                  to == FirstSlot(old[i].hash, Cardinality(DOMAIN new), free)
              IN  [j \in DOMAIN new |-> IF j \in to THEN old[i] ELSE new[j]])

MakeIndex(T, n) ==
  [T EXCEPT !.slots = CopySlots(@, 0, [i \in 0..(n-1) |-> EmptySlot]), !.tombs = 0]

(***************************************************************************)
(* The calls.                                                              *)
(***************************************************************************)
Init == t = NoIndex /\ answer = Silent

\* where hmgeti finds the key
Place(T, k) == IF T.slots = <<>> THEN {} ELSE {s \in FindSlot(T, k) : InUse(T.slots[s])}

\* hmgeti, hmgetp_null
Get(k) ==
  LET found == Place(t, k)
  IN  /\ answer' = Said("find", k, found # {}, {At(t, t.slots[s].index).val : s \in found})
      /\ UNCHANGED t

\* the index grows before the key is looked for
Grown(T) ==
  IF T.slots = <<>> THEN MakeIndex(T, BucketLength)
  ELSE IF T.used >= UsedThreshold(SlotCount(T)) THEN MakeIndex(T, 2 * SlotCount(T))
  ELSE T

Appended(T, k, v, s) ==
  [T EXCEPT !.arr = Append(@, [key |-> k, val |-> v]),
            !.slots[s] = [hash |-> StoredHash(k), index |-> Len(T.arr)],
            !.used = @ + 1,
            !.tombs = IF IsEmpty(T.slots[s]) THEN @ ELSE @ - 1]

\* hmput: stbds_hmput_key and the assignment of its macro
Put(k, v) ==
  LET T == Grown(t)
  IN  /\ SlotCount(T) <= MaxSlots
      /\ \/ \E s \in Place(T, k) : t' = [T EXCEPT !.arr[T.slots[s].index + 1].val = v]
         \/ Place(T, k) = {} /\ \E s \in FreeSlot(T, k) : t' = Appended(T, k, v, s)
      /\ answer' = Said("assign", k, TRUE, {v})

\* what fills the gap at index i; in the mutant its key only
Filler_KeyOnly(arr, i) == [arr[Len(arr)] EXCEPT !.val = arr[i + 1].val]
Filler(arr, i) == arr[Len(arr)]

\* the last element fills the gap, and its slot is told
SwapDelete(T, s) ==
  LET old == T.slots[s].index
      final == Len(T.arr) - 1
      U == [T EXCEPT !.slots[s] = DeletedSlot, !.used = @ - 1, !.tombs = @ + 1,
                     !.arr = [@ EXCEPT ![old + 1] = Filler(T.arr, old)]]
      moved == IF old = final THEN {} ELSE FindSlot(U, T.arr[final + 1].key)
  IN  [U EXCEPT !.arr = SubSeq(@, 1, final),
                !.slots = [i \in DOMAIN @ |-> IF i \in moved
                                                THEN [@[i] EXCEPT !.index = old] ELSE @[i]]]

\* a nearly empty index is halved, one with too many tombstones rebuilt
Rebuilt(T) ==
  LET n == SlotCount(T)
  IN  IF T.used < ShrinkThreshold(n) /\ n > BucketLength THEN MakeIndex(T, n \div 2)
      ELSE IF T.tombs > TombstoneThreshold(n) THEN MakeIndex(T, n)
      ELSE T

\* hmdel
Del(k) ==
  /\ answer' = Said("erase", k, Place(t, k) # {}, {})
  /\ \/ \E s \in Place(t, k) : t' = Rebuilt(SwapDelete(t, s))
     \/ Place(t, k) = {} /\ UNCHANGED t

\* hmfree
Free ==
  /\ t # NoIndex
  /\ t' = NoIndex
  /\ answer' = [op |-> "clear"]

Next ==
  \/ \E k \in Key : Get(k) \/ Del(k)
  \/ \E k \in Key : \E v \in Stored[k] : Put(k, v)
  \/ Free

Spec == Init /\ [][Next]_vars

(***************************************************************************)
(* What is checked.                                                        *)
(***************************************************************************)
UsedSlots(T) == {i \in DOMAIN T.slots : InUse(T.slots[i])}

\* A probe for a key ends, because the counts are those of the slots and leave
\* one empty (the assertion at stb_ds.h:935), also for a key that is absent.
ProbesEnd(T) ==
  /\ T.used = Cardinality(UsedSlots(T))
  /\ T.tombs = Cardinality({i \in DOMAIN T.slots : T.slots[i] = DeletedSlot})
  /\ T.slots # <<>> => T.used + T.tombs < SlotCount(T)

\* Every element has exactly one slot, which is where the probe for its key
\* ends, whatever was swapped.
SlotsPointToElements(T) ==
  /\ T.used = Len(T.arr)
  /\ \A i \in DOMAIN T.arr :
       \E s \in DOMAIN T.slots : /\ FindSlot(T, T.arr[i].key) = {s}
                                 /\ T.slots[s].index = i - 1

IndexIsSound == ProbesEnd(t) /\ SlotsPointToElements(t)

Bindings == {t.arr[i] : i \in DOMAIN t.arr}
=============================================================================
