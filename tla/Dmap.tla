-------------------------------- MODULE Dmap --------------------------------
(***************************************************************************)
(* dmap (dmap/dmap.c, dmap.h): a table of hashes and indices, open         *)
(* addressing with tombstones, and an array of values that the indices     *)
(* point into.  The freed indices are a stack.                             *)
(*                                                                         *)
(* A call is one step.  A probe that meets neither its key nor an empty    *)
(* slot goes round for ever: the call then ends with run = "probing".      *)
(***************************************************************************)
EXTENDS Integers, Sequences, FiniteSets

CONSTANTS
  Key, Null,
  Stored,           \* the values clients give each key
  Hash,             \* rapidhash with the map's seed
  InitialCapacity,  \* DMAP_INITIAL_CAPACITY, a power of two
  InitialFree,      \* the capacity recorded for a new free list (16)
  MaxCapacity,      \* bound: no growth beyond
  MaxDeleted        \* bound: no more deleted slots in a table

VARIABLES
  t,                \* the header and what it points to
  answer            \* what the last call said

vars == <<t, answer>>

Said(op, k, found, vals) == [op |-> op, key |-> k, found |-> found, vals |-> vals]
Silent == [op |-> "none"]

\* data_idx of a slot that was never used, and of one that was deleted
Empty == -1
Deleted == -2
Unused == [idx |-> Empty, hash |-> 0, key |-> Null]

NewTable(n) == [i \in 0..(n-1) |-> Unused]

\* the null pointer
NoMap == [table |-> <<>>, data |-> <<>>, len |-> 0, cap |-> 0, free |-> <<>>,
          free_cap |-> 0, free_alloc |-> 0, key_size |-> 0, run |-> "ready"]

HashCap(d) == Cardinality(DOMAIN d.table)

\* dmap__init_internal: LOAD_FACTOR is one half
NewMap == [NoMap EXCEPT !.table = NewTable(2 * InitialCapacity), !.cap = InitialCapacity,
                        !.data = [i \in 0..(InitialCapacity-1) |-> Null]]

(***************************************************************************)
(* Probing.                                                                *)
(***************************************************************************)
\* the r-th slot that a probe for a hash looks at
Slot(hash, r, n) == (hash + r) % n

\* the first of some slots on a probe's way through n, or Null
FirstSlot(hash, n, stops) ==
  LET ends == {r \in 0..(n-1) : Slot(hash, r, n) \in stops}
  IN  IF ends = {} THEN Null
      ELSE Slot(hash, CHOOSE r \in ends : \A s \in ends : r <= s, n)

IsEmpty(entry) == entry.idx = Empty
IsLive(entry) == entry.idx >= 0

\* where dmap__get_entry_index and dmap__insert_entry stop: at an empty slot
\* or at the key, never at a deleted slot
Probe(d, k) ==
  LET Stops(entry) == IsEmpty(entry) \/ (IsLive(entry) /\ entry.key = k)
  IN  FirstSlot(Hash[k], HashCap(d), {i \in DOMAIN d.table : Stops(d.table[i])})

(***************************************************************************)
(* Growing.                                                                *)
(***************************************************************************)
RECURSIVE Rehash(_, _, _)

\* dmap_grow_table: whatever is not empty is placed again, tombstones too
Rehash(old, i, new) ==
  IF i \notin DOMAIN old THEN new
  ELSE Rehash(old, i + 1,
              IF IsEmpty(old[i]) THEN new
              ELSE LET free == {j \in DOMAIN new : IsEmpty(new[j])}
                       to == FirstSlot(old[i].hash, Cardinality(DOMAIN new), free)
                   IN  [new EXCEPT ![to] = old[i]])

Grow(d) ==
  LET n == 2 * HashCap(d)
  IN  [d EXCEPT !.table = IF d.len = 0 THEN NewTable(n) ELSE Rehash(d.table, 0, NewTable(n)),
                !.cap = n \div 2,
                !.data = [i \in 0..(n \div 2 - 1) |-> IF i \in DOMAIN @ THEN @[i] ELSE Null]]

\* dmap__fit
Fit(d, n) == IF n <= d.cap THEN d ELSE IF d.cap = 0 THEN NewMap ELSE Grow(d)

(***************************************************************************)
(* The free list.                                                          *)
(***************************************************************************)
\* dmap_freelist_push: its array starts with the table's capacity, and grows
\* by a half when the recorded capacity is reached
Push(d, idx) ==
  LET new == d.free_alloc = 0
      cap == IF new THEN InitialFree ELSE d.free_cap
      grows == Len(d.free) = cap
      grown == (cap * 3) \div 2 + 1
  IN  [d EXCEPT !.free = Append(@, idx),
                !.free_cap = IF grows THEN grown ELSE cap,
                !.free_alloc = IF grows THEN grown ELSE IF new THEN d.cap ELSE @]

\* dmap_freelist_pop
Popped(d) == [d EXCEPT !.free = SubSeq(@, 1, Len(@) - 1)]

FreshIndex(d) == IF Len(d.free) > 0 THEN d.free[Len(d.free)] ELSE d.len

(***************************************************************************)
(* The calls.                                                              *)
(***************************************************************************)
Init == t = NoMap /\ answer = Silent

Ready == t.run = "ready"

\* dmap_init with the default capacity
Begin ==
  /\ Ready /\ t = NoMap
  /\ t' = NewMap
  /\ answer' = Silent

\* the probe of a call goes round for ever
Hangs(d, k) ==
  /\ Probe(d, k) = Null
  /\ t' = [d EXCEPT !.run = "probing"]
  /\ answer' = Silent

DeletedSlots(d) == {i \in DOMAIN d.table : d.table[i].idx = Deleted}

Binds(d, k) == d.cap > 0 /\ IsLive(d.table[Probe(d, k)])
ValueAt(d, k) == d.data[d.table[Probe(d, k)].idx]

\* dmap_get: an error before the first insertion has set the size of the keys
Get(k) ==
  /\ Ready
  /\ \/ /\ t # NoMap /\ t.key_size = 0
        /\ t' = [t EXCEPT !.run = "exited"]
        /\ answer' = Silent
     \/ /\ t.key_size > 0
        /\ Hangs(t, k)
     \/ /\ t = NoMap \/ (t.key_size > 0 /\ Probe(t, k) # Null)
        /\ answer' = Said("find", k, Binds(t, k), IF Binds(t, k) THEN {ValueAt(t, k)} ELSE {})
        /\ UNCHANGED t

WithEntry_NewPlace(d, k, v, slot) ==
  LET idx == FreshIndex(d)
      new == IF Len(d.free) > 0 THEN Popped(d) ELSE d
  IN  [new EXCEPT !.len = @ + 1, !.table[slot] = [idx |-> idx, hash |-> Hash[k], key |-> k],
                  !.data = [@ EXCEPT ![idx] = v], !.key_size = 1]

\* dmap__insert_entry at the slot the probe found, and the macro's assignment
WithEntry(d, k, v, slot) ==
  LET idx == IF IsLive(d.table[slot]) THEN d.table[slot].idx ELSE FreshIndex(d)
      new == IF Len(d.free) > 0 THEN Popped(d) ELSE d
      e == IF IsLive(d.table[slot]) THEN d
           ELSE [new EXCEPT !.len = @ + 1, !.table[slot] = [idx |-> idx, hash |-> Hash[k], key |-> k]]
  IN  [e EXCEPT !.data[idx] = v, !.key_size = 1]

\* dmap_insert: room for one more first, even if the key is there
Insert(k, v) ==
  LET d == Fit(t, t.len + 1)
  IN  /\ Ready
      /\ d.cap <= MaxCapacity
      /\ \/ Hangs(d, k)
         \/ /\ Probe(d, k) # Null
            /\ t' = WithEntry(d, k, v, Probe(d, k))
            /\ answer' = Said("assign", k, TRUE, {v})

Erased_ToEmpty(d, slot) ==
  [Push(d, d.table[slot].idx) EXCEPT !.table[slot] = Unused, !.len = @ - 1]

\* dmap__delete of the entry at a slot; the key that stays is never read again
Erased(d, slot) ==
  [Push(d, d.table[slot].idx) EXCEPT !.table[slot] = [@ EXCEPT !.idx = Deleted, !.key = Null],
                                     !.len = @ - 1]

\* dmap_delete reads the header at once: a map there must be
Delete(k) ==
  /\ Ready /\ t # NoMap
  /\ Cardinality(DeletedSlots(t)) < MaxDeleted
  /\ \/ Hangs(t, k)
     \/ /\ Probe(t, k) # Null
        /\ t' = IF Binds(t, k) THEN Erased(t, Probe(t, k)) ELSE t
        /\ answer' = Said("erase", k, Binds(t, k), {})

\* dmap_free
Free ==
  /\ Ready /\ t # NoMap
  /\ t' = NoMap
  /\ answer' = [op |-> "clear"]

\* the program never gets out of its probe, or has stopped
Stuck == ~Ready /\ UNCHANGED vars

Next ==
  \/ \E k \in Key : Get(k) \/ Delete(k)
  \/ \E k \in Key : \E v \in Stored[k] : Insert(k, v)
  \/ Begin
  \/ Free
  \/ Stuck

Spec == Init /\ [][Next]_vars

(***************************************************************************)
(* What is checked.                                                        *)
(***************************************************************************)
LiveSlots(d) == {i \in DOMAIN d.table : IsLive(d.table[i])}
LiveIndices(d) == {d.table[i].idx : i \in LiveSlots(d)}
FreeIndices(d) == {d.free[i] : i \in DOMAIN d.free}

\* Two live entries never share a value, a freed index belongs to no entry,
\* and together they are the first places of the array of values.
IndicesArePartitioned(d) ==
  /\ Cardinality(LiveIndices(d)) = Cardinality(LiveSlots(d))
  /\ Cardinality(LiveSlots(d)) = d.len
  /\ Cardinality(FreeIndices(d)) = Len(d.free)
  /\ LiveIndices(d) \cap FreeIndices(d) = {}
  /\ LiveIndices(d) \cup FreeIndices(d) = 0..(d.len + Len(d.free) - 1)

\* What is written lies in the block that was allocated for it.
FitsItsBlocks(d) ==
  /\ d.len + Len(d.free) <= d.cap
  /\ Len(d.free) <= d.free_alloc

\* Every live key is found where its probe ends, unless the probe never ends.
KeysAreReachable(d) ==
  \A i \in LiveSlots(d) : Probe(d, d.table[i].key) = i

MapIsSound == IndicesArePartitioned(t) /\ FitsItsBlocks(t) /\ KeysAreReachable(t)

Bindings == {[key |-> t.table[i].key, val |-> t.data[t.table[i].idx]] : i \in LiveSlots(t)}

\* dmap.h:134: indices are always stable
IndicesAreStable ==
  \A i \in LiveSlots(t), j \in LiveSlots(t)' :
    t.table[i].key = t'.table[j].key => t.table[i].idx = t'.table[j].idx

\* dmap.c:366 and 396: the loops end, there is an empty slot
ProbesEnd == t.run # "probing"
=============================================================================
