------------------------------- MODULE Phmap --------------------------------
(***************************************************************************)
(* phmap::flat_hash_map (phmap/phmap.h, raw_hash_set): open addressing in  *)
(* groups.  A control byte per slot has seven bits of the hash, or says    *)
(* empty or deleted; a group is kWidth consecutive bytes from any slot on, *)
(* and the first bytes are repeated behind the sentinel for the groups     *)
(* that pass the end.  A search goes from group to group until one has an  *)
(* empty byte.  A call is one step.                                        *)
(***************************************************************************)
EXTENDS Integers, FiniteSets

CONSTANTS
  Key, Null,
  Stored,         \* the values clients give each key
  H1, H2,         \* the hash without and the hash's lowest seven bits
  Width,          \* Group::kWidth (16)
  Spare,          \* one slot of so many is kept empty (8)
  Requested,      \* what a client passes to rehash
  MaxCapacity     \* bound: no table with more slots

VARIABLES
  t,              \* the table
  answer          \* what the last call said

vars == <<t, answer>>

Said(op, k, found, vals) == [op |-> op, key |-> k, found |-> found, vals |-> vals]
Silent == [op |-> "none"]

kSentinel == -1
kDeleted == -2
kEmpty == -128
IsFull(byte) == byte >= 0

Least(S) == CHOOSE x \in S : \A y \in S : x <= y
Greatest(S) == CHOOSE x \in S : \A y \in S : x >= y

(***************************************************************************)
(* Sizes.  A capacity is a power of two less one.                          *)
(***************************************************************************)
CapacityToGrowth(c) == c - c \div Spare
GrowthToLowerboundCapacity(n) == IF n = 0 THEN 0 ELSE n + (n - 1) \div (Spare - 1)

RECURSIVE NormalizeFrom(_, _)
NormalizeFrom(c, n) == IF c >= n THEN c ELSE NormalizeFrom(2 * c + 1, n)
NormalizeCapacity(n) == NormalizeFrom(1, n)

IsSmall(T) == T.capacity < Width - 1

NewTable(c, size) ==
  [capacity |-> c, size |-> size, growth_left |-> CapacityToGrowth(c) - size,
   ctrl |-> [i \in 0..c |-> IF i = c THEN kSentinel ELSE kEmpty],
   slot |-> [i \in 0..(c-1) |-> Null]]

(***************************************************************************)
(* Groups.  Behind the sentinel the bytes of the first slots are repeated; *)
(* what is left of a group that is longer than the table is empty.         *)
(***************************************************************************)
Byte(T, p) ==
  IF p <= T.capacity THEN T.ctrl[p]
  ELSE LET i == p - T.capacity - 1 IN IF i < T.capacity THEN T.ctrl[i] ELSE kEmpty

In(T, offset, bytes) == {j \in 0..(Width-1) : Byte(T, offset + j) \in bytes}

SlotAt(T, offset, j) == (offset + j) % (T.capacity + 1)

\* where the g-th group of a key begins; from Groups on they repeat
Probe(T, k, g) == (H1[k] + Width * ((g * (g + 1)) \div 2)) % (T.capacity + 1)
Groups(T) == (T.capacity + 1) \div Width

\* the groups a search looks at
Searched(T, k) ==
  {g \in 0..Groups(T) : \A h \in 0..(g-1) : In(T, Probe(T, k, h), {kEmpty}) = {}}

\* _find_key
Found(T, k) ==
  {i \in UNION {{SlotAt(T, Probe(T, k, g), j) : j \in In(T, Probe(T, k, g), {H2[k]})} :
                  g \in Searched(T, k)} : T.slot[i].key = k}

FindFirstNonFull(T, k) ==
  LET g == Least({h \in 0..Groups(T) : In(T, Probe(T, k, h), {kEmpty, kDeleted}) # {}})
  IN  SlotAt(T, Probe(T, k, g), Least(In(T, Probe(T, k, g), {kEmpty, kDeleted})))

Put(T, i, kv) == [T EXCEPT !.ctrl[i] = H2[kv.key], !.slot[i] = kv]

(***************************************************************************)
(* A table of another capacity, or the same one without deleted slots.     *)
(***************************************************************************)
RECURSIVE Transferred(_, _, _)
Transferred(old, i, T) ==
  IF i = old.capacity THEN T
  ELSE Transferred(old, i + 1,
         IF IsFull(old.ctrl[i])
         THEN Put(T, FindFirstNonFull(T, old.slot[i].key), old.slot[i]) ELSE T)

Resize(T, c) == Transferred(T, 0, NewTable(c, T.size))

\* what is yet to be placed is marked as deleted
Unmarked(T) ==
  [T EXCEPT !.ctrl = [i \in 0..T.capacity |->
     IF i = T.capacity THEN kSentinel ELSE IF IsFull(T.ctrl[i]) THEN kDeleted ELSE kEmpty]]

RECURSIVE Placed(_, _)
Placed(T, i) ==
  IF i = T.capacity THEN T
  ELSE IF T.ctrl[i] # kDeleted THEN Placed(T, i + 1)
  ELSE LET kv == T.slot[i]
           to == FindFirstNonFull(T, kv.key)
           group(j) == ((j - Probe(T, kv.key, 0)) % (T.capacity + 1)) \div Width
       IN  IF group(to) = group(i) THEN Placed(Put(T, i, kv), i + 1)
           ELSE IF T.ctrl[to] = kEmpty
           THEN Placed([Put(T, to, kv) EXCEPT !.ctrl[i] = kEmpty, !.slot[i] = Null], i + 1)
           ELSE Placed([Put(T, to, kv) EXCEPT !.slot[i] = T.slot[to]], i)

DropDeletes(T) ==
  [Placed(Unmarked(T), 0) EXCEPT !.growth_left = CapacityToGrowth(T.capacity) - T.size]

RehashAndGrow(T) ==
  IF T.capacity = 0 THEN Resize(T, 1)
  ELSE IF T.size <= CapacityToGrowth(T.capacity) \div 2 THEN DropDeletes(T)
  ELSE Resize(T, 2 * T.capacity + 1)

(***************************************************************************)
(* prepare_insert and erase_meta_only.                                     *)
(***************************************************************************)
\* the table in which the new key is put
Prepared(T, k) ==
  IF T.growth_left = 0 /\ T.ctrl[FindFirstNonFull(T, k)] # kDeleted
  THEN RehashAndGrow(T) ELSE T

\* prepare_insert counts an element before it is there, at target
Counted(T, target) ==
  [T EXCEPT !.size = @ + 1, !.growth_left = @ - IF T.ctrl[target] = kEmpty THEN 1 ELSE 0]

InsertedIn(P, kv, i) == Put(Counted(P, i), i, kv)
InsertedInto(P, kv) == InsertedIn(P, kv, FindFirstNonFull(P, kv.key))
Inserted(T, kv) == InsertedInto(Prepared(T, kv.key), kv)

\* no group with this slot in it has been full
WasNeverFull_Near(T, i) ==
  \/ In(T, (i - Width) % (T.capacity + 1), {kEmpty}) # {}
  \/ In(T, i, {kEmpty}) # {}
WasNeverFull(T, i) ==
  LET before == In(T, (i - Width) % (T.capacity + 1), {kEmpty})
      after == In(T, i, {kEmpty})
  IN  /\ before # {} /\ after # {}
      /\ Least(after) + (Width - 1 - Greatest(before)) < Width

Erased(T, i) ==
  LET empty == WasNeverFull(T, i)
  IN  [T EXCEPT !.size = @ - 1,
                !.ctrl[i] = IF empty THEN kEmpty ELSE kDeleted,
                !.slot[i] = Null,
                !.growth_left = @ + IF empty THEN 1 ELSE 0]

\* rehash
Rehashed(T, n) ==
  LET m == NormalizeCapacity(IF n >= T.size THEN n ELSE T.size)
  IN  IF n = 0 /\ T.capacity = 0 THEN T
      ELSE IF n = 0 /\ T.size = 0 THEN NewTable(0, 0)
      ELSE IF n = 0 \/ m > T.capacity THEN Resize(T, m) ELSE T

-----------------------------------------------------------------------------
(***************************************************************************)
(* The calls.  Two cases are left out: a table above the bound, and a      *)
(* rehash(0) that takes a capacity too small for the load limit, which     *)
(* makes growth_left wrap.                                                 *)
(***************************************************************************)
WithinBound(T) == T.capacity <= MaxCapacity /\ T.growth_left >= 0

Vals(T, k) == {T.slot[i].val : i \in Found(T, k)}
Here(T, k) == CHOOSE i \in Found(T, k) : TRUE

\* find
Find(k) ==
  /\ answer' = Said("find", k, Found(t, k) # {}, Vals(t, k))
  /\ UNCHANGED t

\* try_emplace, and operator[] with the value a new element gets
TryEmplace(k, v) ==
  LET T == IF Found(t, k) = {} THEN Inserted(t, [key |-> k, val |-> v]) ELSE t
  IN  /\ WithinBound(T)
      /\ t' = T
      /\ answer' = Said("insert", k, Found(t, k) # {}, {})

\* insert_or_assign, and ++h[key]
InsertOrAssign(k, v) ==
  LET kv == [key |-> k, val |-> v]
      T == IF Found(t, k) = {} THEN Inserted(t, kv)
           ELSE [t EXCEPT !.slot[Here(t, k)] = kv]
  IN  /\ WithinBound(T)
      /\ t' = T
      /\ answer' = Said("assign", k, TRUE, {v})

\* erase
Erase(k) ==
  /\ t' = IF Found(t, k) = {} THEN t ELSE Erased(t, Here(t, k))
  /\ answer' = Said("erase", k, Found(t, k) # {}, {})

\* clear keeps the marks of an empty table, and the capacity
Clear ==
  /\ t' = IF t.size = 0 THEN t ELSE NewTable(t.capacity, 0)
  /\ answer' = [op |-> "clear"]

\* rehash, and reserve
Rehash(n) ==
  LET T == Rehashed(t, n)
  IN  /\ WithinBound(T)
      /\ t' = T
      /\ answer' = Silent

Init ==
  /\ t = NewTable(0, 0)
  /\ answer = Silent

Next ==
  \/ Clear
  \/ \E n \in Requested : Rehash(n) \/ Rehash(GrowthToLowerboundCapacity(n))
  \/ \E k \in Key : Find(k) \/ Erase(k)
  \/ \E k \in Key : \E v \in Stored[k] : TryEmplace(k, v) \/ InsertOrAssign(k, v)

Spec == Init /\ [][Next]_vars

-----------------------------------------------------------------------------
Slots(T) == 0..(T.capacity - 1)

\* The bindings of the abstract map.
BindingsOf(T) == {T.slot[i] : i \in {j \in Slots(T) : IsFull(T.ctrl[j])}}
Bindings == BindingsOf(t)

Marked(T, byte) == Cardinality({i \in Slots(T) : T.ctrl[i] = byte})

\* What is left to grow, the elements and the deleted slots make up the load
\* limit, so that some byte is always empty; a table shorter than a group,
\* which drop_deletes_without_resize may not be called for, has no deleted slot.
LoadIsLimited(T) ==
  /\ T.size = Cardinality({i \in Slots(T) : IsFull(T.ctrl[i])})
  /\ T.growth_left + T.size + Marked(T, kDeleted) = CapacityToGrowth(T.capacity)
  /\ \E p \in 0..(T.capacity + Width - 1) : Byte(T, p) = kEmpty
  /\ IsSmall(T) => Marked(T, kDeleted) = 0

\* Every element is met by the search for its key, no other slot is: no
\* group on its way has an empty byte, erasing and dropping deletes included.
SearchesMeetKeys(T) ==
  \A i \in Slots(T) : T.slot[i] # Null => Found(T, T.slot[i].key) = {i}

IsSound(T) == LoadIsLimited(T) /\ SearchesMeetKeys(T)
TableIsSound == IsSound(t)
=============================================================================
