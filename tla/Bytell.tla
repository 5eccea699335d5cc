------------------------------- MODULE Bytell -------------------------------
(***************************************************************************)
(* ska::bytell_hash_map (ska_bytell/bytell_hash_map.hpp): open addressing  *)
(* in which the elements of one home slot form a list that begins there.   *)
(* A byte per slot says that it is empty, or holds a list's head (a direct *)
(* hit) or a later entry, and how far it is to the next entry, as an index *)
(* of a table of jumps.  When a list can jump nowhere the table grows.     *)
(* A call is one step.                                                     *)
(***************************************************************************)
EXTENDS Integers, Sequences, FiniteSets

CONSTANTS
  Key, Null,
  Stored,         \* the values clients give each key
  Hash,
  Jumps,          \* jump_distances without the first, 0 (125 of them)
  MinGrown,       \* the fewest slots that grow asks for (10)
  Load,           \* _max_load_factor is Load / (Load + 1) (15)
  Reserved,       \* what a client passes to reserve and rehash
  MaxSlots        \* bound: no table with more slots

VARIABLES
  t,              \* the table
  answer          \* what the last call said

vars == <<t, answer>>

Said(op, k, found, vals) == [op |-> op, key |-> k, found |-> found, vals |-> vals]
Silent == [op |-> "none"]

Empty == [kind |-> "empty", jump |-> 0]

\* A table without slots has one control byte, which says empty.
NewTable(n) == [n |-> n, num |-> 0,
                meta |-> [i \in 0..(IF n = 0 THEN 0 ELSE n - 1) |-> Empty],
                kv |-> [i \in 0..(n-1) |-> Null]]

AtLeast(a, b) == IF a >= b THEN a ELSE b
AtMost(a, b) == IF a <= b THEN a ELSE b

Home(T, k) == IF T.n = 0 THEN 0 ELSE Hash[k] % T.n

IsHead(T, i) == T.meta[i].kind = "direct"
IsHeld(T, i) == T.meta[i].kind \in {"direct", "list"}

(***************************************************************************)
(* Lists.                                                                  *)
(***************************************************************************)
JumpFrom(T, i, j) == (i + Jumps[j]) % T.n
NextOf(T, i) == JumpFrom(T, i, T.meta[i].jump)

RECURSIVE ListFrom(_, _, _)
ListFrom(T, i, most) ==
  IF most = 0 THEN <<>>
  ELSE <<i>> \o IF T.meta[i].jump = 0 THEN <<>> ELSE ListFrom(T, NextOf(T, i), most - 1)

\* the slots of the elements whose home this is
List(T, home) == IF IsHead(T, home) THEN ListFrom(T, home, T.n + 1) ELSE <<>>

EndOf(l) == l[Len(l)]

\* find: the slot of a key, as a set
Found(T, k) ==
  LET l == List(T, Home(T, k))
  IN  {l[i] : i \in {j \in DOMAIN l : T.kv[l[j]].key = k}}

\* find_direct_hit
HeadOf(T, i) == Home(T, T.kv[i].key)

\* find_parent_block
Parent(T, i) ==
  LET l == List(T, HeadOf(T, i))
  IN  l[(CHOOSE p \in DOMAIN l : l[p] = i) - 1]

\* find_free_index: the first jump to an empty slot, 0 if there is none
FreeJump(T, i) ==
  LET free == {j \in DOMAIN Jumps : T.meta[JumpFrom(T, i, j)] = Empty}
  IN  IF free = {} THEN 0 ELSE CHOOSE j \in free : \A l \in free : j <= l

(***************************************************************************)
(* emplace_direct_hit where a later entry of another list has the slot: it *)
(* and what follows it move, one after the other, to slots their list can  *)
(* jump to.  Slots that become empty may be taken, but for the one that is *)
(* wanted, which is reserved.                                              *)
(***************************************************************************)
MovedOne(T, slot, i, parent, j) ==
  LET to == JumpFrom(T, parent, j)
      left == IF i = slot /\ T.meta[i].jump # 0 THEN [kind |-> "reserved", jump |-> 0] ELSE Empty
  IN  [T EXCEPT !.kv = [@ EXCEPT ![to] = T.kv[i], ![i] = Null],
                !.meta = [@ EXCEPT ![parent].jump = j,
                                   ![to] = [kind |-> "list", jump |-> 0],
                                   ![i] = left]]

RECURSIVE MovedTail(_, _, _, _), MovedRest(_, _, _, _, _)
MovedRest(T, slot, i, parent, j) ==
  IF j = 0 THEN [ok |-> FALSE, table |-> T]
  ELSE IF T.meta[i].jump = 0 THEN [ok |-> TRUE, table |-> MovedOne(T, slot, i, parent, j)]
  ELSE MovedTail(MovedOne(T, slot, i, parent, j), slot, NextOf(T, i), JumpFrom(T, parent, j))

MovedTail(T, slot, i, parent) == MovedRest(T, slot, i, parent, FreeJump(T, parent))

Put(T, i, kind, kv) ==
  [T EXCEPT !.kv[i] = kv, !.meta[i] = [kind |-> kind, jump |-> 0], !.num = @ + 1]

Headed_AsList(moved, kv) ==
  IF ~moved.ok THEN moved
  ELSE [ok |-> TRUE, table |-> Put(moved.table, Home(moved.table, kv.key), "list", kv)]

\* the new key begins a list
Headed(moved, kv) ==
  IF ~moved.ok THEN moved
  ELSE [ok |-> TRUE, table |-> Put(moved.table, Home(moved.table, kv.key), "direct", kv)]

InsertHead(T, kv) ==
  LET slot == Home(T, kv.key)
  IN  IF T.meta[slot] = Empty THEN [ok |-> TRUE, table |-> Put(T, slot, "direct", kv)]
      ELSE Headed(MovedTail(T, slot, slot, Parent(T, slot)), kv)

\* emplace_new_key: at the end of a list
Linked(T, kv, last, j) ==
  IF j = 0 THEN [ok |-> FALSE, table |-> T]
  ELSE [ok |-> TRUE,
        table |-> Put([T EXCEPT !.meta[last].jump = j], JumpFrom(T, last, j), "list", kv)]

InsertAfter(T, kv, last) == Linked(T, kv, last, FreeJump(T, last))

InsertLast(T, kv) == InsertAfter(T, kv, EndOf(List(T, Home(T, kv.key))))

\* is_full
Full(T) == (T.num + 1) * (Load + 1) > T.n * Load

(***************************************************************************)
(* emplace of a key that is not there, and rehash: all that the slots hold *)
(* is emplaced in a new table, which may grow on the way.  A table that    *)
(* would have more than MaxSlots slots is not filled.                      *)
(***************************************************************************)
TryEmplace(T, kv) ==
  IF Full(T) THEN [ok |-> FALSE, table |-> T]
  ELSE IF IsHead(T, Home(T, kv.key)) THEN InsertLast(T, kv) ELSE InsertHead(T, kv)

RECURSIVE Emplaced(_, _), Grown(_, _), Rehash(_, _), RehashTo(_, _), Reemplaced(_, _, _), PowerOfTwo(_, _)
Grown(r, kv) ==
  IF r.ok \/ r.table.n > MaxSlots THEN r.table
  ELSE Emplaced(Rehash(r.table, AtLeast(MinGrown, 2 * r.table.n)), kv)

Emplaced(T, kv) == Grown(TryEmplace(T, kv), kv)

Reemplaced(old, i, T) ==
  IF i = old.n THEN T
  ELSE Reemplaced(old, i + 1, IF IsHeld(old, i) THEN Emplaced(T, old.kv[i]) ELSE T)

PowerOfTwo(n, size) == IF n >= size THEN n ELSE PowerOfTwo(2 * n, size)

\* num_buckets_for_reserve
SlotsFor(size) == (size * (Load + 1) + Load - 1) \div Load

RehashTo(T, n) ==
  IF n = AtLeast(T.n, 1) THEN T
  ELSE IF n > MaxSlots THEN NewTable(n)
  ELSE Reemplaced(T, 0, NewTable(n))

Rehash(T, slots) ==
  LET wanted == AtLeast(slots, SlotsFor(T.num))
  IN  IF wanted = 0 THEN NewTable(0) ELSE RehashTo(T, PowerOfTwo(1, wanted))

(***************************************************************************)
(* erase: the last of the list takes the place of the erased.              *)
(***************************************************************************)
Erased(T, i) ==
  LET l == ListFrom(T, i, T.n + 1)
      last == EndOf(l)
      before == IF i = last THEN IF IsHead(T, i) THEN {} ELSE {Parent(T, i)}
                ELSE {l[Len(l) - 1]}
  IN  [T EXCEPT
        !.num = @ - 1,
        !.kv = [@ EXCEPT ![i] = T.kv[last], ![last] = Null],
        !.meta = [s \in DOMAIN @ |-> IF s = last THEN Empty
                                     ELSE IF s \in before THEN [@[s] EXCEPT !.jump = 0]
                                     ELSE @[s]]]

\* erase of a range: deeper entries first
Depth(T, i) == LET l == List(T, HeadOf(T, i)) IN CHOOSE d \in DOMAIN l : l[d] = i

RECURSIVE ErasedAll(_, _)
ErasedAll(T, depths) ==
  IF depths = {} THEN T
  ELSE LET deepest == CHOOSE d \in depths : \A e \in depths : d[1] >= e[1]
       IN  ErasedAll(Erased(T, deepest[2]), depths \ {deepest})

ErasedRange(T, slots) == ErasedAll(T, {<<Depth(T, i), i>> : i \in slots})

(***************************************************************************)
(* The calls.                                                              *)
(***************************************************************************)
WithinBound(T) == T.n <= MaxSlots

Init == t = NewTable(0) /\ answer = Silent

\* find
Find(k) ==
  /\ answer' = Said("find", k, Found(t, k) # {}, {t.kv[i].val : i \in Found(t, k)})
  /\ UNCHANGED t

\* emplace, insert, operator[] and insert_or_assign
Emplace(k, v, assign) ==
  \E T \in {IF Found(t, k) = {} THEN Emplaced(t, [key |-> k, val |-> v])
            ELSE IF assign THEN [t EXCEPT !.kv[CHOOSE i \in Found(t, k) : TRUE].val = v]
            ELSE t} :
    /\ WithinBound(T)
    /\ t' = T
    /\ answer' = IF assign THEN Said("assign", k, TRUE, {v})
                 ELSE Said("insert", k, Found(t, k) # {}, {})

\* erase of a key, and of what find returned
Erase(k) ==
  /\ answer' = Said("erase", k, Found(t, k) # {}, {})
  /\ \/ \E i \in Found(t, k) : t' = Erased(t, i)
     \/ Found(t, k) = {} /\ UNCHANGED t

\* clear
Clear ==
  /\ t' = NewTable(t.n)
  /\ answer' = [op |-> "clear"]

Resize(T) ==
  /\ WithinBound(T)
  /\ t' = T
  /\ answer' = Silent

\* shrink_to_fit
ShrinkToFit == Resize(Rehash(t, AtMost(SlotsFor(t.num), t.n)))

\* reserve and rehash
Reserve(size) == Resize(IF SlotsFor(size) > t.n THEN Rehash(t, SlotsFor(size)) ELSE t)

Next ==
  \/ \E k \in Key : Find(k) \/ Erase(k)
  \/ \E k \in Key, assign \in BOOLEAN : \E v \in Stored[k] : Emplace(k, v, assign)
  \/ \E n \in Reserved : Reserve(n) \/ Resize(Rehash(t, n))
  \/ ShrinkToFit
  \/ Clear

Spec == Init /\ [][Next]_vars

(***************************************************************************)
(* What is checked.                                                        *)
(***************************************************************************)
Held(T) == {i \in DOMAIN T.meta : IsHeld(T, i)}

\* Every element is in the list of its home and at its place in no other; no
\* slot stays reserved.
ListsAreSound(T) ==
  /\ T.num = Cardinality(Held(T))
  /\ \A i \in DOMAIN T.meta \ Held(T) : T.meta[i] = Empty
  /\ \A i \in Held(T) :
       LET l == List(T, HeadOf(T, i))
       IN  /\ Cardinality({p \in DOMAIN l : l[p] = i}) = 1
           /\ IsHead(T, i) <=> HeadOf(T, i) = i

\* Erasing a range of slots erases the elements that were in it.
RangesAreErased(T) ==
  \A last \in DOMAIN T.kv : \A first \in 0..last :
    LET U == ErasedRange(T, Held(T) \cap (first..last))
    IN  {U.kv[i] : i \in Held(U)} = {T.kv[i] : i \in Held(T) \ (first..last)}

TableIsSound == ListsAreSound(t) /\ RangesAreErased(t)

Bindings == {t.kv[i] : i \in Held(t)}
=============================================================================
