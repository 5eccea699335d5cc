------------------------------ MODULE Emilib2 -------------------------------
(***************************************************************************)
(* emilib2::HashMap (emilib2/emilib2o.hpp): open addressing in groups.  A  *)
(* state byte per bucket has a remnant of the hash, or says empty or       *)
(* deleted; a group is simd_bytes consecutive bytes from any bucket.  A    *)
(* search goes from group to group until one has an empty bucket, or until *)
(* the furthest group a key of this home was ever put in.  Behind the last *)
(* bucket there are sentinels.  A call is one step.                        *)
(***************************************************************************)
EXTENDS Integers, FiniteSets

CONSTANTS
  Key, Null,
  Stored,         \* the values clients give each key
  Hash, Rest,     \* the hash, and hash_key2: what is left of it modulo 251
  Simd,           \* simd_bytes (16)
  Jump,           \* the constant of the next group's offset (7)
  Near,           \* how many groups are found that way (8)
  Spare,          \* a table has room for n and n / Spare elements (5)
  Requested,      \* what a client passes to reserve and rehash
  MaxBuckets      \* bound: no table with more buckets

VARIABLES
  t,              \* the table
  answer          \* what the last call said

vars == <<t, answer>>

Said(op, k, found, vals) == [op |-> op, key |-> k, found |-> found, vals |-> vals]
Silent == [op |-> "none"]

\* State
EEMPTY == -2
EDELETE == -1

NewTable(n) == [n |-> n, num |-> 0, hangs |-> FALSE,
                states |-> [b \in 0..(n-1) |-> EEMPTY],
                offset |-> [b \in 0..(n-1) |-> 0],
                kv |-> [b \in 0..(n-1) |-> Null]]

Least(S) == CHOOSE x \in S : \A y \in S : x <= y
AtLeast(a, b) == IF a >= b THEN a ELSE b

(***************************************************************************)
(* Groups.  get_next_bucket steps over one bucket where it passes the end; *)
(* groups further on than Horizon repeat earlier ones.                     *)
(***************************************************************************)
NextBucket(T, b, g) ==
  LET c == b + IF g < Near THEN Jump + (Simd * g) \div 2 ELSE (T.n - 1) \div 32 + 2
  IN  IF c >= T.n THEN (c + 1) % T.n ELSE c

Horizon(T) == Near + 2 * T.n

\* the buckets of the g-th group from home that are not sentinels
RECURSIVE GroupStart(_, _, _)
GroupStart(T, home, g) == IF g = 0 THEN home ELSE NextBucket(T, GroupStart(T, home, g - 1), g)

Group(T, home, g) ==
  LET s == GroupStart(T, home, g)
  IN  s..(IF s + Simd <= T.n THEN s + Simd - 1 ELSE T.n - 1)

In(T, home, g, S) == {b \in Group(T, home, g) : T.states[b] \in S}

Home(T, k) == Hash[k] % T.n

\* the last group that a search looks at: the first with an empty bucket, or
\* the furthest, but two in any case
LastGroup(T, home) ==
  LET furthest == AtLeast(1, T.offset[home])
  IN  Least({furthest} \cup {g \in 0..furthest : In(T, home, g, {EEMPTY}) # {}})

\* find_filled_bucket
Found(T, k) ==
  LET home == Home(T, k)
  IN  {b \in UNION {In(T, home, g, {Rest[k]}) : g \in 0..LastGroup(T, home)} : T.kv[b].key = k}

(***************************************************************************)
(* Where a new key goes.                                                   *)
(***************************************************************************)
Filled(T, b, kv) == [T EXCEPT !.states[b] = Rest[kv.key], !.kv[b] = kv, !.num = @ + 1]

\* find_empty_slot, from the g-th group on; the furthest group is remembered
RECURSIVE InEmptySlot(_, _, _)
InEmptySlot(T, kv, g) ==
  LET home == Home(T, kv.key)
      free == In(T, home, g, {EEMPTY, EDELETE})
  IN  IF g > Horizon(T) THEN [T EXCEPT !.hangs = TRUE]
      ELSE IF free = {} THEN InEmptySlot(T, kv, g + 1)
      ELSE Filled([T EXCEPT !.offset[home] = AtLeast(@, g)], Least(free), kv)

\* find_or_allocate of a key that is not there: the first deleted bucket met
\* on the way, an empty one, or one in a group further on
Allocated(T, kv) ==
  LET home == Home(T, kv.key)
      last == LastGroup(T, home)
      empty == In(T, home, last, {EEMPTY})
      passed == 0..(IF empty = {} THEN last ELSE last - 1)
      holes == {g \in passed : In(T, home, g, {EDELETE}) # {}}
  IN  IF holes # {} THEN Filled(T, Least(In(T, home, Least(holes), {EDELETE})), kv)
      ELSE IF empty # {} THEN Filled(T, Least(empty), kv)
      ELSE InEmptySlot(T, kv, last + 1)

(***************************************************************************)
(* rehash, from the last bucket down.                                      *)
(***************************************************************************)
RECURSIVE MovedDown(_, _, _), SizeFor(_, _)
MovedDown(old, b, T) ==
  IF b < 0 THEN T
  ELSE MovedDown(old, b - 1, IF old.kv[b] = Null THEN T ELSE InEmptySlot(T, old.kv[b], 0))

SizeFor(n, required) == IF n >= required THEN n ELSE SizeFor(2 * n, required)

Rehash(T, required) ==
  IF required < T.num THEN T
  ELSE MovedDown(T, T.n - 1, NewTable(SizeFor(Simd, required)))

\* reserve, and check_expand_need of a table as it is
Reserved(T, elements) ==
  LET required == elements + elements \div Spare
  IN  IF required < T.n THEN T ELSE Rehash(T, required + 2)
Expanded(T) == Reserved(T, T.num)

Erased_ToEmpty(T, b) ==
  [T EXCEPT !.states[b] = EEMPTY, !.kv[b] = Null, !.num = @ - 1]

\* _erase: nothing becomes empty but all at once
Erased(T, b) ==
  IF T.num = 1 THEN NewTable(T.n)
  ELSE [T EXCEPT !.states[b] = EDELETE, !.kv[b] = Null, !.num = @ - 1]

(***************************************************************************)
(* The calls.                                                              *)
(***************************************************************************)
WithinBound(T) == T.n <= MaxBuckets

\* the constructor reserves a handful of buckets
Init == t = NewTable(Simd) /\ answer = Silent

\* find
Find(k) ==
  /\ answer' = Said("find", k, Found(t, k) # {}, {t.kv[b].val : b \in Found(t, k)})
  /\ UNCHANGED t

\* try_emplace, insert, operator[] and insert_or_assign: room first, even if
\* the key is there
Emplace(k, v, assign) ==
  LET T == Expanded(t)
      found == Found(T, k)
  IN  /\ WithinBound(T)
      /\ t' = IF found = {} THEN Allocated(T, [key |-> k, val |-> v])
              ELSE IF assign THEN [T EXCEPT !.kv[CHOOSE b \in found : TRUE].val = v]
              ELSE T
      /\ answer' = IF assign THEN Said("assign", k, TRUE, {v})
                   ELSE Said("insert", k, found # {}, {})

\* insert_unique, which trusts the client that the key is not there
InsertUnique(k, v) ==
  /\ Found(t, k) = {}
  /\ WithinBound(Expanded(t))
  /\ t' = InEmptySlot(Expanded(t), [key |-> k, val |-> v], 0)
  /\ answer' = Said("insert", k, FALSE, {})

\* erase, of a key and of what find returned
Erase(k) ==
  /\ answer' = Said("erase", k, Found(t, k) # {}, {})
  /\ \/ \E b \in Found(t, k) : t' = Erased(t, b)
     \/ Found(t, k) = {} /\ UNCHANGED t

\* clear
Clear ==
  /\ t' = IF t.num = 0 THEN t ELSE NewTable(t.n)
  /\ answer' = [op |-> "clear"]

\* reserve, rehash to more than there is, and shrink_to_fit
Resize(T) ==
  /\ WithinBound(T)
  /\ t' = T
  /\ answer' = Silent

Next ==
  \/ \E k \in Key : Find(k) \/ Erase(k)
  \/ \E k \in Key, assign \in BOOLEAN : \E v \in Stored[k] : Emplace(k, v, assign)
  \/ \E k \in Key : \E v \in Stored[k] : InsertUnique(k, v)
  \/ \E n \in Requested : Resize(Reserved(t, n)) \/ (n > t.num /\ Resize(Rehash(t, n)))
  \/ Resize(Rehash(t, t.num + 1))
  \/ Clear

Spec == Init /\ [][Next]_vars

(***************************************************************************)
(* What is checked.                                                        *)
(***************************************************************************)
Taken(T) == {b \in DOMAIN T.states : T.states[b] >= 0}

\* Every key is in a group that a search looks at: not behind a group with an
\* empty bucket, nor behind the furthest of its home.  No search for a free
\* bucket goes on for ever, and when one begins there is one.
SearchesReachKeys(T) ==
  /\ ~T.hangs
  /\ T.num = Cardinality(Taken(T))
  /\ \A b \in DOMAIN T.states :
       IF b \in Taken(T) THEN T.kv[b] # Null /\ Found(T, T.kv[b].key) = {b} ELSE T.kv[b] = Null

TableIsSound == SearchesReachKeys(t)

Bindings == {t.kv[b] : b \in Taken(t)}
=============================================================================
