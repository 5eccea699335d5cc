------------------------------- MODULE MDict --------------------------------
(***************************************************************************)
(* The open-addressing dictionary of M*LIB (mlib/m-dict.h, DICT_OA_DEF2):  *)
(* an array of pairs probed quadratically.  Two keys that the client gives *)
(* up say that a bucket is empty or was deleted.  The array is rehashed in *)
(* place: entries move to their exact position, and those that find it     *)
(* taken wait in a second array.  A call is one step.                      *)
(***************************************************************************)
EXTENDS Integers, Sequences, FiniteSets

CONSTANTS
  Key,
  Stored,         \* the values clients give each key
  Hash,
  InitialValue,   \* what INIT makes of a value
  InitialSize,    \* M_D1CT_INITIAL_SIZE (16)
  Requested,      \* what a client passes to reserve, besides 0
  Prefetch,       \* M_USE_MAX_PREFETCH (16)
  Batches,        \* the sequences of keys a client passes to bulk calls
  MaxBuckets      \* bound: no array with more buckets

VARIABLES
  t,              \* the dictionary
  answer          \* what the last call said

vars == <<t, answer>>

Said(op, k, found, vals) == [op |-> op, key |-> k, found |-> found, vals |-> vals]
Silent == [op |-> "none"]

\* a bucket with a key of the client's choice, see oor_set in mlib/test.c
EMPTY == [key |-> -1, val |-> 0]
DELETED == [key |-> -2, val |-> 0]

IsEmpty(e) == e = EMPTY
IsFree(e) == e \in {EMPTY, DELETED}
IsUsed(e) == ~IsFree(e)

\* _update_limit, with 0.7 and 0.2
UpperLimit(n) == (n * 7) \div 10 - 1
LowerLimit(n) == IF n <= InitialSize THEN 0 ELSE n \div 5

\* count_delete is the number of buckets that are not empty
NewDict ==
  [data |-> [b \in 0..(InitialSize-1) |-> EMPTY], count |-> 0, count_delete |-> 0,
   upper |-> UpperLimit(InitialSize), lower |-> LowerLimit(InitialSize)]

SizeOf(data) == Cardinality(DOMAIN data)

(***************************************************************************)
(* Probing among n buckets: the first of some on a key's way, as a set.    *)
(***************************************************************************)
SlotOf(hash, r, n) == (hash + (r * (r + 1)) \div 2) % n

FirstFrom(hash, n, stops) ==
  LET ends == {r \in 0..(n-1) : SlotOf(hash, r, n) \in stops}
  IN  {SlotOf(hash, r, n) : r \in {q \in ends : \A s \in ends : q <= s}}

First(k, n, stops) == FirstFrom(Hash[k], n, stops)

\* where _get, _set_at, _safe_get and _erase stop: at the key or an empty bucket
ProbeFrom(hash, data, k) ==
  FirstFrom(hash, SizeOf(data), {b \in DOMAIN data : IsEmpty(data[b]) \/ data[b].key = k})

FoundFrom(hash, T, k) == {b \in ProbeFrom(hash, T.data, k) : T.data[b].key = k}
Found(T, k) == FoundFrom(Hash[k], T, k)

\* where a new key goes: the first deleted bucket on the way, or the empty one
SpotFrom(hash, data) == FirstFrom(hash, SizeOf(data), {b \in DOMAIN data : IsFree(data[b])})
Spot(data, k) == SpotFrom(Hash[k], data)

(***************************************************************************)
(* _resize_up and _resize_down.  The first pass leaves no deleted bucket,  *)
(* and every entry it does not set aside at its exact position.            *)
(***************************************************************************)
RECURSIVE InPlace(_, _, _, _, _), PutBack(_, _, _)
InPlace(data, b, end, n, tmp) ==
  LET e == data[b]
      p == Hash[e.key] % n
      Left(d, aside) == InPlace([d EXCEPT ![b] = EMPTY], b + 1, end, n, aside)
  IN  IF b = end THEN [data |-> data, tmp |-> tmp]
      ELSE IF IsFree(e) THEN Left(data, tmp)
      ELSE IF p = b THEN InPlace(data, b + 1, end, n, tmp)
      ELSE IF IsFree(data[p]) THEN Left([data EXCEPT ![p] = e], tmp)
      ELSE Left(data, <<e>> \o tmp)

\* entries go to the first empty bucket of their probe among n
PutBack(data, entries, n) ==
  IF entries = <<>> THEN data
  ELSE LET to == First(Head(entries).key, n, {b \in DOMAIN data : IsEmpty(data[b])})
       IN  PutBack([b \in DOMAIN data |-> IF b \in to THEN Head(entries) ELSE data[b]],
                   Tail(entries), n)

RECURSIVE UsedFrom(_, _)
UsedFrom(data, b) ==
  IF b \notin DOMAIN data THEN <<>>
  ELSE (IF IsUsed(data[b]) THEN <<data[b]>> ELSE <<>>) \o UsedFrom(data, b + 1)

Rehashed(data, n) ==
  LET old == SizeOf(data)
      wide == [b \in 0..((IF n > old THEN n ELSE old) - 1) |->
                 IF b < old THEN data[b] ELSE EMPTY]
      pass == InPlace(wide, 0, IF n < old THEN n ELSE old, n, <<>>)
      full == PutBack(PutBack(pass.data, UsedFrom(data, n), n), pass.tmp, n)
  IN  [b \in 0..(n-1) |-> full[b]]

Resize(T, n) == [T EXCEPT !.data = Rehashed(@, n), !.count_delete = T.count]
WithLimits(T, n) == [T EXCEPT !.upper = UpperLimit(n), !.lower = LowerLimit(n)]

\* after an insertion: room is made once too few buckets are empty, and twice
\* the room if more than half of them are in use
Grown(T) ==
  LET n == SizeOf(T.data)
      new == IF T.count > (n - 1) \div 2 THEN 2 * n ELSE n
  IN  IF T.count_delete >= T.upper THEN WithLimits(Resize(T, new), new) ELSE T

\* after an erasure
Shrunk(T) ==
  LET n == SizeOf(T.data)
      new == IF n \div 2 < InitialSize THEN InitialSize ELSE n \div 2
  IN  IF T.count >= T.lower THEN T
      ELSE IF new = n THEN Resize(T, n) ELSE WithLimits(Resize(T, new), new)

Erased(T, b) == Shrunk([T EXCEPT !.data[b] = DELETED, !.count = @ - 1])

Inserted_AtFirstFree(T, kv) ==
  LET b == CHOOSE b \in Spot(T.data, kv.key) : TRUE
  IN  Grown([T EXCEPT !.data[b] = kv, !.count = @ + 1, !.count_delete = @ + 1])

\* _set_at of a key that is not there
Inserted(T, kv) ==
  LET b == CHOOSE b \in Spot(T.data, kv.key) : TRUE
      more == IF T.data[b] = DELETED THEN 0 ELSE 1
  IN  Grown([T EXCEPT !.data[b] = kv, !.count = @ + 1, !.count_delete = @ + more])

SetAt(T, kv) ==
  IF Found(T, kv.key) = {} THEN Inserted(T, kv)
  ELSE [T EXCEPT !.data[CHOOSE b \in Found(T, kv.key) : TRUE] = kv]

RECURSIVE SetAll(_, _)
SetAll(T, entries) == IF entries = <<>> THEN T ELSE SetAll(SetAt(T, Head(entries)), Tail(entries))

(***************************************************************************)
(* The bulk calls take their keys in turn, each with the hash that was     *)
(* computed Prefetch turns ago and kept in a ring, and with the dictionary *)
(* as the keys before it left it.  A result is a dictionary and values.    *)
(***************************************************************************)
FirstHashes(ks) == [j \in 0..(Prefetch-1) |-> IF j < Len(ks) THEN Hash[ks[j + 1]] ELSE 0]
Turn(i) == (i - 1) % Prefetch

\* the ring after the i-th key's hash was taken from it
Ring_Behind(ring, ks, i) ==
  IF i + Prefetch > Len(ks) THEN ring ELSE [ring EXCEPT ![i % Prefetch] = Hash[ks[i + Prefetch]]]
Ring(ring, ks, i) ==
  IF i + Prefetch > Len(ks) THEN ring ELSE [ring EXCEPT ![Turn(i)] = Hash[ks[i + Prefetch]]]

\* update_sum and update_del of mlib/test-bulk.c, for the value in bucket b
SumDefault == 0
DelDefault == 255
UpdateSum(T, b, v) ==
  [dict |-> [T EXCEPT !.data[b].val = @ + v], val |-> T.data[b].val + v]
UpdateDel(T, b, v) ==
  IF T.data[b].val = DelDefault THEN [dict |-> [T EXCEPT !.data[b].val = v], val |-> 1]
  ELSE [dict |-> Erased(T, b), val |-> 0]
Update(del, T, b, v) == IF del THEN UpdateDel(T, b, v) ELSE UpdateSum(T, b, v)

\* of a new key update is told before the buckets are counted, and may be grown
Counted(r, more) ==
  [r EXCEPT !.dict = Grown([@ EXCEPT !.count = @ + 1, !.count_delete = @ + more])]

BulkUpdateOne(T, hash, k, v, del) ==
  IF FoundFrom(hash, T, k) # {} THEN Update(del, T, CHOOSE b \in FoundFrom(hash, T, k) : TRUE, v)
  ELSE LET b == CHOOSE b \in SpotFrom(hash, T.data) : TRUE
           kv == [key |-> k, val |-> IF del THEN DelDefault ELSE SumDefault]
       IN  Counted(Update(del, [T EXCEPT !.data[b] = kv], b, v), IF T.data[b] = DELETED THEN 0 ELSE 1)

RECURSIVE BulkUpdateFrom(_, _, _, _, _, _), After(_, _, _, _, _, _)
After(r, i, ring, ks, del, vals) == BulkUpdateFrom(r.dict, i, ring, ks, del, Append(vals, r.val))
BulkUpdateFrom(T, i, ring, ks, del, vals) ==
  IF i > Len(ks) THEN [dict |-> T, vals |-> vals]
  ELSE After(BulkUpdateOne(T, ring[Turn(i)], ks[i], 1, del), i + 1, Ring(ring, ks, i), ks, del, vals)

BulkUpdate(T, ks, del) == BulkUpdateFrom(T, 1, FirstHashes(ks), ks, del, <<>>)

(***************************************************************************)
(* The calls.                                                              *)
(***************************************************************************)
WithinBound(T) == SizeOf(T.data) <= MaxBuckets

Init == t = NewDict /\ answer = Silent

\* _get
Get(k) ==
  /\ answer' = Said("find", k, Found(t, k) # {}, {t.data[b].val : b \in Found(t, k)})
  /\ UNCHANGED t

\* _set_at
Set(k, v) ==
  LET T == SetAt(t, [key |-> k, val |-> v])
  IN  /\ WithinBound(T)
      /\ t' = T
      /\ answer' = Said("assign", k, TRUE, {v})

\* _safe_get
SafeGet(k) ==
  LET T == IF Found(t, k) # {} THEN t ELSE Inserted(t, [key |-> k, val |-> InitialValue])
  IN  /\ WithinBound(T)
      /\ t' = T
      /\ answer' = Said("insert", k, Found(t, k) # {}, {})

\* _erase
Erase(k) ==
  /\ answer' = Said("erase", k, Found(t, k) # {}, {})
  /\ \/ \E b \in Found(t, k) : t' = Erased(t, b)
     \/ Found(t, k) = {} /\ UNCHANGED t

\* _reset, which leaves the buckets of a dictionary without entries
Reset ==
  /\ t' = IF t.count = 0 THEN t ELSE NewDict
  /\ answer' = [op |-> "clear"]

RECURSIVE RoundPow2(_, _)
RoundPow2(n, least) == IF n >= least THEN n ELSE RoundPow2(2 * n, least)

\* _reserve, which leaves the lower limit as it was, and of 0, which copies the
\* entries to a new dictionary
Reserve(c) ==
  LET n == RoundPow2(1, 1 + (c * 10) \div 7)
      T == IF c = 0 THEN SetAll(NewDict, UsedFrom(t.data, 0))
           ELSE IF n > SizeOf(t.data) THEN [Resize(t, n) EXCEPT !.upper = UpperLimit(n)]
           ELSE t
  IN  /\ n <= MaxBuckets
      /\ t' = T
      /\ answer' = Silent

Next ==
  \/ \E k \in Key : Get(k) \/ SafeGet(k) \/ Erase(k)
  \/ \E k \in Key : \E v \in Stored[k] : Set(k, v)
  \/ \E c \in Requested \cup {0} : Reserve(c)
  \/ Reset

Spec == Init /\ [][Next]_vars

(***************************************************************************)
(* What is checked.                                                        *)
(***************************************************************************)
Used(T) == {b \in DOMAIN T.data : IsUsed(T.data[b])}

\* The probe for a key ends there, whatever was deleted on its way and wherever
\* the rehash in place has moved it; the counts are those of the buckets and
\* leave one empty for the probe of a key that is absent.
KeysAreReached(T) ==
  /\ \A b \in Used(T) : Found(T, T.data[b].key) = {b}
  /\ T.count = Cardinality(Used(T))
  /\ T.count_delete = Cardinality({b \in DOMAIN T.data : T.data[b] # EMPTY})
  /\ T.count_delete < T.upper /\ T.upper < SizeOf(T.data)

\* What _bulk_update stands for: one key after the other.
OneUpdate(T, k, del) ==
  IF Found(T, k) = {} THEN [dict |-> Inserted(T, [key |-> k, val |-> 1]), val |-> 1]
  ELSE Update(del, T, CHOOSE b \in Found(T, k) : TRUE, 1)

RECURSIVE OneByOne(_, _, _, _, _), Behind(_, _, _, _, _)
Behind(r, i, ks, del, vals) == OneByOne(r.dict, i, ks, del, Append(vals, r.val))
OneByOne(T, i, ks, del, vals) ==
  IF i > Len(ks) THEN [dict |-> T, vals |-> vals]
  ELSE Behind(OneUpdate(T, ks[i], del), i + 1, ks, del, vals)

\* A bulk call is the calls for its keys in turn, although their hashes are
\* taken before the dictionary grew or shrank under the keys before them.
BulkIsOneByOne ==
  \A ks \in Batches, del \in BOOLEAN : BulkUpdate(t, ks, del) = OneByOne(t, 1, ks, del, <<>>)

TableIsSound == KeysAreReached(t) /\ BulkIsOneByOne

Bindings == {t.data[b] : b \in Used(t)}
=============================================================================
