----------------------------- MODULE RobinHood ------------------------------
(***************************************************************************)
(* robin_hood::unordered_map (robin_hood/robin_hood.h): linear probing     *)
(* with elements ordered by their distance from home.  A byte per slot     *)
(* holds the distance, counted from one in units of mInfoInc, and below it *)
(* some bits of the hash.  There is no wrapping round: a buffer follows    *)
(* the last home.  When a distance comes near the end of the byte, bits of *)
(* the hash give way, and when none is left the table is rehashed.         *)
(* A call is one step.  Calls that end in an exception are left out.       *)
(***************************************************************************)
EXTENDS Integers, Sequences, FiniteSets

CONSTANTS
  Key, Null,
  Stored,      \* the values clients give each key
  Hash,        \* Hash[m][k]: the hash of k with the m-th mHashMultiplier, m > 0
  InfoBits,    \* InitialInfoNumBits (5)
  InfoMax,     \* the largest info byte (0xFF)
  InitialSize, \* InitialNumElements (8)
  MaxLoad,     \* MaxLoadFactor100 (80)
  Reserved,    \* what a client passes to reserve
  MaxSize      \* bound: no table with more homes

VARIABLES
  t,           \* the table
  answer       \* what the last call said

vars == <<t, answer>>

Said(op, k, found, vals) == [op |-> op, key |-> k, found |-> found, vals |-> vals]
Silent == [op |-> "none"]

InitialInc == 2 ^ InfoBits

(***************************************************************************)
(* The table: homes 0..size-1, room for a buffer after them, and at        *)
(* info[room] the sentinel.  threw and spilled are set when a rehash finds *)
(* no way to store a distance, and when an element lands behind the room.  *)
(***************************************************************************)
AtMost(a, b) == IF a <= b THEN a ELSE b
Allowed(n) == (n * MaxLoad) \div 100
Room(n) == n + AtMost(Allowed(n), InfoMax)

\* no data allocated yet: mMask is 0
NoData == [size |-> 1, kv |-> <<>>, info |-> <<>>, num |-> 0, max |-> 0,
           inc |-> InitialInc, mult |-> 0, threw |-> FALSE, spilled |-> FALSE]

\* initData
InitData(T, n) ==
  [T EXCEPT !.size = n, !.num = 0, !.max = Allowed(n), !.inc = InitialInc,
            !.kv = [i \in 0..(Room(n) - 1) |-> Null],
            !.info = [i \in 0..Room(n) |-> IF i = Room(n) THEN 1 ELSE 0]]

\* mInfo, with the zeros that pad it
InfoAt(T, i) == IF i \in DOMAIN T.info THEN T.info[i] ELSE 0

(***************************************************************************)
(* keyToIdx, and the r-th step from there.                                 *)
(***************************************************************************)
HashOf(T, k) == Hash[T.mult + 1][k]
Home(T, k) == (HashOf(T, k) \div InitialInc) % T.size
InfoOf(T, k, r) == T.inc * (r + 1) + (HashOf(T, k) % InitialInc) \div (InitialInc \div T.inc)

Steps(T) == 0..(Room(T.size) + 1)

Least(S) == CHOOSE q \in S : \A s \in S : q <= s

\* nextWhileLess: the steps at which it has stopped; the padding ends the loop
NotLess(T, k) == {q \in Steps(T) : InfoOf(T, k, q) >= InfoAt(T, Home(T, k) + q)}
More(T, k) == {q \in Steps(T) : InfoOf(T, k, q) > InfoAt(T, Home(T, k) + q)}

Matches(T, k, r) ==
  LET i == Home(T, k) + r
  IN  i \in DOMAIN T.kv /\ T.info[i] = InfoOf(T, k, r) /\ T.kv[i].key = k

\* findIdx looks at two slots before it asks whether to go on, erase at one
Found(T, k, stride) ==
  {Home(T, k) + r : r \in {q \in Steps(T) :
     /\ Matches(T, k, q)
     /\ \A s \in 1..q : s % stride = 0 => InfoOf(T, k, s) <= InfoAt(T, Home(T, k) + s)}}

(***************************************************************************)
(* Moving elements.                                                        *)
(***************************************************************************)
\* A distance this near the end of the byte must be made room for before the
\* next insertion.
Overflows_Late(T, info) == info > InfoMax

Overflows(T, info) == info + T.inc > InfoMax

Empties(T, i) == {j \in DOMAIN T.kv : j >= i /\ T.info[j] = 0}
MovedInfo(T, j) == (T.info[j - 1] + T.inc) % (InfoMax + 1)

\* shiftUp and the element itself: the slots from i up to the empty one e move
\* by one
PlaceUpTo(T, kv, i, info, e) ==
  [T EXCEPT
    !.kv = [j \in DOMAIN @ |-> IF j = i THEN kv
                               ELSE IF j \in (i+1)..e THEN @[j-1] ELSE @[j]],
    !.info = [j \in DOMAIN @ |-> IF j = i THEN info % (InfoMax + 1)
                                 ELSE IF j \in (i+1)..e THEN MovedInfo(T, j) ELSE @[j]],
    !.max = IF \E n \in {info} \cup {MovedInfo(T, j) : j \in (i+1)..e} : Overflows(T, n)
            THEN 0 ELSE @,
    !.num = @ + 1]

PlaceAt(T, kv, i, info) ==
  IF Empties(T, i) = {} THEN [T EXCEPT !.spilled = TRUE]
  ELSE PlaceUpTo(T, kv, i, info, Least(Empties(T, i)))

\* shiftDown: up to the next element that is at home, or an empty slot
ShiftDown(T, i) ==
  LET e == Least({j \in DOMAIN T.kv : j >= i /\ T.info[j + 1] < 2 * T.inc})
  IN  [T EXCEPT
        !.kv = [j \in DOMAIN @ |-> IF j = e THEN Null
                                   ELSE IF j \in i..(e-1) THEN @[j+1] ELSE @[j]],
        !.info = [j \in DOMAIN @ |-> IF j = e THEN 0
                                     ELSE IF j \in i..(e-1) THEN @[j+1] - T.inc ELSE @[j]],
        !.num = @ - 1]

\* try_increase_info: one bit of the hash less in every info byte
CanIncreaseInfo(T) == T.inc > 2

IncreaseInfo(T) ==
  [T EXCEPT !.inc = @ \div 2, !.max = Allowed(T.size),
            !.info = [i \in DOMAIN @ |-> IF i = Room(T.size) THEN 1 ELSE @[i] \div 2]]

\* insert_move of an element that is not there; a rehash that can neither
\* store the distance nor give up a bit of the hash throws
MovedIn(T, kv, r) == PlaceAt(T, kv, Home(T, kv.key) + r, InfoOf(T, kv.key, r))

InsertMove(T, kv) ==
  LET U == IF T.max = 0 /\ CanIncreaseInfo(T) THEN IncreaseInfo(T) ELSE T
  IN  IF T.threw \/ U.max = 0 THEN [T EXCEPT !.threw = TRUE]
      ELSE MovedIn(U, kv, Least(More(U, kv.key)))

RECURSIVE MoveAll(_, _, _)
MoveAll(old, i, T) ==
  IF i \notin DOMAIN old THEN T
  ELSE MoveAll(old, i + 1, IF old[i] = Null THEN T ELSE InsertMove(T, old[i]))

\* rehashPowerOfTwo
Rehash(T, n) == MoveAll(T.kv, 0, InitData(T, n))

\* increase_size: allocate, or spend a bit of the hash, or change the hash of
\* a table that is not half full, or double
IncreaseSize(T) ==
  IF T.size = 1 THEN InitData(T, InitialSize)
  ELSE IF T.num < Allowed(T.size) /\ CanIncreaseInfo(T) THEN IncreaseInfo(T)
  ELSE IF T.num * 2 < Allowed(T.size)
    THEN Rehash([T EXCEPT !.mult = (@ + 1) % Len(Hash)], T.size)
  ELSE Rehash(T, 2 * T.size)

\* the size that reserve and compact look for
RECURSIVE SizeFor(_, _)
SizeFor(n, elements) == IF Allowed(n) >= elements THEN n ELSE SizeFor(2 * n, elements)

(***************************************************************************)
(* insertKeyPrepareEmptySpot: the slot of the key, or one made for it.     *)
(***************************************************************************)
WithinBound(T) == T.size <= MaxSize /\ ~T.threw

SameInfo(T, k, q) == InfoOf(T, k, q) = InfoAt(T, Home(T, k) + q)

\* the slot of the key, as a set: the info bytes are the key's from a step on
Same(T, k, first) ==
  {Home(T, k) + r : r \in {q \in Steps(T) :
     q >= first /\ Matches(T, k, q) /\ \A s \in first..q : SameInfo(T, k, s)}}

PastSame(T, k, first) == Least({q \in Steps(T) : q >= first /\ ~SameInfo(T, k, q)})

NewSpot(T, k, r) ==
  [table |-> MovedIn(T, [key |-> k, val |-> Null], r), at |-> Home(T, k) + r, found |-> FALSE]

RECURSIVE Prepared(_, _), PreparedFrom(_, _, _)
PreparedFrom(T, k, first) ==
  IF Same(T, k, first) # {}
    THEN [table |-> T, at |-> CHOOSE i \in Same(T, k, first) : TRUE, found |-> TRUE]
  ELSE IF T.num >= T.max THEN Prepared(IncreaseSize(T), k)
  ELSE NewSpot(T, k, PastSame(T, k, first))

Prepared(T, k) ==
  IF ~WithinBound(T) THEN [table |-> T, at |-> Null, found |-> FALSE]
  ELSE PreparedFrom(T, k, Least(NotLess(T, k)))

(***************************************************************************)
(* The calls.                                                              *)
(***************************************************************************)
Init == t = NoData /\ answer = Silent

\* find
Find(k) ==
  /\ answer' = Said("find", k, Found(t, k, 2) # {}, {t.kv[i].val : i \in Found(t, k, 2)})
  /\ UNCHANGED t

WithValue(p, v) == IF p.at \in DOMAIN p.table.kv THEN [p.table EXCEPT !.kv[p.at].val = v]
                   ELSE p.table

\* try_emplace
Emplace(k, v) ==
  \E p \in {Prepared(t, k)} :
    /\ WithinBound(p.table)
    /\ t' = IF p.found THEN p.table ELSE WithValue(p, v)
    /\ answer' = Said("insert", k, p.found, {})

\* insert_or_assign, and an assignment to operator[]
Assign(k, v) ==
  \E p \in {Prepared(t, k)} :
    /\ WithinBound(p.table)
    /\ t' = WithValue(p, v)
    /\ answer' = Said("assign", k, TRUE, {v})

\* erase of a key
Erase(k) ==
  /\ answer' = Said("erase", k, Found(t, k, 1) # {}, {})
  /\ \/ \E i \in Found(t, k, 1) : t' = ShiftDown(t, i)
     \/ Found(t, k, 1) = {} /\ UNCHANGED t

\* erase of what find returned
EraseFound(k) ==
  \E i \in Found(t, k, 2) :
    /\ t' = ShiftDown(t, i)
    /\ answer' = Said("erase", k, TRUE, {})

\* clear; the limit stays at 0 where the last insertion put it there
Clear ==
  /\ answer' = [op |-> "clear"]
  /\ t' = IF t.num = 0 THEN t ELSE [InitData(t, t.size) EXCEPT !.max = t.max]

Resized(T) == WithinBound(T) /\ t' = T /\ answer' = Silent

\* reserve and rehash, which differ in whether a table stays as large as it is
Reserve(c, force) ==
  \E n \in {SizeFor(InitialSize, IF c > t.num THEN c ELSE t.num)} :
    Resized(IF force \/ n > t.size THEN Rehash(t, n) ELSE t)

\* compact
Compact ==
  \E n \in {SizeFor(InitialSize, t.num)} : Resized(IF n < t.size THEN Rehash(t, n) ELSE t)

Next ==
  \/ \E k \in Key : Find(k) \/ Erase(k) \/ EraseFound(k)
  \/ \E k \in Key : \E v \in Stored[k] : Emplace(k, v) \/ Assign(k, v)
  \/ \E c \in Reserved, force \in BOOLEAN : Reserve(c, force)
  \/ Compact
  \/ Clear

Spec == Init /\ [][Next]_vars

(***************************************************************************)
(* What is checked.                                                        *)
(***************************************************************************)
Taken(T) == {i \in DOMAIN T.kv : T.kv[i] # Null}

\* The info byte of a slot is the distance of its element and the bits of its
\* hash, never one that has wrapped round, and zero where there is none.
InfoIsDistance(T) ==
  /\ \A i \in DOMAIN T.kv \ Taken(T) : T.info[i] = 0
  /\ \A i \in Taken(T) :
       LET k == T.kv[i].key
       IN  i >= Home(T, k) /\ T.info[i] = InfoOf(T, k, i - Home(T, k))

\* No slot between an element and its home is empty or holds an element that
\* is nearer to its own home.
RichNeverBlockPoor(T) ==
  \A i \in Taken(T) : i > Home(T, T.kv[i].key) => T.info[i - 1] + T.inc >= T.info[i]

\* Unless the limit is 0 the next element fits: no distance is so near the
\* end of the byte that it could wrap round, and nothing lay behind the room.
LimitIsHonest(T) ==
  /\ ~T.spilled
  /\ T.max # 0 => \A i \in Taken(T) : ~Overflows(T, T.info[i])
  /\ T.num = Cardinality(Taken(T))
  /\ T.num <= Allowed(T.size)

TableIsSound == InfoIsDistance(t) /\ RichNeverBlockPoor(t) /\ LimitIsHonest(t)

Bindings == {t.kv[i] : i \in Taken(t)}
=============================================================================
