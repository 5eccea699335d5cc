----------------------------- MODULE KhashpProof -----------------------------
(***************************************************************************)
(* The tables of Khashp are sound, own their strings and are maps: for     *)
(* keys, hash functions, word sizes and capacities of any kind.            *)
(***************************************************************************)
EXTENDS KhashpProps, Iteration, FiniteSetTheorems

-----------------------------------------------------------------------------
(***************************************************************************)
(* Probing.                                                                *)
(***************************************************************************)
\* A capacity is a number, and positive.
LEMMA CapacityIs == \A cap \in Capacity : cap \in Nat /\ cap > 0 /\ cap >= 4
BY CapacityAssumption

\* A probe that ends at the nearest bucket of S has passed over none of S.
LEMMA NearestIs ==
  ASSUME NEW n \in Nat, NEW S \in SUBSET Buckets(n), S # {}, NEW from \in Buckets(n)
  PROVE  /\ Nearest(S, from, n) \in S
         /\ Path(from, Nearest(S, from, n), n) \cap S = {}
<1> DEFINE T == {Dist(from, x, n) : x \in S}
<1>1. T \in SUBSET Nat /\ T # {}
  BY DistInjective
<1>2. PICK d \in T : \A e \in T : d <= e
  BY <1>1, LeastNatural
<1>3. PICK x \in S : \A y \in S : Dist(from, x, n) <= Dist(from, y, n)
  BY <1>2
<1>4. /\ Nearest(S, from, n) \in S
      /\ \A y \in S : Dist(from, Nearest(S, from, n), n) <= Dist(from, y, n)
  BY <1>3 DEF Nearest
<1>5. \A y \in S : Dist(from, y, n) \in Nat
  BY DistInjective
<1> QED
  BY <1>4, <1>5 DEF Path

\* There are as many buckets as the capacity says.
LEMMA BucketsAreFinite ==
  ASSUME NEW n \in Nat
  PROVE  IsFiniteSet(Buckets(n)) /\ Cardinality(Buckets(n)) = n
<1>1. 0 \in Int /\ n - 1 \in Int
  OBVIOUS
<1>2. /\ IsFiniteSet(0..(n - 1))
      /\ Cardinality(0..(n - 1)) = IF 0 > n - 1 THEN 0 ELSE (n - 1) - 0 + 1
  BY ONLY <1>1, FS_Interval
<1> QED
  BY <1>2 DEF Buckets

\* Fewer flags than buckets leave a flag clear.
LEMMA SomeBucketIsLeft ==
  ASSUME NEW n \in Nat, NEW S \in SUBSET Buckets(n), Cardinality(S) < n
  PROVE  Buckets(n) \ S # {}
<1>1. IsFiniteSet(Buckets(n)) /\ Cardinality(Buckets(n)) = n
  BY BucketsAreFinite
<1>2. CASE Buckets(n) \subseteq S
  <2>1. S = Buckets(n)
    BY <1>2
  <2> QED
    BY <1>1, <2>1
<1> QED
  BY <1>2

\* A set of buckets is finite.
LEMMA FlagsAreFinite ==
  ASSUME NEW n \in Nat, NEW S \in SUBSET Buckets(n)
  PROVE  IsFiniteSet(S) /\ Cardinality(S) \in Nat
BY BucketsAreFinite, FS_Subset, FS_CardinalityType

-----------------------------------------------------------------------------
(***************************************************************************)
(* A table T whose addresses lead into heap m.                             *)
(***************************************************************************)
\* What a bucket in use holds: a key, or an address where there is one.
Stored(m, e) ==
  /\ e \in Element
  /\ KeyAt(m, e) \in Key
  /\ IF kind = "dup" THEN e.key \in Addr ELSE e.key \in Key

Sound(T, m) ==
  /\ T = [cap |-> T.cap, b |-> T.b, used |-> T.used, count |-> T.count]
  /\ T.cap \in Capacity \cup {0}
  /\ T.used \subseteq Buckets(T.cap)
  /\ T.b \in [Buckets(T.cap) -> Element \cup {NoBucket}]
  /\ \A x \in T.used : Stored(m, T.b[x])
  /\ \A x, y \in T.used : KeyAt(m, T.b[x]) = KeyAt(m, T.b[y]) => x = y
  /\ \A x \in T.used : Path(HomeOf(m, T.b[x], T.cap), x, T.cap) \subseteq T.used
  /\ T.count = Cardinality(T.used)
  /\ T.count <= MaxCount(T.cap)

\* What is in a table.
Contents(T) == {T.b[x] : x \in T.used}

\* The rest of the state.
CallIsSound ==
  /\ kind \in {"generic", "string", "dup"}
  /\ strings \in [Addr -> Key \cup {Freed}]
  /\ memory \subseteq {"table", "buckets", "flags"}
  /\ pc \in {"ready", "destroyed", "crashed"}
  /\ op \in {"none", "get", "put", "del", "resize", "clear", "destroy"}
  /\ arg \in Key \cup {NoKey}
  /\ pos \in Nat /\ absent \in {-1, 0, 1}
  /\ AnswerIsRight
  /\ DestroyKeepsFlagsOnly

\* These are what the runs check.
LEMMA SoundIs ==
  Sound(h, strings) /\ CallIsSound <=> TableIsSound /\ BucketsOwnCopies
<1>1. ASSUME TableIsSound, BucketsOwnCopies PROVE Sound(h, strings) /\ CallIsSound
  <2> USE DEF TableIsSound
  <2>1. CallIsSound
    BY <1>1 DEF TypeOK, CallIsSound
  <2>2. ASSUME NEW x \in h.used PROVE Stored(strings, h.b[x])
    <3>1. h.b[x] \in Element
      BY <1>1 DEF KeysAreUnique
    <3>2. CASE kind = "dup"
      <4>1. h.b[x].key \in Addr /\ strings[h.b[x].key] # Freed
        BY <1>1, <3>2 DEF BucketsOwnCopies
      <4>2. strings[h.b[x].key] \in Key
        BY <1>1, <4>1 DEF TypeOK
      <4> QED
        BY <3>1, <3>2, <4>1, <4>2 DEF Stored, KeyAt
    <3>3. CASE kind # "dup"
      <4>1. h.b[x].key \in Key /\ h.b[x].key \notin Addr
        BY <1>1, <3>3, ElementAssumption DEF KeysAreUnique
      <4> QED
        BY <3>1, <3>3, <4>1 DEF Stored, KeyAt
    <3> QED
      BY <3>2, <3>3
  <2>3. Sound(h, strings)
    BY <1>1, <2>2 DEF TypeOK, ProbeInvariant, CountIsElements, KeysAreUnique, Sound
  <2> QED
    BY <2>1, <2>3
<1>2. ASSUME Sound(h, strings), CallIsSound PROVE TableIsSound /\ BucketsOwnCopies
  <2>1. h.count \in Nat
    <3>1. h.cap \in Nat
      BY <1>2, CapacityIs DEF Sound
    <3> QED
      BY <1>2, <3>1, FlagsAreFinite DEF Sound
  <2>2. TypeOK
    BY <1>2, <2>1 DEF Sound, CallIsSound, TypeOK
  <2>3. KeysAreUnique
    BY <1>2 DEF Sound, KeysAreUnique, Stored
  <2>4. BucketsOwnCopies
    <3> SUFFICES ASSUME kind = "dup", NEW x \in h.used
                 PROVE  /\ h.b[x].key \in Addr
                        /\ strings[h.b[x].key] # Freed
                        /\ \A y \in h.used : h.b[x].key = h.b[y].key => x = y
      BY DEF BucketsOwnCopies
    <3>1. \A y \in h.used : h.b[y].key \in Addr /\ KeyAt(strings, h.b[y]) \in Key
      BY <1>2 DEF Sound, Stored
    <3>2. \A y \in h.used : KeyAt(strings, h.b[y]) = strings[h.b[y].key]
      BY <3>1 DEF KeyAt
    <3>3. strings[h.b[x].key] # Freed
      BY <3>1, <3>2, ElementAssumption
    <3>4. \A y \in h.used : h.b[x].key = h.b[y].key => x = y
      BY <1>2, <3>2 DEF Sound
    <3> QED
      BY <3>1, <3>3, <3>4
  <2>5. ProbeInvariant /\ CountIsElements
    BY <1>2 DEF Sound, ProbeInvariant, CountIsElements
  <2> QED
    BY <1>2, <2>2, <2>3, <2>4, <2>5 DEF TableIsSound, CallIsSound
<1> QED
  BY <1>1, <1>2

\* The sizes are numbers, and a table of any size has a clear flag left.
LEMMA TableFacts ==
  ASSUME NEW T, NEW m, Sound(T, m)
  PROVE  /\ T.cap \in Nat /\ T.count \in Nat
         /\ IsFiniteSet(T.used) /\ Cardinality(T.used) \in Nat
         /\ MaxCount(T.cap) \in Nat
         /\ T.cap # 0 => T.cap \in Capacity /\ T.cap > 0 /\ T.count < T.cap /\ Buckets(T.cap) \ T.used # {}
<1>1. T.cap \in Nat
  BY CapacityIs DEF Sound
<1>2. IsFiniteSet(T.used) /\ Cardinality(T.used) \in Nat /\ T.count \in Nat
  BY <1>1, FlagsAreFinite DEF Sound
<1>3. MaxCount(T.cap) \in Nat
  BY <1>1, MaxCountType
<1>4. CASE T.cap # 0
  <2>1. T.cap \in Capacity /\ T.cap > 0
    BY <1>1, <1>4 DEF Sound
  <2>2. T.count < T.cap
    BY <1>2, <2>1, MaxCountBelow DEF Sound
  <2>3. Buckets(T.cap) \ T.used # {}
    BY <1>1, <2>2, SomeBucketIsLeft DEF Sound
  <2> QED
    BY <1>1, <1>2, <1>3, <2>1, <2>2, <2>3
<1> QED
  BY <1>1, <1>2, <1>3, <1>4

\* The heap may change where the table has no address.
LEMMA HeapMayChange ==
  ASSUME NEW T, NEW m, NEW mm, Sound(T, m),
         \A x \in T.used : Stored(mm, T.b[x]) /\ KeyAt(mm, T.b[x]) = KeyAt(m, T.b[x])
  PROVE  Sound(T, mm)
BY DEF Sound, HomeOf

-----------------------------------------------------------------------------
(***************************************************************************)
(* khp_put.                                                                *)
(***************************************************************************)
\* The probe ends at the key's element, or where it belongs: then it is nowhere.
LEMMA PutIndexIs ==
  ASSUME NEW T, Sound(T, strings), T.cap # 0, NEW k \in Key
  PROVE  /\ PutIndex(T, k) \in Buckets(T.cap)
         /\ PutIndex(T, k) \in T.used => KeyAt(strings, T.b[PutIndex(T, k)]) = k
         /\ PutIndex(T, k) \notin T.used =>
              /\ Path(Home(k, T.cap), PutIndex(T, k), T.cap) \subseteq T.used
              /\ \A x \in T.used : KeyAt(strings, T.b[x]) # k
<1> DEFINE stops == {x \in Buckets(T.cap) : x \notin T.used \/ KeyAt(strings, T.b[x]) = k}
           s == Nearest(stops, Home(k, T.cap), T.cap)
<1>1. T.cap \in Nat /\ T.cap > 0 /\ Buckets(T.cap) \ T.used # {}
  BY TableFacts
<1>2. Home(k, T.cap) \in Buckets(T.cap)
  BY <1>1, HomeInBuckets
<1>3. stops # {} /\ stops \in SUBSET Buckets(T.cap)
  BY <1>1
<1>4. \A x \in Buckets(T.cap) : x \in stops <=> x \notin T.used \/ KeyAt(strings, T.b[x]) = k
  OBVIOUS
<1>5. PutIndex(T, k) = s
  BY <1>3 DEF PutIndex
<1> HIDE DEF stops
<1>6. s \in stops /\ Path(Home(k, T.cap), s, T.cap) \cap stops = {}
  BY <1>1, <1>2, <1>3, NearestIs
<1> HIDE DEF s
<1>7. Path(Home(k, T.cap), s, T.cap) \subseteq Buckets(T.cap)
  BY DEF Path
<1>8. Path(Home(k, T.cap), s, T.cap) \subseteq T.used
  BY <1>4, <1>6, <1>7
<1>9. ASSUME s \notin T.used, NEW x \in T.used, KeyAt(strings, T.b[x]) = k PROVE FALSE
  <2>1. x \in stops /\ x \in Buckets(T.cap) /\ s \in Buckets(T.cap) /\ x # s
    BY <1>3, <1>4, <1>6, <1>9 DEF Sound
  <2>2. x \in Path(Home(k, T.cap), s, T.cap) \/ s \in Path(Home(k, T.cap), x, T.cap)
    BY <1>1, <1>2, <2>1, PathTotal
  <2>3. Path(Home(k, T.cap), x, T.cap) \subseteq T.used
    BY <1>9 DEF Sound, HomeOf
  <2> QED
    BY <1>6, <1>9, <2>1, <2>2, <2>3
<1> QED
  BY <1>3, <1>4, <1>5, <1>6, <1>8, <1>9

\* An element put where its probe ends leaves the table sound.
LEMMA InsertKeepsSound ==
  ASSUME NEW T, NEW m, Sound(T, m), T.cap # 0, T.count < MaxCount(T.cap),
         NEW s \in Buckets(T.cap), s \notin T.used, NEW e, Stored(m, e),
         Path(HomeOf(m, e, T.cap), s, T.cap) \subseteq T.used,
         \A x \in T.used : KeyAt(m, T.b[x]) # KeyAt(m, e),
         NEW U, U = [cap |-> T.cap, b |-> [T.b EXCEPT ![s] = e], used |-> T.used \cup {s},
                     count |-> T.count + 1]
  PROVE  Sound(U, m) /\ Contents(U) = Contents(T) \cup {e}
<1>1. /\ T.cap \in Nat /\ T.count \in Nat /\ IsFiniteSet(T.used) /\ MaxCount(T.cap) \in Nat
      /\ T.used \subseteq Buckets(T.cap) /\ T.b \in [Buckets(T.cap) -> Element \cup {NoBucket}]
      /\ T.cap \in Capacity
  BY TableFacts DEF Sound
<1>2. e \in Element
  BY DEF Stored
<1>3. U.b \in [Buckets(T.cap) -> Element \cup {NoBucket}]
  BY <1>1, <1>2
<1>4. U.b[s] = e /\ \A x \in T.used : U.b[x] = T.b[x] /\ x # s
  BY <1>1
<1>5. U.cap = T.cap /\ U.used = T.used \cup {s} /\ U.count = T.count + 1
  OBVIOUS
<1>6. \A x \in U.used : Stored(m, U.b[x])
  BY <1>4, <1>5 DEF Sound
<1>7. \A x, y \in U.used : KeyAt(m, U.b[x]) = KeyAt(m, U.b[y]) => x = y
  BY <1>4, <1>5 DEF Sound
<1>8. \A x \in U.used : Path(HomeOf(m, U.b[x], U.cap), x, U.cap) \subseteq U.used
  BY <1>4, <1>5 DEF Sound
<1>9. U.count = Cardinality(U.used) /\ U.count <= MaxCount(U.cap)
  <2>1. Cardinality(U.used) = Cardinality(T.used) + 1
    BY <1>1, <1>5, FS_AddElement
  <2> QED
    BY <1>1, <1>5, <2>1 DEF Sound
<1>10. Sound(U, m)
  BY <1>1, <1>3, <1>5, <1>6, <1>7, <1>8, <1>9 DEF Sound
<1>11. Contents(U) = Contents(T) \cup {e}
  BY <1>4, <1>5 DEF Contents
<1> QED
  BY <1>10, <1>11

-----------------------------------------------------------------------------
(***************************************************************************)
(* khp_resize.                                                             *)
(***************************************************************************)
\* The capacity the bucket array has while elements move.
Wide(cap) == IF h.cap < cap THEN cap ELSE h.cap

Frame(cap) ==
  [b : [Buckets(Wide(cap)) -> Element \cup {NoBucket}], old : SUBSET Buckets(h.cap),
   new : SUBSET Buckets(cap), j : 0..h.cap, hand : BOOLEAN, swap : BOOLEAN]

\* Where the elements are: one may be in hand, and is then still in bucket j.
Held(g) == g.old \cup g.new \cup (IF g.hand THEN {g.j} ELSE {})

\* Every element is in one bucket of Held, those with a new flag are where their
\* probe ends, and those before bucket j have left their old one.
Moving(g, cap) ==
  /\ g.old \cap g.new = {}
  /\ g.hand => g.j < h.cap /\ g.j \notin g.old /\ g.j \notin g.new
  /\ \A x \in g.old : x >= g.j
  /\ {g.b[x] : x \in Held(g)} = Contents(h)
  /\ \A x, y \in Held(g) : KeyAt(strings, g.b[x]) = KeyAt(strings, g.b[y]) => x = y
  /\ \A x \in g.new : Path(HomeOf(strings, g.b[x], cap), x, cap) \subseteq g.new
  /\ IsFiniteSet(Held(g)) /\ Cardinality(Held(g)) = h.count

Frames(cap) == {g \in Frame(cap) : Moving(g, cap)}

\* The turns still to come.
Left(g) == (h.cap - g.j) + Cardinality(g.old)

Fits(cap) == Sound(h, strings) /\ cap \in Capacity /\ h.count <= MaxCount(cap)

LEMMA FitsFacts ==
  ASSUME NEW cap, Fits(cap)
  PROVE  /\ cap \in Nat /\ cap > 0 /\ h.cap \in Nat /\ Wide(cap) \in Nat
         /\ h.cap <= Wide(cap) /\ cap <= Wide(cap)
         /\ Buckets(h.cap) \subseteq Buckets(Wide(cap)) /\ Buckets(cap) \subseteq Buckets(Wide(cap))
         /\ h.count \in Nat /\ h.count < cap
<1>1. cap \in Nat /\ cap > 0 /\ h.cap \in Nat /\ h.count \in Nat
  BY CapacityIs, TableFacts DEF Fits
<1>2. h.count < cap
  BY <1>1, MaxCountBelow DEF Fits
<1> QED
  BY <1>1, <1>2 DEF Wide, Buckets

\* Before the first turn every element is in its old bucket.
LEMMA MovingBegins ==
  ASSUME NEW cap, Fits(cap)
  PROVE  [b |-> IF h.cap < cap THEN Realloc(h.b, cap) ELSE h.b,
          old |-> h.used, new |-> {}, j |-> 0, hand |-> FALSE, swap |-> FALSE] \in Frames(cap)
<1> DEFINE b == IF h.cap < cap THEN Realloc(h.b, cap) ELSE h.b
           g == [b |-> b, old |-> h.used, new |-> {}, j |-> 0, hand |-> FALSE, swap |-> FALSE]
<1>1. h.b \in [Buckets(h.cap) -> Element \cup {NoBucket}] /\ h.used \subseteq Buckets(h.cap)
  BY DEF Fits, Sound
<1>2. b \in [Buckets(Wide(cap)) -> Element \cup {NoBucket}] /\ \A x \in h.used : b[x] = h.b[x]
  <2>1. CASE h.cap < cap
    <3>1. Wide(cap) = cap /\ b = [x \in Buckets(cap) |-> IF x \in Buckets(h.cap) THEN h.b[x] ELSE NoBucket]
      BY <1>1, <2>1 DEF Wide, Realloc
    <3>2. Buckets(h.cap) \subseteq Buckets(cap)
      BY <3>1, FitsFacts
    <3> QED
      BY <1>1, <3>1, <3>2
  <2>2. CASE ~ (h.cap < cap)
    BY <1>1, <2>2 DEF Wide
  <2> QED
    BY <2>1, <2>2
<1> HIDE DEF b
<1>3. g.b = b /\ g.old = h.used /\ g.new = {} /\ g.j = 0 /\ g.hand = FALSE /\ g.swap = FALSE
  OBVIOUS
<1>4. g \in Frame(cap)
  BY <1>1, <1>2, FitsFacts DEF Frame
<1> HIDE DEF g
<1>5. Held(g) = h.used
  BY <1>3 DEF Held
<1>6. {g.b[x] : x \in Held(g)} = Contents(h)
  BY <1>2, <1>3, <1>5 DEF Contents
<1>7. \A x, y \in Held(g) : KeyAt(strings, g.b[x]) = KeyAt(strings, g.b[y]) => x = y
  BY <1>2, <1>3, <1>5 DEF Fits, Sound
<1>8. IsFiniteSet(Held(g)) /\ Cardinality(Held(g)) = h.count
  BY <1>5, TableFacts DEF Fits, Sound
<1>9. \A x \in g.old : x >= g.j
  BY <1>1, <1>3, FitsFacts DEF Buckets
<1>10. Moving(g, cap)
  BY <1>3, <1>6, <1>7, <1>8, <1>9 DEF Moving
<1> QED
  BY <1>4, <1>10 DEF Frames, g, b

\* What a turn may use of the turn before.
LEMMA FrameFacts ==
  ASSUME NEW cap, Fits(cap), NEW g \in Frames(cap)
  PROVE  /\ g = [b |-> g.b, old |-> g.old, new |-> g.new, j |-> g.j,
                 hand |-> g.hand, swap |-> g.swap]
         /\ g.b \in [Buckets(Wide(cap)) -> Element \cup {NoBucket}]
         /\ g.old \subseteq Buckets(h.cap) /\ g.new \subseteq Buckets(cap)
         /\ g.j \in 0..h.cap /\ g.hand \in BOOLEAN /\ g.swap \in BOOLEAN
         /\ \A x \in Held(g) : Stored(strings, g.b[x])
         /\ IsFiniteSet(g.old) /\ Cardinality(g.old) \in Nat
         /\ Buckets(cap) \ g.new # {}
<1>1. g \in Frame(cap) /\ Moving(g, cap)
  BY DEF Frames
<1>2. /\ g = [b |-> g.b, old |-> g.old, new |-> g.new, j |-> g.j,
              hand |-> g.hand, swap |-> g.swap]
      /\ g.b \in [Buckets(Wide(cap)) -> Element \cup {NoBucket}]
      /\ g.old \subseteq Buckets(h.cap) /\ g.new \subseteq Buckets(cap)
      /\ g.j \in 0..h.cap /\ g.hand \in BOOLEAN /\ g.swap \in BOOLEAN
  BY <1>1 DEF Frame
<1>3. \A x \in Held(g) : Stored(strings, g.b[x])
  <2>1. \A e \in Contents(h) : Stored(strings, e)
    BY DEF Contents, Fits, Sound
  <2> QED
    BY <1>1, <2>1 DEF Moving
<1>4. IsFiniteSet(g.old) /\ Cardinality(g.old) \in Nat
  BY <1>2, FitsFacts, FlagsAreFinite
<1>5. Buckets(cap) \ g.new # {}
  <2>1. g.new \in SUBSET Held(g) /\ IsFiniteSet(Held(g)) /\ Cardinality(Held(g)) = h.count
    BY <1>1 DEF Held, Moving
  <2>2. Cardinality(g.new) <= h.count
    BY <2>1, FS_Subset
  <2>3. Cardinality(g.new) \in Nat
    BY <1>2, FitsFacts, FlagsAreFinite
  <2>4. Cardinality(g.new) < cap
    BY <2>2, <2>3, FitsFacts
  <2> QED
    BY <1>2, <2>4, FitsFacts, SomeBucketIsLeft
<1> QED
  BY <1>2, <1>3, <1>4, <1>5

\* The outer loop passes a bucket whose flag is clear.
LEMMA SkipTurn ==
  ASSUME NEW cap, Fits(cap), NEW g \in Frames(cap), g.j # h.cap, ~g.hand, g.j \notin g.old
  PROVE  Skip(g) \in Frames(cap) /\ Left(Skip(g)) = Left(g) - 1
<1> DEFINE n == Skip(g)
<1>1. /\ n = [b |-> g.b, old |-> g.old, new |-> g.new, j |-> g.j + 1, hand |-> g.hand, swap |-> g.swap]
      /\ g.j \in Nat /\ g.j + 1 \in 0..h.cap /\ Cardinality(g.old) \in Nat /\ h.cap \in Nat
  BY FrameFacts, FitsFacts DEF Skip
<1>2. n.b = g.b /\ n.old = g.old /\ n.new = g.new /\ n.j = g.j + 1 /\ n.hand = FALSE /\ n.swap = g.swap
  BY <1>1, FrameFacts
<1>3. n \in Frame(cap)
  BY <1>1, FrameFacts DEF Frame
<1> HIDE DEF n
<1>4. Held(n) = Held(g)
  BY <1>2, FrameFacts DEF Held
<1>5. \A x \in n.old : x >= n.j
  <2>1. \A x \in g.old : x >= g.j /\ x # g.j /\ x \in Nat
    BY FrameFacts, FitsFacts DEF Frames, Moving, Buckets
  <2> QED
    BY <1>1, <1>2, <2>1
<1>6. Moving(n, cap)
  BY <1>2, <1>4, <1>5 DEF Frames, Moving
<1>7. Left(n) = Left(g) - 1
  BY <1>1, <1>2 DEF Left
<1> QED
  BY <1>3, <1>6, <1>7 DEF Frames, n

\* It takes the element of bucket j in hand.
LEMMA TakeTurn ==
  ASSUME NEW cap, Fits(cap), NEW g \in Frames(cap), g.j # h.cap, ~g.hand, g.j \in g.old
  PROVE  Take(g) \in Frames(cap) /\ Left(Take(g)) = Left(g) - 1
<1> DEFINE n == Take(g)
<1>1. n = [g EXCEPT !.old = g.old \ {g.j}, !.hand = TRUE]
  BY DEF Take
<1> HIDE DEF n
<1>2. /\ n.b = g.b /\ n.old = g.old \ {g.j} /\ n.new = g.new /\ n.j = g.j
      /\ n.hand = TRUE /\ n.swap = g.swap
      /\ n \in Frame(cap)
  <2>1. g \in Frame(cap) /\ g.old \ {g.j} \in SUBSET Buckets(h.cap)
    BY FrameFacts DEF Frames
  <2>2. /\ g.b \in [Buckets(Wide(cap)) -> Element \cup {NoBucket}]
        /\ g.new \in SUBSET Buckets(cap) /\ g.j \in 0..h.cap
    BY FrameFacts
  <2> QED
    BY ONLY <1>1, <2>1, <2>2 DEF Frame
<1>3. n \in Frame(cap)
  BY <1>2
<1>4. Held(n) = Held(g)
  BY <1>2, FrameFacts DEF Held
<1>5. g.j < h.cap /\ g.j \in Nat /\ h.cap \in Nat
  BY FrameFacts, FitsFacts
<1>6. Moving(n, cap)
  BY <1>2, <1>4, <1>5 DEF Frames, Moving
<1>7. Left(n) = Left(g) - 1
  <2>1. Cardinality(n.old) = Cardinality(g.old) - 1 /\ Cardinality(g.old) \in Nat
    BY <1>2, FrameFacts, FS_RemoveElement
  <2> QED
    BY <1>2, <1>5, <2>1 DEF Left
<1> QED
  BY <1>3, <1>6, <1>7 DEF Frames, n

\* The element in hand belongs in the first bucket of its probe without a new flag.
LEMMA TargetIs ==
  ASSUME NEW cap, Fits(cap), NEW g \in Frames(cap), g.hand
  PROVE  /\ Target(g, cap) \in Buckets(cap) \ g.new
         /\ Path(HomeOf(strings, g.b[g.j], cap), Target(g, cap), cap) \subseteq g.new
<1> DEFINE S == Buckets(cap) \ g.new
<1>1. S # {} /\ S \in SUBSET Buckets(cap) /\ cap \in Nat /\ cap > 0
  BY FrameFacts, FitsFacts
<1>2. KeyAt(strings, g.b[g.j]) \in Key
  BY FrameFacts DEF Held, Stored
<1>3. HomeOf(strings, g.b[g.j], cap) \in Buckets(cap)
  BY <1>1, <1>2, HomeInBuckets DEF HomeOf
<1>4. /\ Target(g, cap) \in S
      /\ Path(HomeOf(strings, g.b[g.j], cap), Target(g, cap), cap) \cap S = {}
  <2>1. Target(g, cap) = Nearest(S, HomeOf(strings, g.b[g.j], cap), cap)
    BY DEF Target
  <2>2. \A from \in Buckets(cap) :
          Nearest(S, from, cap) \in S /\ Path(from, Nearest(S, from, cap), cap) \cap S = {}
    <3> HIDE DEF S
    <3> QED
      BY <1>1, NearestIs
  <2> HIDE DEF S
  <2> QED
    BY <1>3, <2>1, <2>2, Zenon
<1> QED
  BY <1>4 DEF Path

\* It is exchanged with the element that is still there,
LEMMA SwapTurn ==
  ASSUME NEW cap, Fits(cap), NEW g \in Frames(cap), g.j # h.cap, g.hand,
         Target(g, cap) \in g.old
  PROVE  Swap(g, Target(g, cap)) \in Frames(cap) /\ Left(Swap(g, Target(g, cap))) = Left(g) - 1
<1> DEFINE i == Target(g, cap)
<1>1. i \in Buckets(cap) /\ i \notin g.new /\ Path(HomeOf(strings, g.b[g.j], cap), i, cap) \subseteq g.new
  BY TargetIs
<1>a. i \in g.old
  OBVIOUS
<1> HIDE DEF i
<1> DEFINE n == Swap(g, i)
           b == [g.b EXCEPT ![i] = g.b[g.j], ![g.j] = g.b[i]]
<1>2. /\ g.j < h.cap /\ g.j \in Nat /\ h.cap \in Nat /\ g.j \notin g.old /\ g.j \notin g.new /\ i # g.j
      /\ g.j \in Buckets(Wide(cap)) /\ i \in Buckets(Wide(cap))
  BY <1>1, <1>a, FrameFacts, FitsFacts DEF Frames, Moving, Buckets
<1>3. /\ b \in [Buckets(Wide(cap)) -> Element \cup {NoBucket}]
      /\ b[i] = g.b[g.j] /\ b[g.j] = g.b[i]
      /\ \A x \in Buckets(Wide(cap)) : x # i /\ x # g.j => b[x] = g.b[x]
  BY <1>2, FrameFacts
<1>4. n = [g EXCEPT !.b = b, !.old = g.old \ {i}, !.new = g.new \cup {i}, !.swap = TRUE]
  BY DEF Swap
<1> HIDE DEF b, n
<1>5. /\ n.b = b /\ n.old = g.old \ {i} /\ n.new = g.new \cup {i} /\ n.j = g.j
      /\ n.hand = g.hand /\ n.swap = TRUE
      /\ n \in Frame(cap)
  <2>1. /\ g \in Frame(cap) /\ g.old \ {i} \in SUBSET Buckets(h.cap)
        /\ g.new \cup {i} \in SUBSET Buckets(cap) /\ g.j \in 0..h.cap
    BY <1>1, FrameFacts DEF Frames
  <2> QED
    BY ONLY <1>3, <1>4, <2>1 DEF Frame
<1>6. n \in Frame(cap)
  BY <1>5
<1>7. Held(n) = Held(g) /\ i \in Held(g) /\ g.j \in Held(g) /\ Held(g) \subseteq Buckets(Wide(cap))
  BY <1>2, <1>5, <1>a, FrameFacts, FitsFacts DEF Held
<1> DEFINE H == Held(g)
           s(x) == IF x = i THEN g.j ELSE IF x = g.j THEN i ELSE x
<1> HIDE DEF H
<1>8. \A x \in H : s(x) \in H /\ b[x] = g.b[s(x)] /\ s(s(x)) = x
  BY <1>2, <1>3, <1>7 DEF H
<1> HIDE DEF s
<1>9. {n.b[x] : x \in Held(n)} = Contents(h)
  <2>1. {b[x] : x \in H} = {g.b[x] : x \in H}
    BY <1>8
  <2> QED
    BY <1>5, <1>7, <2>1 DEF Frames, Moving, H
<1>10. \A x, y \in Held(n) : KeyAt(strings, n.b[x]) = KeyAt(strings, n.b[y]) => x = y
  <2>1. \A x, y \in H : KeyAt(strings, g.b[x]) = KeyAt(strings, g.b[y]) => x = y
    BY DEF Frames, Moving, H
  <2>2. \A x, y \in H : KeyAt(strings, b[x]) = KeyAt(strings, b[y]) => s(x) = s(y)
    BY <1>8, <2>1
  <2> QED
    BY <1>5, <1>7, <1>8, <2>2 DEF H
<1>11. \A x \in n.new : Path(HomeOf(strings, n.b[x], cap), x, cap) \subseteq n.new
  <2>1. \A x \in g.new : x # i /\ x # g.j /\ x \in Buckets(Wide(cap))
    BY <1>1, <1>2, FrameFacts, FitsFacts
  <2>2. \A x \in g.new : Path(HomeOf(strings, g.b[x], cap), x, cap) \subseteq g.new
    BY DEF Frames, Moving
  <2>3. \A x \in g.new : b[x] = g.b[x]
    BY <1>3, <2>1
  <2> QED
    BY <1>1, <1>3, <1>5, <2>2, <2>3
<1>12. Moving(n, cap)
  <2>1. g.old \cap g.new = {} /\ \A x \in g.old : x >= g.j
    BY DEF Frames, Moving
  <2>2. n.old \cap n.new = {} /\ \A x \in n.old : x >= n.j
    BY <1>5, <2>1
  <2>3. n.hand => n.j < h.cap /\ n.j \notin n.old /\ n.j \notin n.new
    BY <1>2, <1>5
  <2>4. IsFiniteSet(Held(n)) /\ Cardinality(Held(n)) = h.count
    BY <1>7 DEF Frames, Moving
  <2> QED
    BY <1>9, <1>10, <1>11, <2>2, <2>3, <2>4 DEF Moving
<1>13. Left(n) = Left(g) - 1
  <2>1. Cardinality(n.old) = Cardinality(g.old) - 1 /\ Cardinality(g.old) \in Nat
    BY <1>5, <1>a, FrameFacts, FS_RemoveElement
  <2> QED
    BY <1>2, <1>5, <2>1 DEF Left
<1> QED
  BY <1>6, <1>12, <1>13 DEF Frames, n, i

\* or laid down where there is none.
LEMMA PlaceTurn ==
  ASSUME NEW cap, Fits(cap), NEW g \in Frames(cap), g.j # h.cap, g.hand,
         Target(g, cap) \notin g.old
  PROVE  Place(g, Target(g, cap)) \in Frames(cap) /\ Left(Place(g, Target(g, cap))) = Left(g) - 1
<1> DEFINE i == Target(g, cap)
<1>1. i \in Buckets(cap) /\ i \notin g.new /\ Path(HomeOf(strings, g.b[g.j], cap), i, cap) \subseteq g.new
  BY TargetIs
<1>a. i \notin g.old
  OBVIOUS
<1> HIDE DEF i
<1> DEFINE n == Place(g, i)
           b == [g.b EXCEPT ![i] = g.b[g.j]]
           R == g.old \cup g.new
<1>2. /\ g.j < h.cap /\ g.j \in Nat /\ h.cap \in Nat /\ g.j \notin g.old /\ g.j \notin g.new
      /\ g.j \in Buckets(Wide(cap)) /\ i \in Buckets(Wide(cap)) /\ g.j + 1 \in 0..h.cap
      /\ R \subseteq Buckets(Wide(cap))
  BY <1>1, FrameFacts, FitsFacts DEF Frames, Moving, Buckets
<1>3. /\ b \in [Buckets(Wide(cap)) -> Element \cup {NoBucket}]
      /\ b[i] = g.b[g.j]
      /\ \A x \in Buckets(Wide(cap)) : x # i => b[x] = g.b[x]
  BY <1>2, FrameFacts
<1>4. n = [g EXCEPT !.b = b, !.new = g.new \cup {i}, !.hand = FALSE, !.j = g.j + 1]
  BY DEF Place
<1> HIDE DEF b, n
<1>5. /\ n.b = b /\ n.old = g.old /\ n.new = g.new \cup {i} /\ n.j = g.j + 1
      /\ n.hand = FALSE /\ n.swap = g.swap
      /\ n \in Frame(cap)
  <2>1. /\ g \in Frame(cap) /\ g.old \in SUBSET Buckets(h.cap)
        /\ g.new \cup {i} \in SUBSET Buckets(cap)
    BY <1>1, FrameFacts DEF Frames
  <2> QED
    BY ONLY <1>2, <1>3, <1>4, <2>1 DEF Frame
<1>6. n \in Frame(cap)
  BY <1>5
<1>7. Held(n) = R \cup {i} /\ Held(g) = R \cup {g.j} /\ i \notin R /\ g.j \notin R
  BY <1>1, <1>2, <1>5, <1>a DEF Held
<1> HIDE DEF R
<1>8. \A x \in R : b[x] = g.b[x]
  BY <1>2, <1>3, <1>7
<1>9. {n.b[x] : x \in Held(n)} = Contents(h)
  <2>1. {b[x] : x \in R \cup {i}} = {g.b[x] : x \in R \cup {g.j}}
    BY <1>3, <1>8
  <2>2. {g.b[x] : x \in Held(g)} = Contents(h)
    BY DEF Frames, Moving
  <2> QED
    BY <1>5, <1>7, <2>1, <2>2
<1>10. \A x, y \in Held(n) : KeyAt(strings, n.b[x]) = KeyAt(strings, n.b[y]) => x = y
  <2>1. \A x, y \in R \cup {g.j} : KeyAt(strings, g.b[x]) = KeyAt(strings, g.b[y]) => x = y
    BY <1>7 DEF Frames, Moving
  <2>2. \A x, y \in R \cup {i} : KeyAt(strings, b[x]) = KeyAt(strings, b[y]) => x = y
    BY <1>3, <1>7, <1>8, <2>1
  <2> QED
    BY <1>5, <1>7, <2>2
<1>11. \A x \in n.new : Path(HomeOf(strings, n.b[x], cap), x, cap) \subseteq n.new
  <2>1. \A x \in g.new : b[x] = g.b[x]
    BY <1>8 DEF R
  <2>2. \A x \in g.new : Path(HomeOf(strings, g.b[x], cap), x, cap) \subseteq g.new
    BY DEF Frames, Moving
  <2> QED
    BY <1>1, <1>3, <1>5, <2>1, <2>2
<1>12. Moving(n, cap)
  <2>1. g.old \cap g.new = {} /\ \A x \in g.old : x >= g.j /\ x # g.j /\ x \in Nat
    BY <1>2, FrameFacts DEF Frames, Moving, Buckets
  <2>2. n.old \cap n.new = {} /\ \A x \in n.old : x >= n.j
    BY <1>2, <1>5, <1>a, <2>1
  <2>3. IsFiniteSet(Held(g)) /\ Cardinality(Held(g)) = h.count /\ R \in SUBSET Held(g)
    BY <1>7 DEF Frames, Moving
  <2>4. IsFiniteSet(R)
    BY <2>3, FS_Subset
  <2>5. Cardinality(Held(g)) = Cardinality(R) + 1
    BY <1>7, <2>4, FS_AddElement
  <2>6. IsFiniteSet(Held(n)) /\ Cardinality(Held(n)) = Cardinality(R) + 1
    BY <1>7, <2>4, FS_AddElement
  <2>7. IsFiniteSet(Held(n)) /\ Cardinality(Held(n)) = h.count
    BY <2>3, <2>5, <2>6
  <2> QED
    BY <1>5, <1>9, <1>10, <1>11, <2>2, <2>7 DEF Moving
<1>13. Left(n) = Left(g) - 1
  BY <1>2, <1>5, FrameFacts DEF Left
<1> QED
  BY <1>6, <1>12, <1>13 DEF Frames, n, i

\* A turn of the loops of khp_resize.
LEMMA TurnMoves ==
  ASSUME NEW cap, Fits(cap), NEW g \in Frames(cap)
  PROVE  /\ Turn(g, cap) \in Frames(cap)
         /\ g.j = h.cap => Turn(g, cap) = g
         /\ g.j # h.cap => Left(Turn(g, cap)) = Left(g) - 1
<1>1. CASE g.j = h.cap
  BY <1>1 DEF Turn
<1>2. CASE g.j # h.cap
  <2>1. CASE g.hand /\ Target(g, cap) \in g.old
    BY <1>2, <2>1, SwapTurn DEF Turn
  <2>2. CASE g.hand /\ Target(g, cap) \notin g.old
    BY <1>2, <2>2, PlaceTurn DEF Turn
  <2>3. CASE ~g.hand /\ g.j \in g.old
    BY <1>2, <2>3, TakeTurn DEF Turn
  <2>4. CASE ~g.hand /\ g.j \notin g.old
    BY <1>2, <2>4, SkipTurn DEF Turn
  <2> QED
    BY <1>2, <2>1, <2>2, <2>3, <2>4
<1> QED
  BY <1>1, <1>2

\* There are enough turns: after the last one the outer loop is at the end.
LEMMA MovedIs ==
  ASSUME NEW cap, Fits(cap)
  PROVE  Moved(cap) \in Frames(cap) /\ Moved(cap).j = h.cap
<1> DEFINE first == [b |-> IF h.cap < cap THEN Realloc(h.b, cap) ELSE h.b,
                     old |-> h.used, new |-> {}, j |-> 0, hand |-> FALSE, swap |-> FALSE]
           V == Frames(cap)
           step == [d \in Nat |-> [x \in V |-> Turn(x, cap)]]
<1>2. first \in V /\ first.j = 0 /\ first.old = h.used
  BY MovingBegins
<1>3. Loop(V, first, step)
  <2>1. step \in [Nat -> [V -> V]]
    BY TurnMoves
  <2> HIDE DEF step, first, V
  <2> QED
    BY <1>2, <2>1 DEF Loop
<1>4. h.cap \in Nat /\ Cardinality(h.used) \in Nat
  BY FitsFacts, TableFacts DEF Fits
<1> HIDE DEF V, step, first
<1>a. PICK f : History(V, first, step, f)
  BY ONLY <1>3, LoopHasHistory
<1>5. f \in [Nat -> V] /\ f[0] = first /\ \A n \in Nat : f[n + 1] = step[n][f[n]]
  BY ONLY <1>a DEF History
<1> DEFINE body(g) == [n \in Nat |-> IF n = 0 THEN first ELSE Turn(g[n - 1], cap)]
           turns == CHOOSE g : g = body(g)
           N == h.cap + Cardinality(h.used)
<1>1. Moved(cap) = turns[N]
  BY DEF Moved, first
<1>6. \A n \in Nat : f[n + 1] = Turn(f[n], cap)
  BY <1>5 DEF step
<1>7. f = body(f)
  <2>1. ASSUME NEW n \in Nat PROVE f[n] = body(f)[n]
    <3>1. CASE n = 0
      BY <1>5, <3>1
    <3>2. CASE n # 0
      <4>1. n - 1 \in Nat /\ (n - 1) + 1 = n
        BY <3>2
      <4>2. f[n] = Turn(f[n - 1], cap)
        BY <1>6, <4>1
      <4> QED
        BY <3>2, <4>2
    <3> QED
      BY <3>1, <3>2
  <2> QED
    BY <1>5, <2>1
<1>8. turns = body(turns)
  <2> HIDE DEF body
  <2> QED
    BY <1>7, Zenon
<1> HIDE DEF turns
<1>9. turns[0] = first
  BY <1>8
<1>10. ASSUME NEW n \in Nat PROVE turns[n + 1] = Turn(turns[n], cap)
  <2>1. n + 1 \in Nat /\ n + 1 # 0 /\ (n + 1) - 1 = n
    OBVIOUS
  <2>2. turns[n + 1] = body(turns)[n + 1]
    BY <1>8
  <2> QED
    BY <2>1, <2>2
<1> DEFINE S == {n \in Nat : /\ turns[n] \in V
                             /\ turns[n].j = h.cap \/ Left(turns[n]) = N - n}
<1>11. 0 \in S
  BY <1>2, <1>4, <1>9 DEF Left
<1>12. ASSUME NEW n \in S PROVE n + 1 \in S
  <2> DEFINE u == turns[n]
             w == turns[n + 1]
  <2>1. n \in Nat /\ u \in V /\ (u.j = h.cap \/ Left(u) = N - n)
    OBVIOUS
  <2>2. w = Turn(u, cap)
    BY <1>10, <2>1
  <2> HIDE DEF u, w
  <2>3. /\ Turn(u, cap) \in V
        /\ u.j = h.cap => Turn(u, cap) = u
        /\ u.j # h.cap => Left(Turn(u, cap)) = Left(u) - 1
    BY <2>1, TurnMoves DEF V
  <2>4. w \in V /\ (w.j = h.cap \/ Left(w) = N - (n + 1))
    BY <1>4, <2>1, <2>2, <2>3
  <2> QED
    BY <2>1, <2>4 DEF w
<1>13. S \in SUBSET Nat
  OBVIOUS
<1> HIDE DEF S
<1>14. S = Nat
  BY ONLY <1>11, <1>12, <1>13, InductionOnNat
<1>15. turns[N] \in V /\ (turns[N].j = h.cap \/ Left(turns[N]) = 0)
  <2>1. N \in Nat
    BY <1>4
  <2> QED
    BY <1>14, <2>1 DEF S
<1>16. Left(turns[N]) = 0 => turns[N].j = h.cap
  <2> DEFINE u == turns[N]
  <2>1. u.j \in 0..h.cap /\ Cardinality(u.old) \in Nat
    BY <1>15, FrameFacts DEF V
  <2> HIDE DEF u
  <2>2. \A c, l, j \in Nat : j <= c /\ (c - j) + l = 0 => j = c
    OBVIOUS
  <2>3. u.j \in Nat /\ u.j <= h.cap
    BY <1>4, <2>1
  <2>4. (h.cap - u.j) + Cardinality(u.old) = 0 => u.j = h.cap
    BY ONLY <1>4, <2>1, <2>2, <2>3, Zenon
  <2>5. Left(u) = 0 => u.j = h.cap
    BY <2>4 DEF Left
  <2> QED
    BY <2>5 DEF u
<1> QED
  BY <1>1, <1>15, <1>16 DEF V

\* khp_resize keeps every element, and the table sound.
LEMMA RehashedIs ==
  ASSUME NEW cap, Fits(cap)
  PROVE  /\ Sound(Rehashed(cap), strings)
         /\ Contents(Rehashed(cap)) = Contents(h)
         /\ Rehashed(cap).cap = cap /\ Rehashed(cap).count = h.count
<1> DEFINE g == Moved(cap)
           T == Rehashed(cap)
<1>1. g \in Frames(cap) /\ g.j = h.cap
  BY MovedIs
<1>2. T = [cap |-> cap, used |-> g.new, count |-> h.count,
           b |-> [x \in DOMAIN Realloc(g.b, cap) |->
                    IF x \in g.new THEN Realloc(g.b, cap)[x] ELSE NoBucket]]
  BY DEF Rehashed
<1> HIDE DEF g, T
<1>3. /\ g.b \in [Buckets(Wide(cap)) -> Element \cup {NoBucket}]
      /\ g.old \subseteq Buckets(h.cap) /\ g.new \subseteq Buckets(cap)
  BY <1>1, FrameFacts
<1>4. g.old = {} /\ g.hand = FALSE
  <2>1. \A x \in g.old : x >= h.cap /\ x \in Buckets(h.cap)
    BY <1>1, <1>3 DEF Frames, Moving
  <2>2. h.cap \in Nat /\ g.hand \in BOOLEAN
    BY <1>1, FitsFacts, FrameFacts
  <2>3. g.hand => g.j < h.cap
    BY <1>1 DEF Frames, Moving
  <2> QED
    BY <1>1, <2>1, <2>2, <2>3 DEF Buckets
<1>5. Held(g) = g.new
  BY <1>4 DEF Held
<1>6. T.cap = cap /\ T.used = g.new /\ T.count = h.count
  BY <1>2
<1>7. T.b \in [Buckets(cap) -> Element \cup {NoBucket}] /\ \A x \in g.new : T.b[x] = g.b[x]
  <2>1. /\ Realloc(g.b, cap) = [x \in Buckets(cap) |-> IF x \in DOMAIN g.b THEN g.b[x] ELSE NoBucket]
        /\ Buckets(cap) \subseteq DOMAIN g.b
    BY <1>3, FitsFacts DEF Realloc
  <2>2. T.b = [x \in Buckets(cap) |-> IF x \in g.new THEN g.b[x] ELSE NoBucket]
    BY <1>2, <2>1
  <2> QED
    BY <1>3, <2>1, <2>2
<1>8. Contents(T) = Contents(h)
  <2>1. {g.b[x] : x \in Held(g)} = Contents(h)
    BY <1>1 DEF Frames, Moving
  <2> QED
    BY <1>5, <1>6, <1>7, <2>1 DEF Contents
<1>9. \A x \in T.used : Stored(strings, T.b[x])
  BY <1>1, <1>5, <1>6, <1>7, FrameFacts
<1>10. /\ \A x, y \in T.used : KeyAt(strings, T.b[x]) = KeyAt(strings, T.b[y]) => x = y
       /\ \A x \in T.used : Path(HomeOf(strings, T.b[x], T.cap), x, T.cap) \subseteq T.used
       /\ T.count = Cardinality(T.used) /\ T.count <= MaxCount(T.cap)
  <2>1. Moving(g, cap)
    BY <1>1 DEF Frames
  <2> QED
    BY <1>5, <1>6, <1>7, <2>1 DEF Moving, Fits
<1>11. T = [cap |-> T.cap, b |-> T.b, used |-> T.used, count |-> T.count]
  BY <1>2
<1>12. Sound(T, strings)
  BY <1>3, <1>6, <1>7, <1>9, <1>10, <1>11 DEF Sound, Fits
<1> QED
  BY <1>6, <1>8, <1>12 DEF T

-----------------------------------------------------------------------------
(***************************************************************************)
(* khp_del of bucket p, in heap m: the copy of p may be gone from it.      *)
(***************************************************************************)
Deletes(m, p) ==
  /\ Sound(h, strings)
  /\ p \in h.used
  /\ \A x \in h.used \ {p} : Stored(m, h.b[x]) /\ KeyAt(m, h.b[x]) = KeyAt(strings, h.b[x])

Scanned == [b : [Buckets(h.cap) -> Element \cup {NoBucket}], hole : h.used, j : Buckets(h.cap)]

\* Every other element is in one bucket beside the hole, with no gap in its probe
\* sequence but the hole, and those the scan has passed do not need the hole.
Shifting(m, p, s) ==
  /\ {s.b[x] : x \in h.used \ {s.hole}} = {h.b[x] : x \in h.used \ {p}}
  /\ \A x, y \in h.used \ {s.hole} : KeyAt(m, s.b[x]) = KeyAt(m, s.b[y]) => x = y
  /\ \A x \in h.used \ {s.hole} : Path(HomeOf(m, s.b[x], h.cap), x, h.cap) \subseteq h.used
  /\ \A x \in h.used \ {s.hole} :
       Dist(s.hole, x, h.cap) <= Dist(s.hole, s.j, h.cap)
         => s.hole \notin Path(HomeOf(m, s.b[x], h.cap), x, h.cap)

Scans(m, p) == {s \in Scanned : Shifting(m, p, s)}

\* The scan stops at the hole, or at a clear flag.
Stopped(s) == NextBucket(s.j, h.cap) = s.hole \/ NextBucket(s.j, h.cap) \notin h.used

LEMMA DeletesFacts ==
  ASSUME NEW m, NEW p, Deletes(m, p)
  PROVE  /\ h.cap \in Nat /\ h.cap > 0 /\ h.cap # 0 /\ h.cap \in Capacity
         /\ h.used \subseteq Buckets(h.cap)
         /\ h.b \in [Buckets(h.cap) -> Element \cup {NoBucket}]
         /\ Buckets(h.cap) \ h.used # {}
         /\ IsFiniteSet(h.used) /\ Cardinality(h.used) \in Nat
<1>1. h.cap \in Nat /\ IsFiniteSet(h.used) /\ Cardinality(h.used) \in Nat
  BY TableFacts DEF Deletes
<1>2. h.used \subseteq Buckets(h.cap) /\ h.b \in [Buckets(h.cap) -> Element \cup {NoBucket}]
  BY DEF Deletes, Sound
<1>3. h.cap # 0
  BY <1>1, <1>2 DEF Deletes, Buckets
<1> QED
  BY <1>1, <1>2, <1>3, TableFacts DEF Deletes

LEMMA ScanFacts ==
  ASSUME NEW m, NEW p, Deletes(m, p), NEW s \in Scans(m, p)
  PROVE  /\ s.b \in [Buckets(h.cap) -> Element \cup {NoBucket}]
         /\ s.hole \in h.used /\ s.hole \in Buckets(h.cap) /\ s.j \in Buckets(h.cap)
         /\ \A x \in h.used \ {s.hole} :
              /\ Stored(m, s.b[x])
              /\ HomeOf(m, s.b[x], h.cap) \in Buckets(h.cap)
              /\ x \in Buckets(h.cap)
<1>1. s \in Scanned /\ Shifting(m, p, s)
  BY DEF Scans
<1>2. /\ s.b \in [Buckets(h.cap) -> Element \cup {NoBucket}]
      /\ s.hole \in h.used /\ s.hole \in Buckets(h.cap) /\ s.j \in Buckets(h.cap)
  BY <1>1, DeletesFacts DEF Scanned
<1>3. ASSUME NEW x \in h.used \ {s.hole}
      PROVE  /\ Stored(m, s.b[x])
             /\ HomeOf(m, s.b[x], h.cap) \in Buckets(h.cap)
             /\ x \in Buckets(h.cap)
  <2>1. s.b[x] \in {h.b[y] : y \in h.used \ {p}}
    BY <1>1 DEF Shifting
  <2>2. Stored(m, s.b[x])
    BY <2>1 DEF Deletes
  <2>3. KeyAt(m, s.b[x]) \in Key
    BY <2>2 DEF Stored
  <2>4. HomeOf(m, s.b[x], h.cap) \in Buckets(h.cap)
    BY <2>3, DeletesFacts, HomeInBuckets DEF HomeOf
  <2> QED
    BY <2>2, <2>4, DeletesFacts
<1> QED
  BY <1>2, <1>3

\* The code's test says exactly that the hole is on the probe sequence of q.
LEMMA MayFillMeansOnPath ==
  ASSUME NEW m, NEW b, NEW n \in Nat, n = h.cap,
         NEW hole \in Buckets(n), NEW q \in Buckets(n), hole # q,
         HomeOf(m, b[q], n) \in Buckets(n)
  PROVE  MayFill(m, b, hole, q) <=> hole \in Path(HomeOf(m, b[q], n), q, n)
<1> DEFINE k == HomeOf(m, b[q], n)
<1>1. k \in Buckets(n)
  OBVIOUS
<1>2. MayFill(m, b, hole, q) <=> (\/ q > hole /\ (k <= hole \/ k > q)
                                  \/ q < hole /\ (k <= hole /\ k > q))
  BY DEF MayFill
<1> HIDE DEF k
<1>3. (\/ q > hole /\ (k <= hole \/ k > q)
       \/ q < hole /\ (k <= hole /\ k > q)) <=> hole \in Path(k, q, n)
  BY <1>1 DEF Path, Dist, Buckets
<1> QED
  BY <1>2, <1>3 DEF k

\* A turn of the backward shift: the hole moves to the next bucket, or the element
\* there is known not to need it.
LEMMA ScanShifts ==
  ASSUME NEW m, NEW p, Deletes(m, p), NEW s \in Scans(m, p)
  PROVE  /\ Scan(m, s) \in Scans(m, p)
         /\ Stopped(s) => Scan(m, s) = s
         /\ ~Stopped(s) => Scan(m, s).j = NextBucket(s.j, h.cap)
<1> DEFINE q == NextBucket(s.j, h.cap)
           hole == s.hole
           home(x) == HomeOf(m, s.b[x], h.cap)
<1>1. CASE Stopped(s)
  BY <1>1 DEF Stopped, Scan
<1>2. CASE ~Stopped(s)
  <2>1. q \in h.used /\ q # hole
    BY <1>2 DEF Stopped
  <2>2. /\ hole \in h.used /\ hole \in Buckets(h.cap) /\ q \in Buckets(h.cap)
        /\ s.j \in Buckets(h.cap) /\ h.cap \in Nat /\ h.cap > 0
        /\ h.used \subseteq Buckets(h.cap)
    BY <2>1, ScanFacts, DeletesFacts
  <2>3. /\ \A x \in h.used \ {hole} : Stored(m, s.b[x]) /\ home(x) \in Buckets(h.cap)
        /\ s.b \in [Buckets(h.cap) -> Element \cup {NoBucket}]
    BY ScanFacts
  <2>4. MayFill(m, s.b, hole, q) <=> hole \in Path(home(q), q, h.cap)
    BY <2>1, <2>2, <2>3, MayFillMeansOnPath
  <2>5. /\ {s.b[x] : x \in h.used \ {hole}} = {h.b[x] : x \in h.used \ {p}}
        /\ \A x, y \in h.used \ {hole} : KeyAt(m, s.b[x]) = KeyAt(m, s.b[y]) => x = y
        /\ \A x \in h.used \ {hole} : Path(home(x), x, h.cap) \subseteq h.used
        /\ \A x \in h.used \ {hole} :
             Dist(hole, x, h.cap) <= Dist(hole, s.j, h.cap) => hole \notin Path(home(x), x, h.cap)
        /\ s \in Scanned
    BY DEF Scans, Shifting
  <2>6. Scan(m, s) = IF MayFill(m, s.b, hole, q)
                       THEN [b |-> [s.b EXCEPT ![hole] = s.b[q]], hole |-> q, j |-> q]
                       ELSE [s EXCEPT !.j = q]
    BY <2>1 DEF Scan
  <2>a. Dist(hole, q, h.cap) = Dist(hole, s.j, h.cap) + 1
    BY <2>1, <2>2, DistNext
  <2> HIDE DEF q
  <2>7. CASE MayFill(m, s.b, hole, q)
    <3> DEFINE b == [s.b EXCEPT ![hole] = s.b[q]]
               n == [b |-> b, hole |-> q, j |-> q]
    <3>1. b \in [Buckets(h.cap) -> Element \cup {NoBucket}]
      BY <2>1, <2>2, <2>3
    <3>2. b[hole] = s.b[q] /\ \A x \in h.used : x # hole => b[x] = s.b[x]
      BY <2>2, <2>3
    <3> HIDE DEF b
    <3>3. n.b = b /\ n.hole = q /\ n.j = q /\ n \in Scanned
      BY <2>1, <2>2, <3>1 DEF Scanned
    <3> HIDE DEF n
    <3>4. {b[x] : x \in h.used \ {q}} = {h.b[x] : x \in h.used \ {p}}
      <4>1. {b[x] : x \in h.used \ {q}} = {s.b[x] : x \in h.used \ {hole}}
        <5>1. \A x \in h.used \ {q} : \E y \in h.used \ {hole} : b[x] = s.b[y]
          BY <2>1, <3>2
        <5>2. \A y \in h.used \ {hole} : \E x \in h.used \ {q} : b[x] = s.b[y]
          BY <2>1, <2>2, <3>2
        <5> QED
          BY <5>1, <5>2
      <4> QED
        BY <2>5, <4>1
    <3>5. \A x, y \in h.used \ {q} : KeyAt(m, b[x]) = KeyAt(m, b[y]) => x = y
      BY <2>1, <2>2, <2>5, <3>2
    <3>6. \A x \in h.used \ {q} : Path(HomeOf(m, b[x], h.cap), x, h.cap) \subseteq h.used
      <4>1. Path(home(q), hole, h.cap) \subseteq h.used
        BY <2>1, <2>2, <2>3, <2>4, <2>5, <2>7, PathShorter
      <4> QED
        BY <2>1, <2>5, <3>2, <4>1
    <3>7. \A x \in h.used \ {q} : ~(Dist(q, x, h.cap) <= Dist(q, q, h.cap))
      BY <2>1, <2>2, DistInjective
    <3>8. Shifting(m, p, n)
      BY <3>3, <3>4, <3>5, <3>6, <3>7 DEF Shifting
    <3>9. Scan(m, s) = n
      BY <2>6, <2>7 DEF n, b
    <3> QED
      BY <1>2, <3>3, <3>8, <3>9 DEF Scans, q
  <2>8. CASE ~MayFill(m, s.b, hole, q)
    <3> DEFINE n == [s EXCEPT !.j = q]
    <3>1. n.b = s.b /\ n.hole = hole /\ n.j = q /\ n \in Scanned
      BY <2>2, <2>5 DEF Scanned
    <3> HIDE DEF n
    <3>2. ASSUME NEW x \in h.used \ {hole}, Dist(hole, x, h.cap) <= Dist(hole, q, h.cap)
          PROVE  hole \notin Path(home(x), x, h.cap)
      <4>1. x = q \/ Dist(hole, x, h.cap) <= Dist(hole, s.j, h.cap)
        BY <2>2, <2>a, <3>2, DistInjective
      <4> QED
        BY <2>4, <2>5, <2>8, <4>1
    <3>3. Shifting(m, p, n)
      BY <2>5, <3>1, <3>2 DEF Shifting
    <3>4. Scan(m, s) = n
      BY <2>6, <2>8 DEF n
    <3> QED
      BY <1>2, <3>1, <3>3, <3>4 DEF Scans, q
  <2> QED
    BY <2>7, <2>8
<1> QED
  BY <1>1, <1>2

\* Where the scan stops, no element needs the hole: one further on would need the
\* clear flag the scan stopped at as well.
LEMMA NoElementNeedsTheHole ==
  ASSUME NEW m, NEW p, Deletes(m, p), NEW s \in Scans(m, p), Stopped(s),
         NEW x \in h.used \ {s.hole}
  PROVE  s.hole \notin Path(HomeOf(m, s.b[x], h.cap), x, h.cap)
<1> DEFINE q == NextBucket(s.j, h.cap)
           k == HomeOf(m, s.b[x], h.cap)
           i == s.hole
<1>1. /\ h.cap \in Nat /\ h.cap > 0 /\ i \in Buckets(h.cap) /\ s.j \in Buckets(h.cap)
      /\ x \in Buckets(h.cap) /\ k \in Buckets(h.cap) /\ x # i /\ x \in h.used
  BY ScanFacts, DeletesFacts
<1>2. q \in Buckets(h.cap)
  BY <1>1, NextBucketType
<1>3. q = i \/ q \notin h.used
  BY DEF Stopped
<1>a. /\ Path(k, x, h.cap) \subseteq h.used
      /\ Dist(i, x, h.cap) <= Dist(i, s.j, h.cap) => i \notin Path(k, x, h.cap)
  BY DEF Scans, Shifting
<1> HIDE DEF q, k
<1>4. CASE Dist(i, x, h.cap) <= Dist(i, s.j, h.cap)
  BY <1>4, <1>a DEF k
<1>5. CASE ~(Dist(i, x, h.cap) <= Dist(i, s.j, h.cap))
  <2>1. q # i
    BY <1>1, <1>5, DistNext DEF q
  <2>2. Dist(i, q, h.cap) = Dist(i, s.j, h.cap) + 1 /\ x # q
    BY <1>1, <1>3, <2>1, DistNext DEF q
  <2>3. Dist(i, q, h.cap) < Dist(i, x, h.cap)
    BY <1>1, <1>2, <1>5, <2>2, DistInjective
  <2>4. i \in Path(k, x, h.cap) => q \in Path(k, x, h.cap)
    BY <1>1, <1>2, <2>3, PathBetween
  <2> QED
    BY <1>3, <1>a, <2>1, <2>4 DEF k
<1> QED
  BY <1>4, <1>5

\* Until the scan stops it has met nothing but used buckets.
Met(p, s, n) ==
  /\ Dist(p, s.j, h.cap) = n
  /\ \A x \in Buckets(h.cap) : Dist(p, x, h.cap) <= n => x \in h.used

LEMMA ScanGoesOn ==
  ASSUME NEW m, NEW p, Deletes(m, p), NEW s \in Scans(m, p), ~Stopped(s),
         NEW n \in Nat, Met(p, s, n)
  PROVE  Met(p, Scan(m, s), n + 1)
<1> DEFINE q == NextBucket(s.j, h.cap)
<1>1. Scan(m, s).j = q /\ q \in h.used
  BY ScanShifts DEF Stopped
<1>2. /\ h.cap \in Nat /\ p \in Buckets(h.cap) /\ s.j \in Buckets(h.cap)
      /\ h.used \subseteq Buckets(h.cap) /\ Buckets(h.cap) \ h.used # {}
  <2>1. p \in h.used
    BY DEF Deletes
  <2> QED
    BY <2>1, ScanFacts, DeletesFacts
<1>3. q # p
  <2>1. q = p => \A x \in Buckets(h.cap) : Dist(p, x, h.cap) <= Dist(p, s.j, h.cap)
    BY <1>2, DistNext
  <2> QED
    BY <1>2, <2>1 DEF Met
<1>4. Dist(p, q, h.cap) = n + 1
  BY <1>2, <1>3, DistNext DEF Met
<1>5. ASSUME NEW x \in Buckets(h.cap), Dist(p, x, h.cap) <= n + 1 PROVE x \in h.used
  <2>1. Dist(p, x, h.cap) \in Nat
    BY <1>2, DistInjective
  <2>2. CASE Dist(p, x, h.cap) <= n
    BY <2>2 DEF Met
  <2>3. CASE Dist(p, x, h.cap) = n + 1
    <3>1. x = q
      BY <1>1, <1>2, <1>4, <2>3, DistInjective
    <3> QED
      BY <1>1, <3>1
  <2> QED
    BY <1>5, <2>1, <2>2, <2>3
<1> QED
  BY <1>1, <1>4, <1>5 DEF Met

\* Before the first turn the hole is bucket p, and the scan has passed nothing.
LEMMA ScanBegins ==
  ASSUME NEW m, NEW p, Deletes(m, p)
  PROVE  /\ [b |-> h.b, hole |-> p, j |-> p] \in Scans(m, p)
         /\ Met(p, [b |-> h.b, hole |-> p, j |-> p], 0)
<1>0. /\ h.cap \in Nat /\ p \in Buckets(h.cap) /\ h.used \subseteq Buckets(h.cap)
      /\ h.b \in [Buckets(h.cap) -> Element \cup {NoBucket}] /\ p \in h.used
  BY DeletesFacts DEF Deletes
<1> DEFINE s == [b |-> h.b, hole |-> p, j |-> p]
<1>1. s.b = h.b /\ s.hole = p /\ s.j = p /\ s \in Scanned
  BY <1>0 DEF Scanned
<1> HIDE DEF s
<1>2. \A x \in h.used \ {p} : KeyAt(m, h.b[x]) = KeyAt(strings, h.b[x])
  BY DEF Deletes
<1>3. \A x, y \in h.used \ {p} : KeyAt(m, h.b[x]) = KeyAt(m, h.b[y]) => x = y
  BY <1>2 DEF Deletes, Sound
<1>4. \A x \in h.used \ {p} : Path(HomeOf(m, h.b[x], h.cap), x, h.cap) \subseteq h.used
  BY <1>2 DEF Deletes, Sound, HomeOf
<1>5. \A x \in h.used \ {p} : ~(Dist(p, x, h.cap) <= Dist(p, p, h.cap))
  BY <1>0, DistInjective
<1>6. s \in Scans(m, p)
  BY <1>1, <1>3, <1>4, <1>5 DEF Scans, Shifting
<1>7. Met(p, s, 0)
  <2>1. Dist(p, p, h.cap) = 0
    BY <1>0, DistInjective
  <2>2. \A x \in Buckets(h.cap) : Dist(p, x, h.cap) \in Nat /\ (Dist(p, x, h.cap) = 0 => x = p)
    BY <1>0, DistInjective
  <2> QED
    BY <1>0, <1>1, <2>1, <2>2 DEF Met
<1> QED
  BY <1>6, <1>7 DEF s

\* The scan stops before it is back at p: some flag is clear.
LEMMA ScanStops ==
  ASSUME NEW m, NEW p, Deletes(m, p),
         NEW turns, turns[0] = [b |-> h.b, hole |-> p, j |-> p],
         \A n \in Nat : turns[n + 1] = Scan(m, turns[n])
  PROVE  turns[h.cap] \in Scans(m, p) /\ Stopped(turns[h.cap])
<1>1. /\ h.cap \in Nat /\ p \in Buckets(h.cap) /\ h.used \subseteq Buckets(h.cap)
      /\ h.b \in [Buckets(h.cap) -> Element \cup {NoBucket}] /\ p \in h.used
  BY DeletesFacts DEF Deletes
<1> DEFINE S == {n \in Nat : /\ turns[n] \in Scans(m, p)
                             /\ Stopped(turns[n]) \/ Met(p, turns[n], n)}
<1>2. 0 \in S
  BY ScanBegins
<1>3. ASSUME NEW n \in S PROVE n + 1 \in S
  <2> DEFINE s == turns[n]
  <2>1. n \in Nat /\ s \in Scans(m, p) /\ (Stopped(s) \/ Met(p, s, n))
    OBVIOUS
  <2>2. turns[n + 1] = Scan(m, s)
    BY <2>1
  <2> HIDE DEF s
  <2>3. Scan(m, s) \in Scans(m, p) /\ (Stopped(s) => Scan(m, s) = s)
    BY <2>1, ScanShifts
  <2>4. Stopped(Scan(m, s)) \/ Met(p, Scan(m, s), n + 1)
    BY <2>1, <2>3, ScanGoesOn
  <2> QED
    BY <2>1, <2>2, <2>3, <2>4
<1>4. S \in SUBSET Nat
  OBVIOUS
<1> HIDE DEF S
<1>5. S = Nat
  BY ONLY <1>2, <1>3, <1>4, InductionOnNat
<1>6. turns[h.cap] \in Scans(m, p) /\ (Stopped(turns[h.cap]) \/ Met(p, turns[h.cap], h.cap))
  BY <1>1, <1>5 DEF S
<1>7. ~Met(p, turns[h.cap], h.cap)
  <2>1. turns[h.cap].j \in Buckets(h.cap)
    BY <1>6, ScanFacts
  <2>2. \A x \in Buckets(h.cap) : Dist(p, x, h.cap) < h.cap
    <3>1. \A n \in Nat : \A y, x \in Buckets(n) : Dist(y, x, n) < n
      BY DEF Dist, Buckets
    <3> QED
      BY <1>1, <3>1
  <2>3. Dist(p, turns[h.cap].j, h.cap) < h.cap /\ Dist(p, turns[h.cap].j, h.cap) \in Nat
    BY <1>1, <2>1, <2>2, DistInjective
  <2> QED
    BY <1>1, <2>3 DEF Met
<1> QED
  BY <1>6, <1>7

\* khp_del removes one element and keeps the others, and the table sound.
LEMMA ShiftIs ==
  ASSUME NEW m, NEW p, Deletes(m, p)
  PROVE  /\ Sound(Shift(m, p), m)
         /\ Contents(Shift(m, p)) = {h.b[x] : x \in h.used \ {p}}
<1> DEFINE first == [b |-> h.b, hole |-> p, j |-> p]
           V == Scans(m, p)
           step == [d \in Nat |-> [x \in V |-> Scan(m, x)]]
<1>1. first \in Scans(m, p)
  BY ScanBegins
<1>2. Loop(V, first, step)
  <2>1. step \in [Nat -> [V -> V]]
    BY <1>1, ScanShifts
  <2>2. first \in V
    BY <1>1
  <2> HIDE DEF step, first, V
  <2> QED
    BY <2>1, <2>2 DEF Loop
<1> HIDE DEF V, step, first
<1>3. PICK f : History(V, first, step, f)
  BY ONLY <1>2, LoopHasHistory
<1>4. f \in [Nat -> V] /\ f[0] = first /\ \A n \in Nat : f[n + 1] = step[n][f[n]]
  BY ONLY <1>3 DEF History
<1>5. \A n \in Nat : f[n + 1] = Scan(m, f[n])
  BY <1>4 DEF step
<1> DEFINE body(g) == [n \in Nat |-> IF n = 0 THEN first ELSE Scan(m, g[n - 1])]
           turns == CHOOSE g : g = body(g)
           s == turns[h.cap]
<1>6. Shift(m, p) = [h EXCEPT !.b = [s.b EXCEPT ![s.hole] = NoBucket],
                              !.used = @ \ {s.hole}, !.count = @ - 1]
  BY DEF Shift, first
<1>7. f = body(f)
  <2>1. ASSUME NEW n \in Nat PROVE f[n] = body(f)[n]
    <3>1. CASE n = 0
      BY <1>4, <3>1
    <3>2. CASE n # 0
      <4>1. n - 1 \in Nat /\ (n - 1) + 1 = n
        BY <3>2
      <4>2. f[n] = Scan(m, f[n - 1])
        BY <1>5, <4>1
      <4> QED
        BY <3>2, <4>2
    <3> QED
      BY <3>1, <3>2
  <2> QED
    BY <1>4, <2>1
<1>8. turns = body(turns)
  <2> HIDE DEF body
  <2> QED
    BY <1>7, Zenon
<1> HIDE DEF turns
<1>9. turns[0] = first
  BY <1>8
<1>10. ASSUME NEW n \in Nat PROVE turns[n + 1] = Scan(m, turns[n])
  <2>1. n + 1 \in Nat /\ n + 1 # 0 /\ (n + 1) - 1 = n
    OBVIOUS
  <2>2. turns[n + 1] = body(turns)[n + 1]
    BY <1>8
  <2> QED
    BY <2>1, <2>2
<1>11. s \in Scans(m, p) /\ Stopped(s)
  <2>1. turns[0] = [b |-> h.b, hole |-> p, j |-> p]
    BY <1>9 DEF first
  <2> QED
    BY ONLY Deletes(m, p), <1>10, <2>1, ScanStops
<1> DEFINE T == Shift(m, p)
           b == [s.b EXCEPT ![s.hole] = NoBucket]
<1> HIDE DEF s
<1>12. /\ s.hole \in h.used /\ s.b \in [Buckets(h.cap) -> Element \cup {NoBucket}]
       /\ s.hole \in Buckets(h.cap) /\ h.used \subseteq Buckets(h.cap)
       /\ \A x \in h.used \ {s.hole} : Stored(m, s.b[x])
  BY <1>11, ScanFacts, DeletesFacts
<1>13. /\ b \in [Buckets(h.cap) -> Element \cup {NoBucket}]
       /\ \A x \in h.used \ {s.hole} : b[x] = s.b[x]
  BY <1>12
<1> HIDE DEF b
<1>14. T = [cap |-> h.cap, b |-> b, used |-> h.used \ {s.hole}, count |-> h.count - 1]
  <2>1. h = [cap |-> h.cap, b |-> h.b, used |-> h.used, count |-> h.count]
    BY DEF Deletes, Sound
  <2>2. T = [h EXCEPT !.b = b, !.used = h.used \ {s.hole}, !.count = h.count - 1]
    BY <1>6 DEF b, T
  <2> HIDE DEF T
  <2> QED
    BY <2>1, <2>2
<1> HIDE DEF T
<1>15. T.cap = h.cap /\ T.b = b /\ T.used = h.used \ {s.hole} /\ T.count = h.count - 1
  BY <1>14
<1>16. Contents(T) = {h.b[x] : x \in h.used \ {p}}
  <2>1. {s.b[x] : x \in h.used \ {s.hole}} = {h.b[x] : x \in h.used \ {p}}
    BY <1>11 DEF Scans, Shifting
  <2> QED
    BY <1>13, <1>15, <2>1 DEF Contents
<1>17. \A x \in T.used : Stored(m, T.b[x])
  BY <1>12, <1>13, <1>15
<1>18. \A x, y \in T.used : KeyAt(m, T.b[x]) = KeyAt(m, T.b[y]) => x = y
  BY <1>11, <1>13, <1>15 DEF Scans, Shifting
<1>19. \A x \in T.used : Path(HomeOf(m, T.b[x], T.cap), x, T.cap) \subseteq T.used
  <2>1. ASSUME NEW x \in h.used \ {s.hole}
        PROVE  Path(HomeOf(m, s.b[x], h.cap), x, h.cap) \subseteq h.used \ {s.hole}
    <3>1. Path(HomeOf(m, s.b[x], h.cap), x, h.cap) \subseteq h.used
      BY <1>11 DEF Scans, Shifting
    <3>2. s.hole \notin Path(HomeOf(m, s.b[x], h.cap), x, h.cap)
      BY <1>11, NoElementNeedsTheHole
    <3> QED
      BY <3>1, <3>2
  <2> QED
    BY <1>13, <1>15, <2>1
<1>20. T.count = Cardinality(T.used) /\ T.count <= MaxCount(T.cap)
  <2>1. Cardinality(h.used \ {s.hole}) = Cardinality(h.used) - 1 /\ Cardinality(h.used) \in Nat
    BY <1>12, DeletesFacts, FS_RemoveElement
  <2>2. h.count = Cardinality(h.used) /\ h.count <= MaxCount(h.cap)
    BY DEF Deletes, Sound
  <2>3. MaxCount(h.cap) \in Nat
    BY TableFacts DEF Deletes
  <2> QED
    BY <1>15, <2>1, <2>2, <2>3
<1>21. T = [cap |-> T.cap, b |-> T.b, used |-> T.used, count |-> T.count]
  BY <1>14, <1>15
<1>22. T.used \subseteq Buckets(T.cap) /\ T.cap \in Capacity \cup {0}
  BY <1>12, <1>15, DeletesFacts
<1>23. Sound(T, m)
  BY <1>13, <1>15, <1>17, <1>18, <1>19, <1>20, <1>21, <1>22 DEF Sound
<1> QED
  BY <1>16, <1>23 DEF T

-----------------------------------------------------------------------------
(***************************************************************************)
(* What each call does to the table and to the heap.                       *)
(***************************************************************************)
\* The invariant: TableIsSound and BucketsOwnCopies, by SoundIs.
IInv == Sound(h, strings) /\ CallIsSound

\* Element e of key k is new.
Inserted(k, e) ==
  /\ Sound(h', strings')
  /\ strings' \in [Addr -> Key \cup {Freed}]
  /\ Contents(h') = Contents(h) \cup {e}
  /\ e \in Element /\ KeyAt(strings', e) = k
  /\ \A c \in Contents(h) : KeyAt(strings', c) = KeyAt(strings, c) /\ KeyAt(strings, c) # k
  /\ \A a \in Addr : a # e.key => strings'[a] = strings[a]
  /\ pos' \in h'.used /\ KeyAt(strings', h'.b[pos']) = k

\* Nothing but the place of the elements has changed.
Kept ==
  /\ Sound(h', strings')
  /\ Contents(h') = Contents(h)
  /\ strings' = strings

\* khp_put, in the table or in the larger one the elements moved to.
LEMMA InsertDoes ==
  ASSUME IInv, NEW T, Sound(T, strings), Contents(T) = Contents(h), T.cap # 0,
         T.count < MaxCount(T.cap), NEW k \in Key, Insert(T, k)
  PROVE  absent' = 1 /\ pc' = "ready" /\ \E e : Inserted(k, e)
<1> DEFINE s == PutIndex(T, k)
<1>1. /\ s \in Buckets(T.cap) /\ s \notin T.used
      /\ Path(Home(k, T.cap), s, T.cap) \subseteq T.used
      /\ \A x \in T.used : KeyAt(strings, T.b[x]) # k
  BY PutIndexIs DEF Insert
<1>2. absent' = 1 /\ pc' = "ready" /\ pos' = s
  BY DEF Insert, Return
<1>3. PICK a \in Key \cup Addr, v \in Val :
        /\ h' = [T EXCEPT !.b[s] = [key |-> a, val |-> v], !.used = @ \cup {s}, !.count = @ + 1]
        /\ IF kind = "dup" THEN a \in Addr /\ Copy(a, k) ELSE a = k /\ strings' = strings
  <2>1. CASE kind = "dup"
    <3>1. PICK a \in Addr :
            /\ Copy(a, k)
            /\ \E v \in Val : h' = [T EXCEPT !.b[s] = [key |-> a, val |-> v],
                                             !.used = @ \cup {s}, !.count = @ + 1]
      BY <2>1, Zenon DEF Insert
    <3> QED
      BY <2>1, <3>1, Zenon
  <2>2. CASE kind # "dup"
    <3>1. /\ strings' = strings
          /\ \E v \in Val : h' = [T EXCEPT !.b[s] = [key |-> k, val |-> v],
                                           !.used = @ \cup {s}, !.count = @ + 1]
      BY <2>2, Zenon DEF Insert
    <3> QED
      BY <2>2, <3>1, Zenon
  <2> QED
    BY <2>1, <2>2
<1> DEFINE e == [key |-> a, val |-> v]
<1>4. e.key = a /\ e.val = v
  OBVIOUS
<1> HIDE DEF s
<1>5. strings \in [Addr -> Key \cup {Freed}]
  BY DEF IInv, CallIsSound
<1>6. /\ strings' \in [Addr -> Key \cup {Freed}]
      /\ \A c \in Addr : c # a => strings'[c] = strings[c]
      /\ Stored(strings', e) /\ KeyAt(strings', e) = k
      /\ \A x \in T.used : Stored(strings', T.b[x]) /\ KeyAt(strings', T.b[x]) = KeyAt(strings, T.b[x])
  <2>1. CASE kind = "dup"
    <3>1. a \in Addr /\ strings[a] = Freed /\ strings' = [strings EXCEPT ![a] = k]
      BY <1>3, <2>1 DEF Copy
    <3>2. /\ strings' \in [Addr -> Key \cup {Freed}] /\ strings'[a] = k
          /\ \A c \in Addr : c # a => strings'[c] = strings[c]
      BY <1>5, <3>1
    <3>3. e \in Element
      BY <3>1 DEF Element
    <3> HIDE DEF e
    <3>4. Stored(strings', e) /\ KeyAt(strings', e) = k
      BY <1>4, <2>1, <3>1, <3>2, <3>3 DEF Stored, KeyAt
    <3>5. ASSUME NEW x \in T.used
          PROVE  Stored(strings', T.b[x]) /\ KeyAt(strings', T.b[x]) = KeyAt(strings, T.b[x])
      <4>1. /\ T.b[x] \in Element /\ KeyAt(strings, T.b[x]) \in Key /\ T.b[x].key \in Addr
        BY <2>1 DEF Sound, Stored
      <4>2. T.b[x].key # a
        BY <3>1, <4>1, ElementAssumption DEF KeyAt
      <4>3. KeyAt(strings', T.b[x]) = KeyAt(strings, T.b[x])
        BY <3>2, <4>1, <4>2 DEF KeyAt
      <4> QED
        BY <2>1, <4>1, <4>3 DEF Stored
    <3> QED
      BY <3>2, <3>4, <3>5
  <2>2. CASE kind # "dup"
    <3>1. a = k /\ strings' = strings /\ k \notin Addr
      BY <1>3, <2>2, ElementAssumption
    <3>2. e \in Element
      BY <3>1 DEF Element
    <3> HIDE DEF e
    <3>3. Stored(strings', e) /\ KeyAt(strings', e) = k
      BY <1>4, <2>2, <3>1, <3>2 DEF Stored, KeyAt
    <3> QED
      BY <1>5, <3>1, <3>3 DEF Sound
  <2> QED
    BY <2>1, <2>2
<1>7. h' = [cap |-> T.cap, b |-> [T.b EXCEPT ![s] = e], used |-> T.used \cup {s},
            count |-> T.count + 1]
  <2>1. T = [cap |-> T.cap, b |-> T.b, used |-> T.used, count |-> T.count]
    BY DEF Sound
  <2>2. h' = [T EXCEPT !.b = [T.b EXCEPT ![s] = e], !.used = T.used \cup {s},
                       !.count = T.count + 1]
    BY <1>3
  <2> DEFINE b == [T.b EXCEPT ![s] = e]
  <2> HIDE DEF b
  <2> QED
    BY <2>1, <2>2
<1> HIDE DEF e
<1>8. Sound(T, strings')
  BY <1>6, HeapMayChange
<1>9. Path(HomeOf(strings', e, T.cap), s, T.cap) \subseteq T.used
  BY <1>1, <1>6 DEF HomeOf
<1>10. \A x \in T.used : KeyAt(strings', T.b[x]) # KeyAt(strings', e)
  BY <1>1, <1>6
<1>11. Sound(h', strings') /\ Contents(h') = Contents(T) \cup {e}
  BY <1>1, <1>6, <1>7, <1>8, <1>9, <1>10, InsertKeepsSound
<1>12. \A c \in Contents(h) : KeyAt(strings', c) = KeyAt(strings, c) /\ KeyAt(strings, c) # k
  BY <1>1, <1>6 DEF Contents
<1>13. pos' \in h'.used /\ h'.b[pos'] = e
  BY <1>1, <1>2, <1>7 DEF Sound
<1>14. e \in Element
  BY <1>6 DEF Stored
<1>15. Inserted(k, e)
  BY <1>4, <1>6, <1>11, <1>12, <1>13, <1>14 DEF Inserted
<1> QED
  BY <1>2, <1>15

LEMMA KeepDoes ==
  ASSUME IInv, NEW T, Sound(T, strings), Contents(T) = Contents(h), T.cap # 0,
         NEW k \in Key, Keep(T, k)
  PROVE  /\ absent' = 0 /\ pc' = "ready" /\ Kept
         /\ pos' \in h'.used /\ KeyAt(strings', h'.b[pos']) = k
<1>1. /\ h' = T /\ strings' = strings /\ absent' = 0 /\ pc' = "ready"
      /\ pos' = PutIndex(T, k) /\ PutIndex(T, k) \in T.used
  BY DEF Keep, Return
<1>2. KeyAt(strings, T.b[PutIndex(T, k)]) = k
  BY <1>1, PutIndexIs
<1> QED
  BY <1>1, <1>2 DEF Kept

\* A put that has to grow finds room for its element in the new table.
LEMMA GrowMakesRoom ==
  ASSUME Sound(h, strings), Full, NEW cap \in Capacity, RoundsUpTo(h.cap + 1, cap)
  PROVE  Fits(cap) /\ h.count < MaxCount(cap)
<1>1. /\ h.cap \in Nat /\ h.count \in Nat /\ MaxCount(h.cap) \in Nat
      /\ h.cap \in Capacity \cup {0} /\ h.count <= MaxCount(h.cap)
  BY TableFacts DEF Sound
<1>2. cap \in Nat /\ MaxCount(cap) \in Nat /\ 0 < MaxCount(cap) /\ h.cap + 1 <= cap
  BY MaxCountBelow DEF RoundsUpTo
<1>3. h.cap < cap
  BY <1>1, <1>2
<1>4. CASE h.cap = 0
  <2>1. MaxCount(0) = 0
    BY DEF MaxCount
  <2> QED
    BY <1>1, <1>2, <1>4, <2>1 DEF Fits
<1>5. CASE h.cap \in Capacity
  <2>1. MaxCount(h.cap) < MaxCount(cap)
    BY <1>3, <1>5, MaxCountGrows
  <2> QED
    BY <1>1, <1>2, <2>1 DEF Fits
<1> QED
  BY <1>1, <1>4, <1>5

\* khp_resize called by the client is not refused when the elements fit.
LEMMA ResizeFits ==
  ASSUME Sound(h, strings), NEW cap \in Capacity, ~TooSmall(cap)
  PROVE  Fits(cap)
<1>1. h.count \in Nat /\ MaxCount(cap) \in Nat
  BY TableFacts, MaxCountBelow
<1> QED
  BY <1>1 DEF Fits, TooSmall

\* khp_del, from which khp_str_del has freed the copy.
Removed ==
  /\ Sound(h', strings')
  /\ strings' \in [Addr -> Key \cup {Freed}]
  /\ pos \in h.used /\ arg = KeyAt(strings, h.b[pos])
  /\ Contents(h') = {h.b[x] : x \in h.used \ {pos}}
  /\ \A x \in h.used \ {pos} : KeyAt(strings', h.b[x]) = KeyAt(strings, h.b[x])
  /\ \A a \in Addr : strings'[a] # Freed => a # h.b[pos].key /\ strings'[a] = strings[a]

LEMMA DelDoes ==
  ASSUME IInv, Del
  PROVE  Removed
<1>1. /\ strings' = FreeCopy(strings, h.b[pos]) /\ h' = Shift(strings', pos)
  BY DEF Del
<1>2. pos \in h.used /\ KeyAt(strings, h.b[pos]) = arg
  BY DEF Del, IInv, CallIsSound, AnswerIsRight
<1>3. strings \in [Addr -> Key \cup {Freed}] /\ Sound(h, strings)
  BY DEF IInv, CallIsSound
<1> DEFINE e == h.b[pos]
<1>4. Stored(strings, e)
  BY <1>2, <1>3 DEF Sound
<1> HIDE DEF e
<1>5. /\ strings' \in [Addr -> Key \cup {Freed}]
      /\ \A x \in h.used \ {pos} : Stored(strings', h.b[x]) /\ KeyAt(strings', h.b[x]) = KeyAt(strings, h.b[x])
      /\ \A a \in Addr : strings'[a] # Freed => a # e.key /\ strings'[a] = strings[a]
  <2>1. CASE kind = "dup"
    <3>1. strings' = [strings EXCEPT ![e.key] = Freed] /\ e.key \in Addr
      BY <1>1, <1>4, <2>1 DEF FreeCopy, Stored, e
    <3>2. /\ strings' \in [Addr -> Key \cup {Freed}] /\ strings'[e.key] = Freed
          /\ \A a \in Addr : a # e.key => strings'[a] = strings[a]
      BY <1>3, <3>1
    <3>3. ASSUME NEW x \in h.used \ {pos}
          PROVE  Stored(strings', h.b[x]) /\ KeyAt(strings', h.b[x]) = KeyAt(strings, h.b[x])
      <4>1. h.b[x] \in Element /\ KeyAt(strings, h.b[x]) \in Key /\ h.b[x].key \in Addr
        BY <1>3, <2>1 DEF Sound, Stored
      <4>2. KeyAt(strings, h.b[x]) # KeyAt(strings, e)
        BY <1>2, <1>3 DEF Sound, e
      <4>3. h.b[x].key # e.key
        BY <4>2 DEF KeyAt
      <4>4. KeyAt(strings', h.b[x]) = KeyAt(strings, h.b[x])
        BY <3>2, <4>1, <4>3 DEF KeyAt
      <4> QED
        BY <2>1, <4>1, <4>4 DEF Stored
    <3> QED
      BY <3>2, <3>3
  <2>2. CASE kind # "dup"
    <3>1. strings' = strings /\ e.key \in Key
      BY <1>1, <1>4, <2>2 DEF FreeCopy, Stored
    <3>2. e.key \notin Addr
      BY <3>1, ElementAssumption
    <3> QED
      BY <1>3, <3>1, <3>2 DEF Sound
  <2> QED
    BY <2>1, <2>2
<1>6. Deletes(strings', pos)
  BY <1>2, <1>3, <1>5 DEF Deletes
<1>7. /\ Sound(h', strings')
      /\ Contents(h') = {h.b[x] : x \in h.used \ {pos}}
  BY <1>1, <1>6, ShiftIs
<1> QED
  BY <1>2, <1>5, <1>7 DEF Removed, e

\* The client writes a value.
LEMMA SetValDoes ==
  ASSUME IInv, NEW v \in Val, SetVal(v)
  PROVE  /\ Sound(h', strings') /\ h'.used = h.used
         /\ pos \in h.used /\ arg = KeyAt(strings, h.b[pos])
         /\ h'.b[pos].key = h.b[pos].key /\ h'.b[pos].val = v
         /\ \A x \in h.used \ {pos} : h'.b[x] = h.b[x]
<1>1. /\ h' = [h EXCEPT !.b[pos].val = v] /\ strings' = strings
  BY DEF SetVal
<1>2. pos \in h.used /\ KeyAt(strings, h.b[pos]) = arg
  BY DEF SetVal, IInv, CallIsSound, AnswerIsRight
<1>3. Sound(h, strings)
  BY DEF IInv
<1>4. /\ h = [cap |-> h.cap, b |-> h.b, used |-> h.used, count |-> h.count]
      /\ h.b \in [Buckets(h.cap) -> Element \cup {NoBucket}]
      /\ h.b[pos] \in Element /\ pos \in Buckets(h.cap)
  BY <1>2, <1>3 DEF Sound, Stored
<1> DEFINE e == [h.b[pos] EXCEPT !.val = v]
           b == [h.b EXCEPT ![pos] = e]
<1>5. e \in Element /\ e.key = h.b[pos].key /\ e.val = v
  BY <1>4 DEF Element
<1>6. h' = [h EXCEPT !.b = b]
  BY <1>1
<1> HIDE DEF e
<1>7. /\ b \in [Buckets(h.cap) -> Element \cup {NoBucket}] /\ b[pos] = e
      /\ \A x \in h.used \ {pos} : b[x] = h.b[x]
  BY <1>3, <1>4, <1>5 DEF Sound
<1> HIDE DEF b
<1>8. h' = [cap |-> h.cap, b |-> b, used |-> h.used, count |-> h.count]
  BY <1>4, <1>6
<1>9. h'.cap = h.cap /\ h'.b = b /\ h'.used = h.used /\ h'.count = h.count
  BY <1>8
<1>10. ASSUME NEW x \in h.used
       PROVE  Stored(strings, b[x]) /\ KeyAt(strings, b[x]) = KeyAt(strings, h.b[x])
  <2>1. Stored(strings, h.b[x])
    BY <1>3 DEF Sound
  <2>2. CASE x = pos
    BY <1>5, <1>7, <2>1, <2>2 DEF Stored, KeyAt
  <2>3. CASE x # pos
    BY <1>7, <2>1, <2>3
  <2> QED
    BY <2>2, <2>3
<1>11. Sound(h', strings')
  BY <1>1, <1>3, <1>7, <1>8, <1>9, <1>10 DEF Sound, HomeOf
<1> QED
  BY <1>2, <1>5, <1>7, <1>9, <1>11

\* An empty table is sound.
LEMMA EmptyIsSound ==
  ASSUME NEW T, NEW m, T = [cap |-> T.cap, b |-> T.b, used |-> T.used, count |-> T.count],
         T.cap \in Capacity \cup {0}, T.b \in [Buckets(T.cap) -> Element \cup {NoBucket}],
         T.used = {}, T.count = 0
  PROVE  Sound(T, m) /\ Contents(T) = {}
<1>1. T.cap \in Nat
  BY CapacityIs
<1>2. MaxCount(T.cap) \in Nat
  BY <1>1, MaxCountType
<1>3. Cardinality({}) = 0
  BY FS_EmptySet
<1>4. 0 <= MaxCount(T.cap)
  BY <1>2
<1> QED
  BY <1>3, <1>4 DEF Sound, Contents

LEMMA ClearDoes ==
  ASSUME IInv, Clear \/ Destroy
  PROVE  Sound(h', strings') /\ Contents(h') = {}
<1>1. CASE Clear
  <2> DEFINE b == [x \in DOMAIN h.b |-> NoBucket]
  <2>1. h' = [h EXCEPT !.used = {}, !.count = 0, !.b = b]
    BY <1>1 DEF Clear
  <2>2. /\ h = [cap |-> h.cap, b |-> h.b, used |-> h.used, count |-> h.count]
        /\ h.cap \in Capacity \cup {0} /\ h.b \in [Buckets(h.cap) -> Element \cup {NoBucket}]
    BY DEF IInv, Sound
  <2>3. b \in [Buckets(h.cap) -> Element \cup {NoBucket}]
    BY <2>2
  <2> HIDE DEF b
  <2>4. h' = [cap |-> h.cap, b |-> b, used |-> {}, count |-> 0]
    BY <2>1, <2>2
  <2>5. h'.cap = h.cap /\ h'.b = b /\ h'.used = {} /\ h'.count = 0
    BY <2>4
  <2>6. h' = [cap |-> h'.cap, b |-> h'.b, used |-> h'.used, count |-> h'.count]
    BY <2>4, <2>5
  <2> QED
    BY <2>2, <2>3, <2>5, <2>6, EmptyIsSound
<1>2. CASE Destroy
  <2>1. h' = [cap |-> 0, b |-> <<>>, used |-> {}, count |-> 0]
    BY <1>2 DEF Destroy, Empty
  <2>2. <<>> \in [Buckets(0) -> Element \cup {NoBucket}]
    BY DEF Buckets
  <2>3. h'.cap = 0 /\ h'.b = <<>> /\ h'.used = {} /\ h'.count = 0
    BY <2>1
  <2>4. h' = [cap |-> h'.cap, b |-> h'.b, used |-> h'.used, count |-> h'.count]
    BY <2>1, <2>3
  <2> QED
    BY <2>2, <2>3, <2>4, EmptyIsSound
<1> QED
  BY <1>1, <1>2

-----------------------------------------------------------------------------
(***************************************************************************)
(* Each call keeps the invariant, loses no copy but where it may, and is   *)
(* an operation of a map.                                                  *)
(***************************************************************************)
BindingsOf(C, m) == {[key |-> KeyAt(m, e), val |-> e.val] : e \in C}

\* The bindings are those of the contents.
LEMMA BindingsAre ==
  /\ Bindings = BindingsOf(Contents(h), strings)
  /\ Bindings' = BindingsOf(Contents(h'), strings')
<1>1. Bindings = BindingsOf(Contents(h), strings)
  BY DEF Bindings, BindingsOf, Contents
<1>2. Bindings' = {[key |-> KeyAt(strings', h'.b[x]), val |-> h'.b[x].val] : x \in h'.used}
  BY DEF Bindings, KeyAt
<1>3. {[key |-> KeyAt(strings', h'.b[x]), val |-> h'.b[x].val] : x \in h'.used}
        = BindingsOf(Contents(h'), strings')
  BY DEF BindingsOf, Contents
<1> QED
  BY <1>1, <1>2, <1>3

\* A key is bound if an element has it.
LEMMA BoundIs == D!Bound = {KeyAt(strings, e) : e \in Contents(h)}
<1>1. D!Bound = {b.key : b \in BindingsOf(Contents(h), strings)}
  BY BindingsAre DEF D!Bound
<1>2. \A C, m : {b.key : b \in BindingsOf(C, m)} = {KeyAt(m, e) : e \in C}
  <2> SUFFICES ASSUME NEW C, NEW m
               PROVE  {b.key : b \in BindingsOf(C, m)} = {KeyAt(m, e) : e \in C}
    OBVIOUS
  <2>1. ASSUME NEW e \in C
        PROVE  KeyAt(m, e) \in {b.key : b \in BindingsOf(C, m)}
    <3> DEFINE b == [key |-> KeyAt(m, e), val |-> e.val]
    <3>1. b \in BindingsOf(C, m)
      BY DEF BindingsOf
    <3>2. b.key = KeyAt(m, e)
      OBVIOUS
    <3> QED
      BY <3>1, <3>2
  <2>2. ASSUME NEW b \in BindingsOf(C, m)
        PROVE  b.key \in {KeyAt(m, e) : e \in C}
    BY DEF BindingsOf
  <2> QED
    BY <2>1, <2>2
<1> QED
  BY <1>1, <1>2

\* So are the copies that are lost.
LEMMA LostIs ==
  /\ Lost = {a \in Addr : strings[a] # Freed /\ \A e \in Contents(h) : e.key # a}
  /\ Lost' = {a \in Addr : strings'[a] # Freed /\ \A e \in Contents(h') : e.key # a}
BY DEF Lost, Contents

\* The next state's table is sound if it is now known to be.
LEMMA SoundNext ==
  ASSUME kind' = kind, Sound(h', strings')
  PROVE  Sound(h, strings)'
BY DEF Sound, Stored, HomeOf, KeyAt

MayLose == Lost' \subseteq Lost \/ op' = "clear" \/ absent' = -1

\* A call ends.
LEMMA InvariantNext ==
  ASSUME IInv, kind' = kind, Sound(h', strings'),
         strings' \in [Addr -> Key \cup {Freed}], memory' \subseteq {"table", "buckets", "flags"},
         pc' \in {"ready", "crashed"},
         op' \in {"none", "get", "put", "del", "resize", "clear", "destroy"},
         arg' \in Key \cup {NoKey}, pos' \in Nat, absent' \in {-1, 0, 1},
         pc' = "ready" /\ op' = "put" /\ absent' # -1
           => pos' \in h'.used /\ KeyAt(strings', h'.b[pos']) = arg'
  PROVE  IInv'
<1>1. Sound(h, strings)'
  BY SoundNext
<1>2. AnswerIsRight' /\ DestroyKeepsFlagsOnly'
  BY DEF AnswerIsRight, Holds, DestroyKeepsFlagsOnly, KeyAt
<1> QED
  BY <1>1, <1>2 DEF IInv, CallIsSound

\* khp_put and khp_str_put of a new key.
LEMMA InsertedStep ==
  ASSUME IInv, NEW k \in Key, NEW e, Inserted(k, e), kind' = kind,
         memory' \subseteq {"table", "buckets", "flags"},
         pc' = "ready", op' = "put", arg' = k, absent' = 1
  PROVE  IInv' /\ MayLose /\ D!PutNew(k)
<1>1. pos' \in Nat
  <2>1. h'.cap \in Nat /\ h'.used \subseteq Buckets(h'.cap)
    BY TableFacts DEF Inserted, Sound
  <2> QED
    BY <2>1 DEF Inserted, Buckets
<1>2. IInv'
  BY <1>1, InvariantNext DEF Inserted
<1>3. Lost' \subseteq Lost
  BY LostIs DEF Inserted
<1>4. D!PutNew(k)
  <2>1. Reply' = [op |-> "put", key |-> k, status |-> "absent"]
    BY DEF Reply
  <2>2. k \notin D!Bound
    BY BoundIs DEF Inserted
  <2>3. Bindings' = Bindings \cup {[key |-> k, val |-> e.val]}
    <3>1. BindingsOf(Contents(h) \cup {e}, strings')
            = BindingsOf(Contents(h), strings') \cup {[key |-> KeyAt(strings', e), val |-> e.val]}
      BY DEF BindingsOf
    <3>2. BindingsOf(Contents(h), strings') = BindingsOf(Contents(h), strings)
      BY DEF BindingsOf, Inserted
    <3> QED
      BY <3>1, <3>2, BindingsAre DEF Inserted
  <2>4. e.val \in Val
    BY DEF Inserted, Element
  <2> QED
    BY <2>1, <2>2, <2>3, <2>4 DEF D!PutNew
<1> QED
  BY <1>2, <1>3, <1>4 DEF MayLose

\* Of a key that is there.
LEMMA KeptStep ==
  ASSUME IInv, NEW k \in Key, Kept, kind' = kind,
         memory' \subseteq {"table", "buckets", "flags"},
         pc' = "ready", op' = "put", arg' = k, absent' = 0,
         pos' \in h'.used, KeyAt(strings', h'.b[pos']) = k
  PROVE  IInv' /\ MayLose /\ D!PutOld(k)
<1>1. pos' \in Nat
  <2>1. h'.cap \in Nat /\ h'.used \subseteq Buckets(h'.cap)
    BY TableFacts DEF Kept, Sound
  <2> QED
    BY <2>1 DEF Buckets
<1>2. IInv'
  BY <1>1, InvariantNext DEF Kept, IInv, CallIsSound
<1>3. Lost' \subseteq Lost
  BY LostIs DEF Kept
<1>4. D!PutOld(k)
  <2>1. Reply' = [op |-> "put", key |-> k, status |-> "present"]
    BY DEF Reply
  <2>2. k \in D!Bound
    <3>1. h'.b[pos'] \in Contents(h)
      BY DEF Kept, Contents
    <3> QED
      BY <3>1, BoundIs DEF Kept
  <2>3. Bindings' = Bindings
    BY BindingsAre DEF Kept
  <2> QED
    BY <2>1, <2>2, <2>3 DEF D!PutOld
<1> QED
  BY <1>2, <1>3, <1>4 DEF MayLose

\* Calls that give no answer, and the program's end.
LEMMA QuietStep ==
  ASSUME IInv, Kept, kind' = kind, memory' \subseteq {"table", "buckets", "flags"},
         \/ pc' = "crashed" /\ op' \in {"put", "resize"}
         \/ pc' = "ready" /\ op' \in {"none", "get", "resize"},
         arg' \in Key \cup {NoKey}, pos' \in Nat, absent' = 0
  PROVE  IInv' /\ MayLose /\ D!Quiet
<1>1. strings' \in [Addr -> Key \cup {Freed}] /\ Sound(h', strings')
  BY DEF Kept, IInv, CallIsSound
<1>2. IInv'
  BY <1>1, InvariantNext
<1>3. Lost' \subseteq Lost
  BY LostIs DEF Kept
<1>4. D!Quiet
  <2>1. Reply' = [op |-> "none"]
    <3>1. CASE pc' = "crashed"
      BY <3>1 DEF Reply
    <3>2. CASE pc' = "ready" /\ op' = "none"
      BY <3>2 DEF Reply
    <3>3. CASE pc' = "ready" /\ op' = "get"
      BY <3>3 DEF Reply
    <3>4. CASE pc' = "ready" /\ op' = "resize"
      BY <3>4 DEF Reply
    <3> QED
      BY <3>1, <3>2, <3>3, <3>4
  <2>2. Bindings' = Bindings
    BY BindingsAre DEF Kept
  <2> QED
    BY <2>1, <2>2 DEF D!Quiet, D!Silent
<1> QED
  BY <1>2, <1>3, <1>4 DEF MayLose

\* Nothing moves when a call leaves the table and the heap alone.
LEMMA KeptIs ==
  ASSUME IInv, h' = h, strings' = strings
  PROVE  Kept
BY DEF IInv, Kept

LEMMA CrashStep ==
  ASSUME IInv, Crash, op' \in {"put", "resize"}, arg' \in Key \cup {NoKey}
  PROVE  IInv' /\ MayLose /\ D!Quiet
<1>1. /\ Kept /\ kind' = kind /\ memory' \subseteq {"table", "buckets", "flags"}
      /\ pc' = "crashed" /\ pos' \in Nat /\ absent' = 0
  BY KeptIs DEF Crash, IInv, CallIsSound
<1> QED
  BY <1>1, QuietStep

LEMMA GetStep ==
  ASSUME IInv, NEW k \in Key, Get(k)
  PROVE  IInv' /\ MayLose /\ D!Quiet
<1>1. /\ Kept /\ kind' = kind /\ memory' \subseteq {"table", "buckets", "flags"}
      /\ pc' = "ready" /\ op' = "get" /\ arg' = k /\ absent' = 0
  BY KeptIs DEF Get, Call, Return, IInv, CallIsSound
<1>2. pos' \in Nat
  <2>1. h.cap \in Nat /\ h.used \subseteq Buckets(h.cap)
    BY TableFacts DEF IInv, Sound
  <2>2. GetIndex(k) = h.cap \/ GetIndex(k) \in h.used
    BY DEF GetIndex
  <2>3. GetIndex(k) \in Nat
    BY <2>1, <2>2 DEF Buckets
  <2> QED
    BY <2>3 DEF Get, Return
<1> QED
  BY <1>1, <1>2, QuietStep

\* Put, in a table T with room: the one that is there or a larger one.
LEMMA PutStep ==
  ASSUME IInv, NEW T, Sound(T, strings), Contents(T) = Contents(h), T.cap # 0,
         T.count < MaxCount(T.cap), NEW k \in Key, Insert(T, k) \/ Keep(T, k),
         op' = "put", arg' = k, kind' = kind, memory' \subseteq {"table", "buckets", "flags"}
  PROVE  IInv' /\ MayLose /\ (D!PutNew(k) \/ D!PutOld(k))
<1>1. CASE Insert(T, k)
  <2>1. absent' = 1 /\ pc' = "ready" /\ \E e : Inserted(k, e)
    BY <1>1, InsertDoes
  <2>2. PICK e : Inserted(k, e)
    BY <2>1
  <2> QED
    BY <2>1, <2>2, InsertedStep
<1>2. CASE Keep(T, k)
  <2>1. /\ absent' = 0 /\ pc' = "ready" /\ Kept
        /\ pos' \in h'.used /\ KeyAt(strings', h'.b[pos']) = k
    BY <1>2, KeepDoes
  <2> QED
    BY <2>1, KeptStep
<1> QED
  BY <1>1, <1>2

LEMMA PutCalls ==
  ASSUME IInv, NEW k \in Key, Put(k) \/ PutGrow(k)
  PROVE  IInv' /\ MayLose /\ (D!PutNew(k) \/ D!PutOld(k) \/ D!Quiet)
<1>1. /\ op' = "put" /\ arg' = k /\ Sound(h, strings)
      /\ memory \subseteq {"table", "buckets", "flags"}
  BY DEF Put, PutGrow, Call, IInv, CallIsSound
<1>2. CASE Put(k)
  <2>1. h.count < MaxCount(h.cap) /\ h.cap # 0
    <3>1. h.count \in Nat /\ MaxCount(h.cap) \in Nat
      BY <1>1, TableFacts
    <3>2. MaxCount(0) = 0
      BY DEF MaxCount
    <3> QED
      BY <1>2, <3>1, <3>2 DEF Put, Full
  <2>2. CASE (Insert(h, k) \/ Keep(h, k)) /\ UNCHANGED <<kind, memory>>
    BY <1>1, <2>1, <2>2, PutStep
  <2>3. CASE Crash
    BY <1>1, <2>3, CrashStep
  <2> QED
    BY <1>2, <2>2, <2>3 DEF Put
<1>3. CASE PutGrow(k)
  <2>1. PICK cap \in Capacity :
          /\ RoundsUpTo(h.cap + 1, cap)
          /\ \/ /\ Insert(Rehashed(cap), k) \/ Keep(Rehashed(cap), k)
                /\ memory' = memory \cup {"flags", "buckets"}
                /\ UNCHANGED kind
             \/ Crash
    BY <1>3 DEF PutGrow
  <2>2. Full
    BY <1>3 DEF PutGrow
  <2>3. Fits(cap) /\ h.count < MaxCount(cap)
    BY <1>1, <2>1, <2>2, GrowMakesRoom
  <2> DEFINE T == Rehashed(cap)
  <2>4. /\ Sound(T, strings) /\ Contents(T) = Contents(h)
        /\ T.cap = cap /\ T.count = h.count
    BY <2>3, RehashedIs
  <2>5. T.cap # 0 /\ T.count < MaxCount(T.cap)
    BY <2>3, <2>4, CapacityIs
  <2>6. CASE /\ Insert(T, k) \/ Keep(T, k)
             /\ memory' = memory \cup {"flags", "buckets"}
             /\ UNCHANGED kind
    <3>1. kind' = kind /\ memory' \subseteq {"table", "buckets", "flags"}
      BY <1>1, <2>6
    <3> HIDE DEF T
    <3> QED
      BY <1>1, <2>4, <2>5, <2>6, <3>1, PutStep
  <2>7. CASE Crash
    BY <1>1, <2>7, CrashStep
  <2> QED
    BY <2>1, <2>6, <2>7
<1> QED
  BY <1>2, <1>3

\* A put that cannot grow the table, and where the string table's copy is lost.
LEMMA NoMemoryStep ==
  ASSUME IInv, NEW k \in Key, PutNoMemory(k) \/ StrPutNoMemory(k)
  PROVE  IInv' /\ MayLose /\ (D!PutNoMemory(k) \/ D!Quiet)
<1>1. op' = "put" /\ arg' = k
  BY DEF PutNoMemory, StrPutNoMemory, PutCannotGrow, Call
<1>2. CASE Crash
  BY <1>1, <1>2, CrashStep
<1>3. CASE ~Crash
  <2>1. /\ h' = h /\ kind' = kind /\ memory' = memory /\ pc' = "ready"
        /\ pos' = h.cap /\ absent' = -1
        /\ strings' = strings \/ (kind = "dup" /\ \E a \in Addr : Copy(a, k))
    BY <1>3 DEF PutNoMemory, StrPutNoMemory, Return
  <2>2. strings \in [Addr -> Key \cup {Freed}] /\ Sound(h, strings)
        /\ memory \subseteq {"table", "buckets", "flags"}
    BY DEF IInv, CallIsSound
  <2>3. /\ strings' \in [Addr -> Key \cup {Freed}]
        /\ \A x \in h.used : Stored(strings', h.b[x]) /\ KeyAt(strings', h.b[x]) = KeyAt(strings, h.b[x])
    <3>1. CASE strings' = strings
      BY <2>2, <3>1 DEF Sound
    <3>2. CASE kind = "dup" /\ \E a \in Addr : Copy(a, k)
      <4>1. PICK a \in Addr : strings[a] = Freed /\ strings' = [strings EXCEPT ![a] = k]
        BY <3>2 DEF Copy
      <4>2. ASSUME NEW x \in h.used
            PROVE  Stored(strings', h.b[x]) /\ KeyAt(strings', h.b[x]) = KeyAt(strings, h.b[x])
        <5>1. h.b[x] \in Element /\ KeyAt(strings, h.b[x]) \in Key /\ h.b[x].key \in Addr
          BY <2>2, <3>2 DEF Sound, Stored
        <5>2. h.b[x].key # a
          BY <4>1, <5>1, ElementAssumption DEF KeyAt
        <5>3. KeyAt(strings', h.b[x]) = KeyAt(strings, h.b[x])
          BY <2>2, <4>1, <5>1, <5>2 DEF KeyAt
        <5> QED
          BY <3>2, <5>1, <5>3 DEF Stored
      <4> QED
        BY <2>2, <4>1, <4>2
    <3> QED
      BY <2>1, <3>1, <3>2
  <2>4. Sound(h', strings')
    BY <2>1, <2>2, <2>3, HeapMayChange
  <2>5. pos' \in Nat
    BY <2>1, <2>2, TableFacts
  <2>6. IInv'
    BY <1>1, <2>1, <2>2, <2>3, <2>4, <2>5, InvariantNext
  <2>7. D!PutNoMemory(k)
    <3>1. Reply' = [op |-> "put", key |-> k, status |-> "noMemory"]
      BY <1>1, <2>1 DEF Reply
    <3>2. BindingsOf(Contents(h), strings') = BindingsOf(Contents(h), strings)
      BY <2>3 DEF BindingsOf, Contents
    <3>3. Bindings' = Bindings
      BY <2>1, <3>2, BindingsAre
    <3> QED
      BY <3>1, <3>3 DEF D!PutNoMemory
  <2> QED
    BY <2>1, <2>6, <2>7 DEF MayLose
<1> QED
  BY <1>2, <1>3

LEMMA ResizeStep ==
  ASSUME IInv, NEW n, Resize(n) \/ ResizeRefused(n)
  PROVE  IInv' /\ MayLose /\ D!Quiet
<1>1. Sound(h, strings) /\ memory \subseteq {"table", "buckets", "flags"}
  BY DEF IInv, CallIsSound
<1>2. CASE Resize(n)
  <2>1. PICK cap \in Capacity :
          /\ ~TooSmall(cap)
          /\ \/ /\ ReturnNothing("resize")
                /\ h' = Rehashed(cap)
                /\ memory' = memory \cup {"flags", "buckets"}
                /\ UNCHANGED <<kind, strings>>
             \/ /\ Call("resize", NoKey)
                /\ Crash
    BY <1>2 DEF Resize
  <2>2. CASE /\ ReturnNothing("resize")
             /\ h' = Rehashed(cap)
             /\ memory' = memory \cup {"flags", "buckets"}
             /\ UNCHANGED <<kind, strings>>
    <3>1. Sound(Rehashed(cap), strings) /\ Contents(Rehashed(cap)) = Contents(h)
      BY <1>1, <2>1, ResizeFits, RehashedIs
    <3>2. Kept
      BY <2>2, <3>1 DEF Kept
    <3>3. /\ kind' = kind /\ memory' \subseteq {"table", "buckets", "flags"}
          /\ pc' = "ready" /\ op' = "resize" /\ arg' = NoKey /\ pos' = 0 /\ absent' = 0
      BY <1>1, <2>2 DEF ReturnNothing, Call, Return
    <3> QED
      BY <3>2, <3>3, QuietStep
  <2>3. CASE Call("resize", NoKey) /\ Crash
    BY <2>3, CrashStep DEF Call
  <2> QED
    BY <2>1, <2>2, <2>3
<1>3. CASE ResizeRefused(n)
  <2>1. /\ Kept /\ kind' = kind /\ memory' \subseteq {"table", "buckets", "flags"}
        /\ pc' = "ready" /\ op' = "resize" /\ arg' = NoKey /\ pos' = 0 /\ absent' = 0
    BY <1>1, <1>3, KeptIs DEF ResizeRefused, ReturnNothing, Call, Return
  <2> QED
    BY <2>1, QuietStep
<1> QED
  BY <1>2, <1>3

LEMMA DelEmptyStep ==
  ASSUME IInv, DelEmpty
  PROVE  IInv' /\ MayLose /\ D!Quiet
<1>1. /\ Kept /\ kind' = kind /\ memory' \subseteq {"table", "buckets", "flags"}
      /\ pc' = "ready" /\ op' = "none" /\ arg' = NoKey /\ pos' = 0 /\ absent' = 0
  BY KeptIs DEF DelEmpty, ReturnNothing, Call, Return, IInv, CallIsSound
<1> QED
  BY <1>1, QuietStep

\* The answer the client holds is that of a put.
LEMMA HoldsRefers ==
  ASSUME IInv, Holds
  PROVE  D!RefersTo(arg) /\ arg \in Key /\ pos \in h.used /\ arg = KeyAt(strings, h.b[pos])
<1>1. absent \in {0, 1} /\ pc = "ready" /\ op = "put"
  BY DEF Holds, IInv, CallIsSound
<1>2. pos \in h.used /\ KeyAt(strings, h.b[pos]) = arg
  BY DEF IInv, CallIsSound, AnswerIsRight
<1>3. arg \in Key
  BY <1>2 DEF IInv, Sound, Stored
<1>4. \/ Reply = [op |-> "put", key |-> arg, status |-> "absent"]
      \/ Reply = [op |-> "put", key |-> arg, status |-> "present"]
  BY <1>1 DEF Reply
<1> QED
  BY <1>2, <1>3, <1>4 DEF D!RefersTo

LEMMA DelStep ==
  ASSUME IInv, Del
  PROVE  IInv' /\ MayLose /\ arg \in Key /\ D!Del(arg)
<1>1. Removed
  BY DelDoes
<1>2. /\ kind' = kind /\ memory' = memory /\ arg' = arg /\ pc' = "ready" /\ op' = "del"
      /\ pos' = 0 /\ absent' = 0 /\ Holds
  BY DEF Del, Return
<1>3. /\ memory \subseteq {"table", "buckets", "flags"} /\ arg \in Key \cup {NoKey}
      /\ Sound(h, strings)
  BY DEF IInv, CallIsSound
<1>4. IInv'
  BY <1>1, <1>2, <1>3, InvariantNext DEF Removed
<1>5. Lost' \subseteq Lost
  <2>1. ASSUME NEW a \in Lost' PROVE a \in Lost
    <3>1. a \in Addr /\ strings'[a] # Freed /\ \A e \in Contents(h') : e.key # a
      BY LostIs
    <3>2. a # h.b[pos].key /\ strings[a] # Freed
      BY <1>1, <3>1 DEF Removed
    <3>3. \A e \in Contents(h) : e = h.b[pos] \/ e \in Contents(h')
      BY <1>1 DEF Removed, Contents
    <3> QED
      BY <3>1, <3>2, <3>3, LostIs
  <2> QED
    BY <2>1
<1>6. D!RefersTo(arg) /\ arg \in Key
  BY <1>2, HoldsRefers
<1>7. Bindings' = {b \in Bindings : b.key # arg}
  <2> DEFINE N(x) == [key |-> KeyAt(strings, h.b[x]), val |-> h.b[x].val]
  <2>1. Bindings = {N(x) : x \in h.used}
    BY DEF Bindings
  <2>2. Bindings' = {N(x) : x \in h.used \ {pos}}
    <3>1. Bindings' = BindingsOf({h.b[x] : x \in h.used \ {pos}}, strings')
      BY <1>1, BindingsAre DEF Removed
    <3>2. BindingsOf({h.b[x] : x \in h.used \ {pos}}, strings')
            = {[key |-> KeyAt(strings', h.b[x]), val |-> h.b[x].val] : x \in h.used \ {pos}}
      BY DEF BindingsOf
    <3> QED
      BY <1>1, <3>1, <3>2 DEF Removed
  <2>3. \A x \in h.used : N(x).key = arg <=> x = pos
    BY <1>1, <1>3 DEF Removed, Sound
  <2> HIDE DEF N
  <2> QED
    BY <2>1, <2>2, <2>3
<1>8. Reply' = [op |-> "del", key |-> arg]
  BY <1>2 DEF Reply
<1>9. D!Del(arg)
  BY <1>6, <1>7, <1>8 DEF D!Del
<1> QED
  BY <1>4, <1>5, <1>6, <1>9 DEF MayLose

LEMMA SetValStep ==
  ASSUME IInv, NEW v \in Val, SetVal(v)
  PROVE  IInv' /\ MayLose /\ arg \in Key /\ D!SetVal(arg, v)
<1>1. /\ Sound(h', strings') /\ h'.used = h.used
      /\ pos \in h.used /\ arg = KeyAt(strings, h.b[pos])
      /\ h'.b[pos].key = h.b[pos].key /\ h'.b[pos].val = v
      /\ \A x \in h.used \ {pos} : h'.b[x] = h.b[x]
  BY SetValDoes
<1>2. /\ strings' = strings /\ kind' = kind /\ memory' = memory /\ pc' = pc /\ op' = op
      /\ arg' = arg /\ pos' = pos /\ absent' = absent /\ Holds
  BY DEF SetVal, call
<1>3. /\ strings \in [Addr -> Key \cup {Freed}] /\ memory \subseteq {"table", "buckets", "flags"}
      /\ pc = "ready" /\ arg \in Key \cup {NoKey} /\ Sound(h, strings) /\ op = "put"
      /\ pos \in Nat /\ absent \in {-1, 0, 1}
  BY <1>2 DEF IInv, CallIsSound, Holds
<1>4. KeyAt(strings', h'.b[pos]) = arg
  BY <1>1, <1>2 DEF KeyAt
<1>5. IInv'
  BY <1>1, <1>2, <1>3, <1>4, InvariantNext
<1>6. Lost' \subseteq Lost
  <2>1. \A x \in h.used : h'.b[x].key = h.b[x].key
    BY <1>1
  <2> QED
    BY <1>1, <1>2, <2>1 DEF Lost
<1>7. D!RefersTo(arg) /\ arg \in Key
  BY <1>2, HoldsRefers
<1>8. Bindings' = {b \in Bindings : b.key # arg} \cup {[key |-> arg, val |-> v]}
  <2> DEFINE N(x) == [key |-> KeyAt(strings, h.b[x]), val |-> h.b[x].val]
             M(x) == [key |-> KeyAt(strings, h'.b[x]), val |-> h'.b[x].val]
  <2>1. Bindings = {N(x) : x \in h.used}
    BY DEF Bindings
  <2>2. Bindings' = {M(x) : x \in h.used}
    BY <1>1, <1>2 DEF Bindings, KeyAt
  <2>3. \A x \in h.used : N(x).key = arg <=> x = pos
    BY <1>1, <1>3 DEF Sound
  <2>4. M(pos) = [key |-> arg, val |-> v] /\ \A x \in h.used \ {pos} : M(x) = N(x)
    BY <1>1, <1>2, <1>4
  <2> HIDE DEF N, M
  <2> QED
    BY <1>1, <2>1, <2>2, <2>3, <2>4
<1>9. Reply' = Reply
  BY <1>2 DEF Reply
<1>10. D!SetVal(arg, v)
  BY <1>7, <1>8, <1>9 DEF D!SetVal
<1> QED
  BY <1>5, <1>6, <1>7, <1>10 DEF MayLose

LEMMA ClearStep ==
  ASSUME IInv, Clear
  PROVE  IInv' /\ MayLose /\ D!Clear
<1>1. Sound(h', strings') /\ Contents(h') = {}
  BY ClearDoes
<1>2. /\ kind' = kind /\ strings' = strings /\ memory' = memory
      /\ pc' = "ready" /\ op' = "clear" /\ arg' = NoKey /\ pos' = 0 /\ absent' = 0
  BY DEF Clear, ReturnNothing, Call, Return
<1>3. /\ strings \in [Addr -> Key \cup {Freed}] /\ memory \subseteq {"table", "buckets", "flags"}
  BY DEF IInv, CallIsSound
<1>4. IInv'
  BY <1>1, <1>2, <1>3, InvariantNext
<1>5. Bindings' = {} /\ Reply' = [op |-> "clear"]
  BY <1>1, <1>2, BindingsAre DEF BindingsOf, Reply
<1> QED
  BY <1>2, <1>4, <1>5 DEF MayLose, D!Clear

\* khp_str_destroy frees every copy that is in the table.
LEMMA DestroyStep ==
  ASSUME IInv, Destroy
  PROVE  IInv' /\ MayLose /\ D!Clear
<1>1. Sound(h', strings') /\ Contents(h') = {}
  BY ClearDoes
<1>2. /\ kind' = kind /\ memory' = memory \ {"buckets", "table"}
      /\ pc' = "destroyed" /\ op' = "destroy" /\ arg' = NoKey /\ pos' = 0 /\ absent' = 0
      /\ strings' = IF kind = "dup"
                      THEN [a \in Addr |-> IF \E x \in h.used : h.b[x].key = a
                                             THEN Freed ELSE strings[a]]
                      ELSE strings
  BY DEF Destroy
<1>3. /\ strings \in [Addr -> Key \cup {Freed}] /\ memory \subseteq {"table", "buckets", "flags"}
      /\ Sound(h, strings)
  BY DEF IInv, CallIsSound
<1>4. /\ strings' \in [Addr -> Key \cup {Freed}]
      /\ \A a \in Addr : strings'[a] # Freed =>
           strings[a] # Freed /\ \A x \in h.used : h.b[x].key # a
  <2>1. CASE kind = "dup"
    BY <1>2, <1>3, <2>1
  <2>2. CASE kind # "dup"
    <3>1. \A x \in h.used : h.b[x].key \in Key
      BY <1>3, <2>2 DEF Sound, Stored
    <3>2. \A x \in h.used : h.b[x].key \notin Addr
      BY <3>1, ElementAssumption
    <3> QED
      BY <1>2, <1>3, <2>2, <3>2
  <2> QED
    BY <2>1, <2>2
<1>5. IInv'
  <2>1. Sound(h, strings)'
    BY <1>1, <1>2, SoundNext
  <2>2. AnswerIsRight' /\ DestroyKeepsFlagsOnly'
    BY <1>2, <1>3 DEF AnswerIsRight, Holds, DestroyKeepsFlagsOnly
  <2>3. kind \in {"generic", "string", "dup"}
    BY DEF IInv, CallIsSound
  <2>4. memory' \subseteq {"table", "buckets", "flags"}
    BY <1>2, <1>3
  <2> QED
    BY <1>2, <1>4, <2>1, <2>2, <2>3, <2>4 DEF IInv, CallIsSound
<1>6. Lost' \subseteq Lost
  BY <1>4 DEF Lost
<1>7. Bindings' = {} /\ Reply' = [op |-> "clear"]
  BY <1>1, <1>2, BindingsAre DEF BindingsOf, Reply
<1> QED
  BY <1>5, <1>6, <1>7 DEF MayLose, D!Clear

(***************************************************************************)
(* The theorems.                                                           *)
(***************************************************************************)
LEMMA InitIsSound == Init => IInv /\ D!Init
<1> SUFFICES ASSUME Init PROVE IInv /\ D!Init
  OBVIOUS
<1>1. h = [cap |-> 0, b |-> <<>>, used |-> {}, count |-> 0]
  BY DEF Init, Empty
<1>2. <<>> \in [Buckets(0) -> Element \cup {NoBucket}]
  BY DEF Buckets
<1>3. h.cap = 0 /\ h.b = <<>> /\ h.used = {} /\ h.count = 0
  BY <1>1
<1>4. h = [cap |-> h.cap, b |-> h.b, used |-> h.used, count |-> h.count]
  BY <1>1, <1>3
<1>5. Sound(h, strings) /\ Contents(h) = {}
  BY <1>2, <1>3, <1>4, EmptyIsSound
<1>6. CallIsSound
  <2>1. strings \in [Addr -> Key \cup {Freed}]
    BY DEF Init
  <2> QED
    BY <2>1 DEF Init, CallIsSound, AnswerIsRight, Holds, DestroyKeepsFlagsOnly
<1>7. Bindings = {} /\ Reply = [op |-> "none"]
  BY <1>5, BindingsAre DEF BindingsOf, Reply, Init
<1> QED
  BY <1>5, <1>6, <1>7 DEF IInv, D!Init, D!Silent

LEMMA EveryStep ==
  ASSUME IInv, [Next]_vars
  PROVE  /\ IInv'
         /\ MayLose \/ UNCHANGED vars
         /\ [D!Next]_D!vars
<1>1. CASE UNCHANGED vars
  <2>1. UNCHANGED <<kind, h, strings, memory, pc, op, arg, pos, absent>>
    BY <1>1 DEF vars, call
  <2>2. IInv'
    <3>1. Sound(h, strings)'
      BY <2>1, SoundNext DEF IInv
    <3>2. CallIsSound'
      BY <2>1 DEF IInv, CallIsSound, AnswerIsRight, Holds, DestroyKeepsFlagsOnly, KeyAt
    <3> QED
      BY <3>1, <3>2 DEF IInv
  <2>3. Bindings' = Bindings /\ Reply' = Reply
    BY <2>1 DEF Bindings, KeyAt, Reply
  <2> QED
    BY <1>1, <2>2, <2>3 DEF D!vars
<1>2. CASE \E k \in Key : Get(k) \/ Put(k) \/ PutGrow(k) \/ PutNoMemory(k) \/ StrPutNoMemory(k)
  <2>1. PICK k \in Key : Get(k) \/ Put(k) \/ PutGrow(k) \/ PutNoMemory(k) \/ StrPutNoMemory(k)
    BY <1>2
  <2>2. IInv' /\ MayLose /\ (D!PutNew(k) \/ D!PutOld(k) \/ D!PutNoMemory(k) \/ D!Quiet)
    BY <2>1, GetStep, PutCalls, NoMemoryStep
  <2> QED
    BY <2>2 DEF D!Next
<1>3. CASE \E n \in ResizeRequest : Resize(n) \/ ResizeRefused(n)
  BY <1>3, ResizeStep DEF D!Next
<1>4. CASE \E v \in Val : SetVal(v)
  <2>1. PICK v \in Val : SetVal(v)
    BY <1>4
  <2>2. IInv' /\ MayLose /\ arg \in Key /\ D!SetVal(arg, v)
    BY <2>1, SetValStep
  <2> QED
    BY <2>2 DEF D!Next
<1>5. CASE Del
  <2>1. IInv' /\ MayLose /\ arg \in Key /\ D!Del(arg)
    BY <1>5, DelStep
  <2> QED
    BY <2>1 DEF D!Next
<1>6. CASE DelEmpty
  BY <1>6, DelEmptyStep DEF D!Next
<1>7. CASE Clear
  BY <1>7, ClearStep DEF D!Next
<1>8. CASE Destroy
  BY <1>8, DestroyStep DEF D!Next
<1> QED
  BY <1>1, <1>2, <1>3, <1>4, <1>5, <1>6, <1>7, <1>8 DEF Next, Over

LEMMA InvariantHolds == Spec => []IInv
<1>1. Init => IInv
  BY InitIsSound
<1>2. IInv /\ [Next]_vars => IInv'
  BY EveryStep
<1> QED
  BY <1>1, <1>2, PTL DEF Spec

\* khashp.c: no call breaks the probe sequence of an element, doubles a key,
\* miscounts, or leaves the client an index that is not its key's.
THEOREM TableStaysSound == Spec => []TableIsSound
<1>1. IInv => TableIsSound
  BY SoundIs DEF IInv
<1> QED
  BY <1>1, InvariantHolds, PTL

\* khp_str_init(dup): each used bucket has a copy of its own, which is allocated,
\* whatever swaps of khp_resize and shifts of khp_del it has been through.
THEOREM BucketsKeepTheirCopies == Spec => []BucketsOwnCopies
<1>1. IInv => BucketsOwnCopies
  BY SoundIs DEF IInv
<1> QED
  BY <1>1, InvariantHolds, PTL

\* Only khp_clear and a put without memory lose copies.
THEOREM NoOtherCallLosesCopies == Spec => CopiesAreLostOnlyBy
<1>1. IInv /\ [Next]_vars => [Lost' \subseteq Lost \/ op' = "clear" \/ absent' = -1]_vars
  BY EveryStep DEF MayLose
<1> QED
  BY <1>1, InvariantHolds, PTL DEF Spec, CopiesAreLostOnlyBy

\* The calls of khashp.c, but for khp_get, are those of a map.
THEOREM TableIsAMap == Spec => ImplementsDict
<1>1. Init => D!Init
  BY InitIsSound
<1>2. IInv /\ [Next]_vars => [D!Next]_D!vars
  BY EveryStep
<1> QED
  BY <1>1, <1>2, InvariantHolds, PTL DEF Spec, ImplementsDict, D!Spec
=============================================================================
