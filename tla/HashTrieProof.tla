---------------------------- MODULE HashTrieProof ----------------------------
(***************************************************************************)
(* The trie of HashTrie is sound, what is published in it is there for     *)
(* good, and upsert is atomic: for any number of threads, any keys, any    *)
(* hash function and arenas of any size.                                   *)
(***************************************************************************)
EXTENDS HashTrieProps, Iteration, FiniteSetTheorems

USE HashTrieAssumption

-----------------------------------------------------------------------------
(***************************************************************************)
(* Paths.  P is a set of nodes that no pointer leaves.                     *)
(***************************************************************************)
Closed(r, h, P) ==
  /\ P \subseteq Addr
  /\ r \in P \cup {Null}
  /\ \A x \in P : h[x].child \in [Digit -> P \cup {Null}]

\* What a hash is shifted to is a digit.
LEMMA DigitType == \A k \in Key, d \in Nat : DigitAt(k, d) \in Digit
<1> TAKE k \in Key, d \in Nat
<1>1. Hash[k] \in Seq(Digit)
  OBVIOUS
<1>2. CASE d < Len(Hash[k])
  BY <1>1, <1>2 DEF DigitAt
<1>3. CASE ~(d < Len(Hash[k]))
  BY <1>3 DEF DigitAt, Digit
<1> QED
  BY <1>2, <1>3

\* A path is the function its definition says it is, and stays in P.
LEMMA PathFacts ==
  ASSUME NEW r, NEW h, NEW P, Closed(r, h, P), NEW k \in Key
  PROVE  /\ Path(r, h, k) \in [Nat -> P \cup {Null}]
         /\ Path(r, h, k)[0] = r
         /\ \A d \in Nat :
              Path(r, h, k)[d + 1] =
                IF Path(r, h, k)[d] = Null THEN Null
                ELSE h[Path(r, h, k)[d]].child[DigitAt(k, d)]
<1> DEFINE V == P \cup {Null}
           next(d, x) == IF x = Null THEN Null ELSE h[x].child[DigitAt(k, d)]
           step == [d \in Nat |-> [x \in V |-> next(d, x)]]
           body(f) == [d \in Nat |-> IF d = 0 THEN r
                                     ELSE IF f[d - 1] = Null THEN Null
                                     ELSE h[f[d - 1]].child[DigitAt(k, d - 1)]]
<1>1. step \in [Nat -> [V -> V]]
  <2>1. ASSUME NEW d \in Nat, NEW x \in V PROVE next(d, x) \in V
    BY DigitType DEF Closed
  <2> QED
    BY <2>1
<1>2. r \in V
  BY DEF Closed
<1> HIDE DEF V, step
<1>a. Loop(V, r, step)
  BY ONLY <1>1, <1>2 DEF Loop
<1>b. PICK f : History(V, r, step, f)
  BY ONLY <1>a, LoopHasHistory
<1>3. f \in [Nat -> V] /\ f[0] = r /\ \A n \in Nat : f[n + 1] = step[n][f[n]]
  BY ONLY <1>b DEF History
<1>4. f = body(f)
  <2>1. ASSUME NEW d \in Nat PROVE f[d] = body(f)[d]
    <3>1. CASE d = 0
      BY <1>3, <3>1
    <3>2. CASE d # 0
      <4>1. d - 1 \in Nat /\ (d - 1) + 1 = d /\ f[d - 1] \in V
        BY <1>3, <3>2
      <4>2. f[d] = step[d - 1][f[d - 1]]
        BY <1>3, <4>1
      <4>3. f[d] = next(d - 1, f[d - 1])
        BY <4>1, <4>2 DEF step
      <4> QED
        BY <3>2, <4>3
    <3> QED
      BY <3>1, <3>2
  <2> QED
    BY <1>3, <2>1
<1>5. Path(r, h, k) = body(Path(r, h, k))
  <2>1. Path(r, h, k) = CHOOSE g : g = body(g)
    BY DEF Path
  <2> HIDE DEF body
  <2> QED
    BY <1>4, <2>1, Zenon
<1> DEFINE g == Path(r, h, k)
<1> HIDE DEF g
<1>6. g = body(g)
  BY <1>5 DEF g
<1>7. g[0] = r
  BY <1>6
<1>8. ASSUME NEW d \in Nat PROVE g[d + 1] = next(d, g[d])
  <2>1. d + 1 \in Nat /\ d + 1 # 0 /\ (d + 1) - 1 = d
    OBVIOUS
  <2>2. g[d + 1] = body(g)[d + 1]
    BY <1>6
  <2> QED
    BY <2>1, <2>2
<1>9. g \in [Nat -> V]
  <2> DEFINE S == {d \in Nat : g[d] \in V}
  <2>1. 0 \in S
    BY <1>2, <1>7
  <2>2. ASSUME NEW d \in S PROVE d + 1 \in S
    <3>1. d \in Nat /\ g[d] \in V
      OBVIOUS
    <3>2. next(d, g[d]) \in V
      BY <3>1, DigitType DEF Closed, V
    <3>3. g[d + 1] = next(d, g[d])
      BY <1>8, <3>1
    <3>4. g[d + 1] \in V
      BY <3>2, <3>3
    <3> QED
      BY <3>1, <3>4
  <2>3. S \in SUBSET Nat
    OBVIOUS
  <2> HIDE DEF S
  <2>4. S = Nat
    BY <2>1, <2>2, <2>3, InductionOnNat
  <2>5. \A d \in Nat : g[d] \in V
    BY <2>4 DEF S
  <2>6. g = [d \in Nat |-> g[d]]
    BY <1>6
  <2> QED
    BY <2>5, <2>6
<1> QED
  BY <1>7, <1>8, <1>9 DEF g, V

\* A path that has ended does not go on.
LEMMA PathEnds ==
  ASSUME NEW r, NEW h, NEW P, Closed(r, h, P), NEW k \in Key,
         NEW d \in Nat, Path(r, h, k)[d] = Null, NEW e \in Nat, d <= e
  PROVE  Path(r, h, k)[e] = Null
<1> DEFINE S == {i \in Nat : Path(r, h, k)[d + i] = Null}
<1>a. \A i \in Nat :
        Path(r, h, k)[i + 1] =
          IF Path(r, h, k)[i] = Null THEN Null ELSE h[Path(r, h, k)[i]].child[DigitAt(k, i)]
  BY PathFacts, Zenon
<1>1. 0 \in S
  OBVIOUS
<1>2. ASSUME NEW i \in S PROVE i + 1 \in S
  <2>1. d + i \in Nat /\ (d + i) + 1 = d + (i + 1)
    OBVIOUS
  <2>2. Path(r, h, k)[(d + i) + 1] = Null
    BY <2>1, <1>a
  <2> QED
    BY <2>1, <2>2
<1>3. S \in SUBSET Nat
  OBVIOUS
<1> HIDE DEF S
<1>4. S = Nat
  BY <1>1, <1>2, <1>3, InductionOnNat
<1>5. e - d \in S /\ d + (e - d) = e
  BY <1>4
<1> QED
  BY <1>5 DEF S

\* While pointers are written once, a path keeps its nodes.
LEMMA PathStays ==
  ASSUME NEW r, NEW h, NEW P, Closed(r, h, P),
         NEW q, NEW g, NEW Q, Closed(q, g, Q),
         r # Null => q = r,
         \A x \in P, d \in Digit : h[x].child[d] # Null => g[x].child[d] = h[x].child[d],
         NEW k \in Key
  PROVE  \A d \in Nat : Path(r, h, k)[d] # Null => Path(q, g, k)[d] = Path(r, h, k)[d]
<1> DEFINE A == Path(r, h, k)
           B == Path(q, g, k)
           S == {d \in Nat : A[d] # Null => B[d] = A[d]}
<1>1. A \in [Nat -> P \cup {Null}] /\ A[0] = r
  BY ONLY Closed(r, h, P), k \in Key, PathFacts
<1>2. \A d \in Nat : A[d + 1] = IF A[d] = Null THEN Null ELSE h[A[d]].child[DigitAt(k, d)]
  BY ONLY Closed(r, h, P), k \in Key, PathFacts
<1>3. B[0] = q
  BY ONLY Closed(q, g, Q), k \in Key, PathFacts
<1>4. \A d \in Nat : B[d + 1] = IF B[d] = Null THEN Null ELSE g[B[d]].child[DigitAt(k, d)]
  BY ONLY Closed(q, g, Q), k \in Key, PathFacts
<1> HIDE DEF A, B
<1>5. 0 \in S
  BY <1>1, <1>3
<1>6. ASSUME NEW d \in S PROVE d + 1 \in S
  <2> SUFFICES ASSUME A[d + 1] # Null PROVE B[d + 1] = A[d + 1]
    OBVIOUS
  <2>1. A[d] # Null /\ A[d] \in P /\ A[d + 1] = h[A[d]].child[DigitAt(k, d)]
    BY <1>1, <1>2
  <2>2. B[d + 1] = g[A[d]].child[DigitAt(k, d)]
    BY <1>4, <2>1
  <2> QED
    BY <2>1, <2>2, DigitType
<1>7. S \in SUBSET Nat
  OBVIOUS
<1> HIDE DEF S
<1>8. S = Nat
  BY <1>5, <1>6, <1>7, InductionOnNat
<1> QED
  BY <1>8 DEF S, A, B

\* Where no pointer is written, a path does not change.
LEMMA PathIsSame ==
  ASSUME NEW r, NEW h, NEW g, NEW P, Closed(r, h, P),
         \A x \in P : g[x].child = h[x].child,
         NEW k \in Key, NEW d \in Nat
  PROVE  Path(r, g, k)[d] = Path(r, h, k)[d]
<1>1. Closed(r, g, P)
  BY DEF Closed
<1>2. Path(r, h, k)[d] # Null => Path(r, g, k)[d] = Path(r, h, k)[d]
  BY <1>1, PathStays
<1>3. Path(r, g, k)[d] # Null => Path(r, h, k)[d] = Path(r, g, k)[d]
  BY <1>1, PathStays
<1> QED
  BY <1>2, <1>3

-----------------------------------------------------------------------------
(***************************************************************************)
(* The trie in a sound state.                                              *)
(***************************************************************************)
\* What is published is a set of nodes that no pointer leaves.
LEMMA PublishedIsClosed ==
  ASSUME TrieIsSound
  PROVE  /\ Closed(root, heap, Published)
         /\ Root \in Slots
         /\ \A x \in Published : heap[x] \in Node
         /\ \A x \in Published, d \in Digit : <<x, d>> \in Slots /\ <<x, d>> # Root
<1> USE DEF TrieIsSound
<1>1. ASSUME NEW m \in Slots PROVE At(m) \in Addr \cup {Null}
  <2>1. CASE m = Root
    BY <2>1 DEF At, TypeOK
  <2>2. CASE m # Root
    <3>1. m \in Addr \X Digit /\ heap[m[1]] # Null
      BY <2>2 DEF Slots
    <3>2. heap[m[1]] \in Node
      BY <3>1 DEF TypeOK
    <3> QED
      BY <2>2, <3>1, <3>2 DEF At, Node
  <2> QED
    BY <2>1, <2>2
<1>2. Published \subseteq Addr
  BY <1>1 DEF Published
<1>3. ASSUME NEW x \in Published PROVE heap[x] \in Node
  <2>1. x \in Addr /\ heap[x] # Null
    BY <1>2 DEF PublishedIsAllocated, RollbackIsPrivate
  <2> QED
    BY <2>1 DEF TypeOK
<1>4. ASSUME NEW x \in Published, NEW d \in Digit PROVE <<x, d>> \in Slots /\ <<x, d>> # Root
  <2>1. heap[x] # Null
    BY <1>3
  <2>2. <<x, d>> \in Addr \X Digit
    BY <1>2
  <2> QED
    BY <2>1, <2>2 DEF Slots
<1>5. Root \in Slots
  BY DEF Slots
<1>6. root \in Published \cup {Null}
  BY <1>5 DEF Published, At
<1>7. ASSUME NEW x \in Published PROVE heap[x].child \in [Digit -> Published \cup {Null}]
  <2>1. heap[x].child \in [Digit -> Addr \cup {Null}]
    BY <1>3 DEF Node
  <2>2. ASSUME NEW d \in Digit PROVE heap[x].child[d] \in Published \cup {Null}
    <3>1. At(<<x, d>>) = heap[x].child[d]
      BY <1>4 DEF At
    <3> QED
      BY <1>4, <3>1 DEF Published
  <2> QED
    BY <2>1, <2>2
<1> QED
  BY <1>2, <1>3, <1>4, <1>5, <1>6, <1>7 DEF Closed

\* A pointer that leads somewhere is in a published node.
LEMMA PointersArePublished ==
  ASSUME TrieIsSound, NEW m \in Slots, At(m) # Null, m # Root
  PROVE  m[1] \in Published /\ m[2] \in Digit /\ m = <<m[1], m[2]>>
<1> USE DEF TrieIsSound
<1>1. m \in Addr \X Digit /\ heap[m[1]] # Null
  BY DEF Slots
<1>2. m[1] \in Addr /\ m[2] \in Digit /\ m = <<m[1], m[2]>>
  BY <1>1
<1>3. CASE m[1] \notin Published
  <2>1. m[1] = new[m[1][1]] /\ m[1][1] \in Thread
    BY <1>1, <1>2, <1>3 DEF RollbackIsPrivate, Addr
  <2>2. heap[m[1]] = FreshNode(key[m[1][1]])
    BY <1>2, <2>1 DEF RollbackIsPrivate
  <2>3. At(m) = Null
    BY <1>2, <2>2 DEF At, FreshNode
  <2> QED
    BY <2>3
<1> QED
  BY <1>2, <1>3

\* A walk is in the published nodes, and its next node is where it points.
LEMMA WalkFacts ==
  ASSUME TrieIsSound, NEW k \in Key
  PROVE  /\ Walk(k) \in [Nat -> Published \cup {Null}]
         /\ \A d \in Nat : d = 0 \/ Walk(k)[d - 1] # Null =>
              PlaceOn(k, d) \in Slots /\ At(PlaceOn(k, d)) = Walk(k)[d]
         /\ \A d, e \in Nat : d <= e /\ Walk(k)[d] = Null => Walk(k)[e] = Null
<1>1. /\ Closed(root, heap, Published)
      /\ Root \in Slots
      /\ \A x \in Published, d \in Digit : <<x, d>> \in Slots /\ <<x, d>> # Root
  BY PublishedIsClosed
<1>2. Walk(k) \in [Nat -> Published \cup {Null}] /\ Walk(k)[0] = root
  BY ONLY <1>1, k \in Key, PathFacts DEF Walk
<1>3. \A d \in Nat : Walk(k)[d + 1] = IF Walk(k)[d] = Null THEN Null
                                      ELSE heap[Walk(k)[d]].child[DigitAt(k, d)]
  BY ONLY <1>1, k \in Key, PathFacts DEF Walk
<1>4. \A d, e \in Nat : d <= e /\ Walk(k)[d] = Null => Walk(k)[e] = Null
  BY ONLY <1>1, k \in Key, PathEnds DEF Walk
<1>5. ASSUME NEW d \in Nat, d = 0 \/ Walk(k)[d - 1] # Null
      PROVE  PlaceOn(k, d) \in Slots /\ At(PlaceOn(k, d)) = Walk(k)[d]
  <2>1. CASE d = 0
    BY <1>1, <1>2, <2>1 DEF PlaceOn, At
  <2>2. CASE d # 0
    <3> DEFINE x == Walk(k)[d - 1]
               i == DigitAt(k, d - 1)
    <3>1. d - 1 \in Nat /\ (d - 1) + 1 = d
      BY <2>2
    <3>2. x \in Published /\ i \in Digit
      BY <1>2, <1>5, <2>2, <3>1, DigitType
    <3>3. Walk(k)[d] = heap[x].child[i]
      BY <1>3, <1>5, <2>2, <3>1
    <3>4. PlaceOn(k, d) = <<x, i>>
      BY <2>2 DEF PlaceOn
    <3> HIDE DEF x, i
    <3> QED
      BY <1>1, <3>2, <3>3, <3>4 DEF At
  <2> QED
    BY <2>1, <2>2
<1> QED
  BY <1>2, <1>4, <1>5

\* All paths that lead to a node meet it in the same turn.
LEMMA DepthIsUnique ==
  ASSUME TrieIsSound
  PROVE  \A d, e \in Nat, k, q \in Key :
           Walk(k)[d] = Walk(q)[e] /\ Walk(k)[d] # Null => d = e
<1> DEFINE S == {d \in Nat : \A e \in Nat, k, q \in Key :
                               Walk(k)[d] = Walk(q)[e] /\ Walk(k)[d] # Null => d = e}
<1>1. ASSUME NEW d \in Nat, NEW e \in Nat, NEW k \in Key, NEW q \in Key,
             Walk(k)[d] = Walk(q)[e], Walk(k)[d] # Null
      PROVE  PlaceOn(k, d) = PlaceOn(q, e)
  <2>1. ASSUME NEW c \in Nat, NEW p \in Key, Walk(p)[c] # Null
        PROVE  c = 0 \/ Walk(p)[c - 1] # Null
    <3>1. CASE c # 0
      <4>1. c - 1 \in Nat /\ c - 1 <= c
        BY <3>1
      <4> QED
        BY <2>1, <4>1, WalkFacts
    <3> QED
      BY <3>1
  <2>2. PlaceOn(k, d) \in Slots /\ At(PlaceOn(k, d)) = Walk(k)[d]
    BY <1>1, <2>1, WalkFacts
  <2>3. PlaceOn(q, e) \in Slots /\ At(PlaceOn(q, e)) = Walk(q)[e]
    BY <1>1, <2>1, WalkFacts
  <2> QED
    BY <1>1, <2>2, <2>3 DEF TrieIsSound, IsATree
<1>2. ASSUME NEW d \in Nat, NEW k \in Key, d # 0, Walk(k)[d] # Null
      PROVE  PlaceOn(k, d) # Root /\ Walk(k)[d - 1] # Null
  <2>1. d - 1 \in Nat /\ d - 1 <= d
    BY <1>2
  <2>2. Walk(k)[d - 1] # Null /\ Walk(k)[d - 1] \in Published
    BY <1>2, <2>1, WalkFacts
  <2>3. DigitAt(k, d - 1) \in Digit
    BY <2>1, DigitType
  <2>4. <<Walk(k)[d - 1], DigitAt(k, d - 1)>> # Root
    BY <2>2, <2>3, PublishedIsClosed
  <2> QED
    BY <1>2, <2>2, <2>4 DEF PlaceOn
<1>3. 0 \in S
  <2> SUFFICES ASSUME NEW e \in Nat, NEW k \in Key, NEW q \in Key,
                      Walk(k)[0] = Walk(q)[e], Walk(k)[0] # Null
               PROVE  0 = e
    OBVIOUS
  <2>1. PlaceOn(q, e) = Root
    BY <1>1 DEF PlaceOn
  <2> QED
    BY <1>2, <2>1
<1>4. ASSUME NEW d \in S PROVE d + 1 \in S
  <2> SUFFICES ASSUME NEW e \in Nat, NEW k \in Key, NEW q \in Key,
                      Walk(k)[d + 1] = Walk(q)[e], Walk(k)[d + 1] # Null
               PROVE  d + 1 = e
    OBVIOUS
  <2>1. d + 1 \in Nat /\ d + 1 # 0 /\ (d + 1) - 1 = d /\ d \in Nat
    OBVIOUS
  <2>2. PlaceOn(k, d + 1) = PlaceOn(q, e) /\ PlaceOn(k, d + 1) # Root /\ Walk(k)[d] # Null
    BY <1>1, <1>2, <2>1
  <2>3. e # 0
    BY <2>2 DEF PlaceOn
  <2>4. Walk(k)[d] = Walk(q)[e - 1]
    BY <2>1, <2>2, <2>3 DEF PlaceOn
  <2>5. e - 1 \in Nat
    BY <2>3
  <2>6. d = e - 1
    BY <2>2, <2>4, <2>5
  <2> QED
    BY <2>6
<1>5. S \in SUBSET Nat
  OBVIOUS
<1> HIDE DEF S
<1>6. S = Nat
  BY <1>3, <1>4, <1>5, InductionOnNat
<1> QED
  BY <1>6 DEF S

\* A call's place is a pointer of the trie, the next one on the path of its key.
LEMMA CallIsOnPath ==
  ASSUME TrieIsSound, NEW t \in Thread
  PROVE  /\ key[t] \in Key /\ depth[t] \in Nat
         /\ slot[t] \in Slots /\ At(slot[t]) = Walk(key[t])[depth[t]]
<1>1. key[t] \in Key /\ depth[t] \in Nat
  BY DEF TrieIsSound, TypeOK
<1>2. Reached(key[t], slot[t], depth[t])
  BY DEF TrieIsSound, CallsAreOnTheirWay, CallIsOnItsWay
<1>3. depth[t] = 0 \/ Walk(key[t])[depth[t] - 1] # Null
  <2>1. CASE depth[t] # 0
    <3>1. depth[t] - 1 \in 0..(depth[t] - 1)
      BY <1>1, <2>1
    <3> QED
      BY <1>2, <3>1 DEF Reached
  <2> QED
    BY <2>1
<1> QED
  BY <1>1, <1>2, <1>3, WalkFacts DEF Reached

\* At an empty place, the key of the call is in no node.
LEMMA KeyIsAbsent ==
  ASSUME TrieIsSound, NEW t \in Thread, At(slot[t]) = Null
  PROVE  \A a \in Published : heap[a].key # key[t]
<1> SUFFICES ASSUME NEW a \in Published, heap[a].key = key[t] PROVE FALSE
  OBVIOUS
<1>1. key[t] \in Key /\ depth[t] \in Nat /\ Walk(key[t])[depth[t]] = Null
  BY CallIsOnPath
<1>2. Reached(key[t], slot[t], depth[t])
  BY DEF TrieIsSound, CallsAreOnTheirWay, CallIsOnItsWay
<1>3. PICK d \in Nat : Walk(key[t])[d] = a
  BY DEF TrieIsSound, OnItsPath
<1>4. a # Null
  BY DEF Published
<1>5. ~(depth[t] <= d)
  BY <1>1, <1>3, <1>4, WalkFacts
<1>6. d \in 0..(depth[t] - 1)
  BY <1>1, <1>3, <1>5
<1> QED
  BY <1>2, <1>3, <1>6 DEF Reached

\* From a node with another key a search goes on to the child its hash selects.
LEMMA SearchGoesOn ==
  ASSUME TrieIsSound, NEW t \in Thread, At(slot[t]) # Null, heap[At(slot[t])].key # key[t]
  PROVE  Reached(key[t], <<At(slot[t]), DigitAt(key[t], depth[t])>>, depth[t] + 1)
<1> DEFINE k == key[t]
           d == depth[t]
           n == At(slot[t])
<1>1. k \in Key /\ d \in Nat /\ slot[t] \in Slots /\ n = Walk(k)[d]
  BY CallIsOnPath
<1>2. Reached(k, slot[t], d)
  BY DEF TrieIsSound, CallsAreOnTheirWay, CallIsOnItsWay
<1>3. n \in Published
  BY <1>1 DEF Published
<1>4. n # Null /\ heap[n].key # k
  OBVIOUS
<1> HIDE DEF k, d, n
<1>5. PICK e \in 0..(Cardinality(Published) - 1) : Walk(heap[n].key)[e] = n
  BY <1>3 DEF TrieIsSound, OnItsPath
<1>6. heap[n].key \in Key
  BY <1>3, PublishedIsClosed DEF Node
<1>7. e = d
  BY <1>1, <1>4, <1>5, <1>6, DepthIsUnique
<1>8. Cardinality(Published) \in Nat
  BY FS_CardinalityType DEF TrieIsSound, IsATree
<1>9. d + 1 <= Cardinality(Published)
  BY <1>1, <1>5, <1>7, <1>8
<1>10. PlaceOn(k, d + 1) = <<n, DigitAt(k, d)>>
  <2>1. d + 1 # 0 /\ (d + 1) - 1 = d
    BY <1>1
  <2> QED
    BY <1>1, <2>1 DEF PlaceOn
<1>11. ASSUME NEW i \in 0..((d + 1) - 1)
       PROVE  Walk(k)[i] # Null /\ heap[Walk(k)[i]].key # k
  <2>1. CASE i = d
    BY <1>1, <1>4, <2>1
  <2>2. CASE i # d
    <3>1. i \in 0..(d - 1)
      BY <1>1, <2>2
    <3> QED
      BY <1>2, <3>1 DEF Reached
  <2> QED
    BY <2>1, <2>2
<1>12. Reached(k, <<n, DigitAt(k, d)>>, d + 1)
  BY <1>9, <1>10, <1>11 DEF Reached
<1> QED
  BY <1>12 DEF k, d, n

-----------------------------------------------------------------------------
(***************************************************************************)
(* Steps that publish nothing.                                             *)
(***************************************************************************)
\* No pointer is written, and nodes that are not published have none.
Unwritten ==
  /\ root' = root
  /\ \A x \in Published : heap'[x] = heap[x]
  /\ \A x \in Addr \ Published, d \in Digit : heap'[x] # Null => heap'[x].child[d] = Null

\* The trie is the same after such a step.
LEMMA UnwrittenIsSame ==
  ASSUME TrieIsSound, Unwritten
  PROVE  /\ Published' = Published
         /\ \A k \in Key, d \in Nat : Walk(k)'[d] = Walk(k)[d]
         /\ \A k \in Key, d \in Nat : \A m : Reached(k, m, d)' <=> Reached(k, m, d)
         /\ OneNodePerKey' /\ OnItsPath' /\ IsATree'
<1>1. /\ Closed(root, heap, Published)
      /\ \A x \in Published : heap[x] \in Node
  BY PublishedIsClosed
<1>2. ASSUME NEW m \in Slots, At(m) # Null
      PROVE  m \in Slots' /\ At(m)' = At(m)
  <2>1. CASE m = Root
    BY <2>1 DEF Slots, At, Unwritten
  <2>2. CASE m # Root
    <3>1. m[1] \in Published
      BY <1>2, <2>2, PointersArePublished
    <3>2. heap'[m[1]] = heap[m[1]] /\ heap'[m[1]] # Null
      BY <1>1, <3>1 DEF Unwritten
    <3> QED
      BY <2>2, <3>2 DEF Slots, At
  <2> QED
    BY <2>1, <2>2
<1>3. ASSUME NEW m \in Slots', At(m)' # Null
      PROVE  m \in Slots /\ At(m)' = At(m)
  <2>1. CASE m = Root
    BY <2>1 DEF Slots, At, Unwritten
  <2>2. CASE m # Root
    <3>1. m \in Addr \X Digit /\ heap'[m[1]] # Null /\ At(m)' = heap'[m[1]].child[m[2]]
      BY <2>2 DEF Slots, At
    <3>2. m[1] \in Addr /\ m[2] \in Digit
      BY <3>1
    <3>3. m[1] \in Published
      BY <1>3, <3>1, <3>2 DEF Unwritten
    <3>4. heap'[m[1]] = heap[m[1]]
      BY <3>3 DEF Unwritten
    <3> QED
      BY <2>2, <3>1, <3>4 DEF Slots, At
  <2> QED
    BY <2>1, <2>2
<1>4. Published' = Published
  BY <1>2, <1>3 DEF Published
<1>5. ASSUME NEW k \in Key, NEW d \in Nat PROVE Walk(k)'[d] = Walk(k)[d]
  <2>1. root' = root /\ \A x \in Published : heap'[x].child = heap[x].child
    BY DEF Unwritten
  <2>2. Path(root, heap', k)[d] = Path(root, heap, k)[d]
    BY ONLY <1>1, <2>1, k \in Key, d \in Nat, PathIsSame
  <2> QED
    BY <2>1, <2>2 DEF Walk
<1>6. \A x \in Published : heap'[x] = heap[x]
  BY DEF Unwritten
<1>7. OneNodePerKey'
  BY <1>4, <1>6 DEF TrieIsSound, OneNodePerKey
<1>8. OnItsPath'
  <2> SUFFICES ASSUME NEW a \in Published
               PROVE  \E d \in 0..(Cardinality(Published) - 1) : Path(root', heap', heap'[a].key)[d] = a
    BY <1>4 DEF OnItsPath, Walk
  <2>1. PICK d \in 0..(Cardinality(Published) - 1) : Walk(heap[a].key)[d] = a
    BY DEF TrieIsSound, OnItsPath
  <2>2. heap'[a] = heap[a] /\ heap[a].key \in Key /\ d \in Nat
    BY <1>1, <1>6 DEF Node
  <2> DEFINE k == heap[a].key
  <2>3. k \in Key /\ Walk(k)[d] = a
    BY <2>1, <2>2
  <2>4. k = heap[a].key /\ k = heap'[a].key
    BY <2>2
  <2> HIDE DEF k
  <2>5. \A q \in Key : Path(root', heap', q)[d] = Path(root, heap, q)[d]
    BY <1>5, <2>2 DEF Walk
  <2>6. Path(root', heap', k)[d] = a
    BY <2>3, <2>5 DEF Walk
  <2> QED
    BY <2>4, <2>6
<1>9. IsATree'
  <2>1. IsFiniteSet(Published')
    BY <1>4 DEF TrieIsSound, IsATree
  <2>2. ASSUME NEW m \in Slots', NEW n \in Slots', At(m)' = At(n)', At(m)' # Null PROVE m = n
    BY <1>3, <2>2 DEF TrieIsSound, IsATree
  <2> QED
    BY <2>1, <2>2 DEF IsATree
<1>10. ASSUME NEW k \in Key, NEW m, NEW d \in Nat PROVE Reached(k, m, d)' <=> Reached(k, m, d)
  <2>1. PlaceOn(k, d)' = PlaceOn(k, d)
    <3>1. CASE d = 0
      BY <3>1 DEF PlaceOn
    <3>2. CASE d # 0
      <4>1. d - 1 \in Nat
        BY <3>2
      <4>2. Walk(k)'[d - 1] = Walk(k)[d - 1]
        BY <1>5, <4>1
      <4> QED
        BY <4>2 DEF PlaceOn
    <3> QED
      BY <3>1, <3>2
  <2>2. ASSUME NEW e \in 0..(d - 1), Walk(k)[e] # Null
        PROVE  heap'[Walk(k)[e]] = heap[Walk(k)[e]]
    <3>1. e \in Nat
      OBVIOUS
    <3>2. Walk(k)[e] \in Published
      BY <2>2, <3>1, WalkFacts
    <3> QED
      BY <1>6, <3>2
  <2>3. \A e \in 0..(d - 1) : Walk(k)'[e] = Walk(k)[e]
    BY <1>5
  <2> QED
    BY <1>4, <2>1, <2>2, <2>3 DEF Reached
<1> QED
  BY <1>4, <1>5, <1>7, <1>8, <1>9, <1>10

\* A node that has been allocated and is not published has no children.
LEMMA UnpublishedIsFresh ==
  ASSUME TrieIsSound, NEW x \in Addr \ Published, heap[x] # Null
  PROVE  \A d \in Digit : heap[x].child[d] = Null
<1>1. x = new[x[1]] /\ x[1] \in Thread
  BY DEF TrieIsSound, RollbackIsPrivate, Addr
<1>2. heap[x] = FreshNode(key[x[1]])
  BY <1>1 DEF TrieIsSound, RollbackIsPrivate
<1> QED
  BY <1>2 DEF FreshNode

\* What thread t does to itself does not lead the others astray.
LEMMA OthersKeepOn ==
  ASSUME TrieIsSound, Unwritten, NEW t \in Thread, CallIsOnItsWay(t)',
         \A u \in Thread \ {t} : /\ pc'[u] = pc[u] /\ key'[u] = key[u] /\ insert'[u] = insert[u]
                                 /\ slot'[u] = slot[u] /\ depth'[u] = depth[u]
  PROVE  CallsAreOnTheirWay'
<1>1. ASSUME NEW u \in Thread \ {t} PROVE CallIsOnItsWay(u)'
  <2>1. CallIsOnItsWay(u) /\ key[u] \in Key /\ depth[u] \in Nat
    BY DEF TrieIsSound, CallsAreOnTheirWay, TypeOK
  <2>2. PICK k \in Key, d \in Nat, m \in {slot[u]} : k = key[u] /\ d = depth[u]
    BY <2>1
  <2>3. Reached(k, m, d)
    BY <2>1, <2>2 DEF CallIsOnItsWay
  <2>4. Reached(k, m, d)'
    BY <2>3, UnwrittenIsSame
  <2>5. k = key'[u] /\ d = depth'[u] /\ m = slot'[u]
    BY <2>2
  <2>6. Reached(key[u], slot[u], depth[u])'
    BY <2>4, <2>5 DEF Reached, PlaceOn, Walk
  <2> QED
    BY <2>1, <2>6 DEF CallIsOnItsWay
<1> QED
  BY <1>1 DEF CallsAreOnTheirWay

\* Every search begins at the root.
LEMMA SearchBegins ==
  ASSUME TrieIsSound
  PROVE  \A k \in Key : Reached(k, Root, 0)
<1>1. Cardinality(Published) \in Nat
  BY FS_CardinalityType DEF TrieIsSound, IsATree
<1> QED
  BY <1>1 DEF Reached, PlaceOn

\* The turn that met node n ends at a place of its search.
LEMMA VisitStep ==
  ASSUME TrieIsSound, Unwritten, NEW t \in Thread, At(slot[t]) # Null,
         Visit(t, At(slot[t])), key' = key, insert' = insert
  PROVE  /\ CallsAreOnTheirWay'
         /\ pc' \in [Thread -> {"idle", "load", "alloc", "swap"}]
         /\ slot' \in [Thread -> {Root} \cup (Addr \X Digit)]
         /\ depth' \in [Thread -> Nat]
         /\ result' \in [Thread -> Addr \cup {Null}]
         /\ pc'[t] \in {"idle", "load"} /\ \A u \in Thread \ {t} : pc'[u] = pc[u]
<1>0. /\ TypeOK
      /\ pc \in [Thread -> {"idle", "load", "alloc", "swap"}]
      /\ slot \in [Thread -> {Root} \cup (Addr \X Digit)]
      /\ depth \in [Thread -> Nat]
      /\ result \in [Thread -> Addr \cup {Null}]
  BY DEF TrieIsSound, TypeOK
<1>1. PICK k \in Key, d \in Nat, n \in Published :
        k = key[t] /\ d = depth[t] /\ n = At(slot[t])
  BY CallIsOnPath DEF Published
<1>2. n \in Addr /\ DigitAt(k, d) \in Digit
  BY DigitType, PublishedIsClosed DEF Closed
<1>3. CASE heap[n].key = k
  <2>1. /\ pc' = [pc EXCEPT ![t] = "idle"] /\ result' = [result EXCEPT ![t] = n]
        /\ slot' = [slot EXCEPT ![t] = Root] /\ depth' = [depth EXCEPT ![t] = 0]
    BY <1>1, <1>3 DEF Visit, Return
  <2>2. Reached(k, Root, 0)'
    BY SearchBegins, UnwrittenIsSame
  <2>3. CallIsOnItsWay(t)'
    BY <1>0, <1>1, <2>1, <2>2 DEF CallIsOnItsWay, Reached, PlaceOn, Walk
  <2>4. CallsAreOnTheirWay'
    BY <1>0, <2>1, <2>3, OthersKeepOn
  <2> QED
    BY <1>0, <1>2, <2>1, <2>4
<1>4. CASE heap[n].key # k
  <2>1. /\ slot' = [slot EXCEPT ![t] = <<n, DigitAt(k, d)>>]
        /\ depth' = [depth EXCEPT ![t] = @ + 1]
        /\ pc' = [pc EXCEPT ![t] = "load"] /\ result' = result
    BY <1>1, <1>4 DEF Visit
  <2>2. Reached(k, <<n, DigitAt(k, d)>>, d + 1)
    BY <1>1, <1>4, SearchGoesOn
  <2>3. d + 1 \in Nat
    OBVIOUS
  <2>4. Reached(k, <<n, DigitAt(k, d)>>, d + 1)'
    BY <2>2, <2>3, UnwrittenIsSame
  <2>5. key'[t] = k /\ slot'[t] = <<n, DigitAt(k, d)>> /\ depth'[t] = d + 1
    BY <1>0, <1>1, <2>1
  <2>6. CallIsOnItsWay(t)'
    BY <1>0, <2>1, <2>4, <2>5 DEF CallIsOnItsWay, Reached, PlaceOn, Walk
  <2>7. CallsAreOnTheirWay'
    BY <1>0, <2>1, <2>6, OthersKeepOn
  <2> QED
    BY <1>0, <1>2, <2>1, <2>7
<1> QED
  BY <1>3, <1>4

\* A step that neither allocates nor gives back leaves the arenas in order.
LEMMA ArenasAreSame ==
  ASSUME TrieIsSound, Unwritten, heap' = heap, arena' = arena, new' = new,
         \A t \in Thread : \/ pc'[t] = pc[t] /\ key'[t] = key[t]
                           \/ pc'[t] # "swap" /\ pc[t] # "swap"
  PROVE  PublishedIsAllocated' /\ RollbackIsPrivate'
<1>1. Published' = Published
  BY UnwrittenIsSame
<1>2. PublishedIsAllocated'
  BY <1>1 DEF TrieIsSound, PublishedIsAllocated
<1>3. \A a \in Addr : /\ heap'[a] # Null <=> a[2] < arena'[a[1]]
                      /\ heap'[a] # Null => a \in Published' \/ a = new'[a[1]]
  BY <1>1 DEF TrieIsSound, RollbackIsPrivate
<1>4. ASSUME NEW t \in Thread
      PROVE  IF pc'[t] = "swap"
               THEN new'[t] = <<t, arena'[t] - 1>> /\ new'[t] \in Addr /\ heap'[new'[t]] = FreshNode(key'[t])
               ELSE new'[t] = Null
  BY DEF TrieIsSound, RollbackIsPrivate
<1> QED
  BY <1>2, <1>3, <1>4 DEF RollbackIsPrivate

\* Where no node is written, no pointer is.
LEMMA SameHeapIsUnwritten ==
  ASSUME TrieIsSound, root' = root, heap' = heap
  PROVE  Unwritten
BY UnpublishedIsFresh DEF Unwritten

-----------------------------------------------------------------------------
(***************************************************************************)
(* The actions.                                                            *)
(***************************************************************************)
\* upsert is called: the search begins.
LEMMA CallStep ==
  ASSUME TrieIsSound, NEW t \in Thread, NEW k \in Key, NEW ins \in BOOLEAN, Call(t, k, ins)
  PROVE  TrieIsSound' /\ Unwritten
<1>0. TypeOK
  BY DEF TrieIsSound
<1>1. Unwritten
  BY SameHeapIsUnwritten DEF Call
<1>2. TypeOK'
  BY <1>0 DEF Call, TypeOK
<1>3. Reached(k, Root, 0)'
  BY <1>1, SearchBegins, UnwrittenIsSame
<1>4. /\ key'[t] = k /\ slot'[t] = Root /\ depth'[t] = 0 /\ pc'[t] = "load" /\ pc[t] = "idle"
      /\ \A u \in Thread \ {t} : /\ pc'[u] = pc[u] /\ key'[u] = key[u] /\ insert'[u] = insert[u]
                                 /\ slot'[u] = slot[u] /\ depth'[u] = depth[u]
  BY <1>0 DEF Call, TypeOK
<1>5. CallIsOnItsWay(t)'
  BY <1>3, <1>4 DEF CallIsOnItsWay, Reached, PlaceOn, Walk
<1>6. CallsAreOnTheirWay'
  BY <1>1, <1>4, <1>5, OthersKeepOn
<1>7. PublishedIsAllocated' /\ RollbackIsPrivate'
  BY <1>1, <1>4, ArenasAreSame DEF Call
<1> QED
  BY <1>1, <1>2, <1>6, <1>7, UnwrittenIsSame DEF TrieIsSound

\* A pointer is loaded: it leads to a node, or to nothing.
LEMMA LoadStep ==
  ASSUME TrieIsSound, NEW t \in Thread, Load(t)
  PROVE  TrieIsSound' /\ Unwritten
<1>0. TypeOK
  BY DEF TrieIsSound
<1>1. Unwritten /\ pc[t] = "load"
  BY SameHeapIsUnwritten DEF Load
<1>2. /\ key' = key /\ insert' = insert /\ heap' = heap /\ arena' = arena /\ new' = new
      /\ root' = root /\ aborted' = aborted
  BY DEF Load
<1>3. /\ CallsAreOnTheirWay' /\ TypeOK'
      /\ pc'[t] # "swap" /\ \A u \in Thread \ {t} : pc'[u] = pc[u]
  <2>1. CASE At(slot[t]) # Null /\ Visit(t, At(slot[t]))
    BY <1>0, <1>1, <1>2, <2>1, VisitStep DEF TypeOK
  <2>2. CASE At(slot[t]) = Null /\ ~insert[t] /\ Return(t, Null)
    <3>1. PICK k \in Key : k = key[t]
      BY <1>0 DEF TypeOK
    <3>2. Reached(k, Root, 0)'
      BY <1>1, SearchBegins, UnwrittenIsSame
    <3>3. /\ key'[t] = k /\ slot'[t] = Root /\ depth'[t] = 0 /\ pc'[t] = "idle"
          /\ \A u \in Thread \ {t} : /\ pc'[u] = pc[u] /\ key'[u] = key[u] /\ insert'[u] = insert[u]
                                     /\ slot'[u] = slot[u] /\ depth'[u] = depth[u]
      BY <1>0, <1>2, <2>2, <3>1 DEF Return, TypeOK
    <3>4. CallIsOnItsWay(t)'
      BY <3>2, <3>3 DEF CallIsOnItsWay, Reached, PlaceOn, Walk
    <3>5. CallsAreOnTheirWay'
      BY <1>1, <3>3, <3>4, OthersKeepOn
    <3>6. TypeOK'
      BY <1>0, <1>2, <2>2 DEF Return, TypeOK
    <3> QED
      BY <3>3, <3>5, <3>6
  <2>3. CASE /\ At(slot[t]) = Null /\ insert[t]
             /\ pc' = [pc EXCEPT ![t] = "alloc"]
             /\ UNCHANGED <<slot, depth, result>>
    <3>1. PICK k \in Key, d \in Nat, m \in {slot[t]} : k = key[t] /\ d = depth[t]
      BY <1>0 DEF TypeOK
    <3>2. Reached(k, m, d)
      BY <3>1 DEF TrieIsSound, CallsAreOnTheirWay, CallIsOnItsWay
    <3>3. Reached(k, m, d)'
      BY <1>1, <3>2, UnwrittenIsSame
    <3>4. /\ key'[t] = k /\ slot'[t] = m /\ depth'[t] = d /\ pc'[t] = "alloc" /\ insert'[t]
          /\ \A u \in Thread \ {t} : /\ pc'[u] = pc[u] /\ key'[u] = key[u] /\ insert'[u] = insert[u]
                                     /\ slot'[u] = slot[u] /\ depth'[u] = depth[u]
      BY <1>0, <1>2, <2>3, <3>1 DEF TypeOK
    <3>5. CallIsOnItsWay(t)'
      BY <3>3, <3>4 DEF CallIsOnItsWay, Reached, PlaceOn, Walk
    <3>6. CallsAreOnTheirWay'
      BY <1>1, <3>4, <3>5, OthersKeepOn
    <3>7. TypeOK'
      BY <1>0, <1>2, <2>3 DEF TypeOK
    <3> QED
      BY <3>4, <3>6, <3>7
  <2> QED
    BY <2>1, <2>2, <2>3 DEF Load
<1>4. PublishedIsAllocated' /\ RollbackIsPrivate'
  BY <1>1, <1>2, <1>3, ArenasAreSame
<1> QED
  BY <1>1, <1>3, <1>4, UnwrittenIsSame DEF TrieIsSound

\* A node is cut from the arena and filled in; nobody else has seen it.
LEMMA AllocStep ==
  ASSUME TrieIsSound, NEW t \in Thread, Alloc(t)
  PROVE  TrieIsSound' /\ Unwritten
<1> DEFINE n == <<t, arena[t]>>
<1>0. TypeOK
  BY DEF TrieIsSound
<1>1. /\ pc[t] = "alloc" /\ 1 < ArenaSize - arena[t]
      /\ arena' = [arena EXCEPT ![t] = @ + 1]
      /\ heap' = [heap EXCEPT ![n] = FreshNode(key[t])]
      /\ new' = [new EXCEPT ![t] = n]
      /\ pc' = [pc EXCEPT ![t] = "swap"]
      /\ UNCHANGED <<root, aborted, key, insert, slot, depth, result>>
  BY DEF Alloc, Exhausted
<1>2. arena[t] \in 0..ArenaSize /\ arena[t] + 1 \in 0..ArenaSize
  BY <1>0, <1>1 DEF TypeOK
<1>3. n \in Addr /\ n[1] = t /\ n[2] = arena[t]
  BY <1>1, <1>2 DEF Addr
<1>4. key[t] \in Key /\ FreshNode(key[t]) \in Node
  BY <1>0 DEF TypeOK, FreshNode, Node
<1>5. heap[n] = Null
  BY <1>2, <1>3 DEF TrieIsSound, RollbackIsPrivate
<1>6. n \notin Published
  BY <1>5, PublishedIsClosed
<1> HIDE DEF n
<1>7. TypeOK'
  BY <1>0, <1>1, <1>2, <1>3, <1>4 DEF TypeOK
<1>8. heap'[n] = FreshNode(key[t]) /\ \A x \in Addr \ {n} : heap'[x] = heap[x]
  BY <1>0, <1>1, <1>3 DEF TypeOK
<1>9. Unwritten
  <2>1. \A x \in Published : heap'[x] = heap[x]
    BY <1>6, <1>8, PublishedIsClosed DEF Closed
  <2>2. ASSUME NEW x \in Addr \ Published, NEW d \in Digit, heap'[x] # Null
        PROVE  heap'[x].child[d] = Null
    <3>1. CASE x = n
      BY <1>8, <3>1 DEF FreshNode
    <3>2. CASE x # n
      <4>1. heap'[x] = heap[x]
        BY <1>8, <3>2
      <4> QED
        BY <2>2, <4>1, UnpublishedIsFresh
    <3> QED
      BY <3>1, <3>2
  <2> QED
    BY <1>1, <2>1, <2>2 DEF Unwritten
<1>10. CallsAreOnTheirWay'
  <2>1. PICK k \in Key, d \in Nat, m \in {slot[t]} : k = key[t] /\ d = depth[t]
    BY <1>0 DEF TypeOK
  <2>2. Reached(k, m, d) /\ insert[t]
    BY <1>1, <2>1 DEF TrieIsSound, CallsAreOnTheirWay, CallIsOnItsWay
  <2>3. Reached(k, m, d)'
    BY <1>9, <2>2, UnwrittenIsSame
  <2>4. /\ key'[t] = k /\ slot'[t] = m /\ depth'[t] = d /\ insert'[t]
        /\ \A u \in Thread \ {t} : /\ pc'[u] = pc[u] /\ key'[u] = key[u] /\ insert'[u] = insert[u]
                                   /\ slot'[u] = slot[u] /\ depth'[u] = depth[u]
    BY <1>0, <1>1, <2>1, <2>2 DEF TypeOK
  <2>5. CallIsOnItsWay(t)'
    BY <2>3, <2>4 DEF CallIsOnItsWay, Reached, PlaceOn, Walk
  <2> QED
    BY <1>9, <2>4, <2>5, OthersKeepOn
<1>11. /\ arena'[t] = arena[t] + 1 /\ new'[t] = n /\ pc'[t] = "swap" /\ key'[t] = key[t]
       /\ \A u \in Thread \ {t} : /\ arena'[u] = arena[u] /\ new'[u] = new[u]
                                  /\ pc'[u] = pc[u] /\ key'[u] = key[u]
  BY <1>0, <1>1 DEF TypeOK
<1>12. Published' = Published /\ Published \subseteq Addr
  BY <1>9, UnwrittenIsSame, PublishedIsClosed DEF Closed
<1>13. PublishedIsAllocated'
  <2> SUFFICES ASSUME NEW a \in Published
               PROVE  a[2] < arena'[a[1]] /\ \A u \in Thread : new'[u] # a
    BY <1>12 DEF PublishedIsAllocated
  <2>1. a[2] < arena[a[1]] /\ \A u \in Thread : new[u] # a
    BY DEF TrieIsSound, PublishedIsAllocated
  <2>2. a[1] \in Thread /\ a[2] \in Nat /\ a # n
    BY <1>6, <1>12 DEF Addr
  <2> QED
    BY <1>2, <1>11, <2>1, <2>2
<1>14. RollbackIsPrivate'
  <2>1. ASSUME NEW a \in Addr
        PROVE  /\ heap'[a] # Null <=> a[2] < arena'[a[1]]
               /\ heap'[a] # Null => a \in Published' \/ a = new'[a[1]]
    <3>1. a[1] \in Thread /\ a[2] \in 0..(ArenaSize - 1) /\ a = <<a[1], a[2]>>
      BY DEF Addr
    <3>2. CASE a = n
      <4>1. heap'[a] # Null
        BY <1>4, <1>8, <3>2
      <4> QED
        BY <1>2, <1>3, <1>11, <3>2, <4>1
    <3>3. CASE a # n /\ a[1] = t
      <4>1. a[2] # arena[t]
        BY <3>1, <3>3 DEF n
      <4>2. heap'[a] = heap[a] /\ (heap[a] # Null <=> a[2] < arena[a[1]])
        BY <1>8, <3>3 DEF TrieIsSound, RollbackIsPrivate
      <4>3. heap[a] # Null => a \in Published \/ a = new[a[1]]
        BY DEF TrieIsSound, RollbackIsPrivate
      <4>4. new[t] = Null /\ a # Null
        BY <1>1 DEF TrieIsSound, RollbackIsPrivate
      <4> QED
        BY <1>2, <1>11, <1>12, <3>1, <3>3, <4>1, <4>2, <4>3, <4>4
    <3>4. CASE a[1] # t
      <4>1. a # n
        BY <1>3, <3>4
      <4>2. heap'[a] = heap[a] /\ (heap[a] # Null <=> a[2] < arena[a[1]])
        BY <1>8, <4>1 DEF TrieIsSound, RollbackIsPrivate
      <4>3. heap[a] # Null => a \in Published \/ a = new[a[1]]
        BY DEF TrieIsSound, RollbackIsPrivate
      <4> QED
        BY <1>11, <1>12, <3>1, <3>4, <4>2, <4>3
    <3> QED
      BY <3>2, <3>3, <3>4
  <2>2. ASSUME NEW u \in Thread
        PROVE  IF pc'[u] = "swap"
                 THEN new'[u] = <<u, arena'[u] - 1>> /\ new'[u] \in Addr /\ heap'[new'[u]] = FreshNode(key'[u])
                 ELSE new'[u] = Null
    <3>1. CASE u = t
      <4>1. n = <<t, (arena[t] + 1) - 1>>
        BY <1>2 DEF n
      <4> QED
        BY <1>3, <1>8, <1>11, <3>1, <4>1
    <3>2. CASE u # t
      <4>1. pc[u] = "swap" => new[u] # n
        BY <1>3, <3>2 DEF TrieIsSound, RollbackIsPrivate
      <4> QED
        BY <1>8, <1>11, <3>2, <4>1 DEF TrieIsSound, RollbackIsPrivate
    <3> QED
      BY <3>1, <3>2
  <2> QED
    BY <2>1, <2>2 DEF RollbackIsPrivate
<1> QED
  BY <1>7, <1>9, <1>10, <1>13, <1>14, UnwrittenIsSame DEF TrieIsSound

\* The assertion stops the program, and changes nothing else.
LEMMA AssertionFailsStep ==
  ASSUME TrieIsSound, NEW t \in Thread, AssertionFails(t)
  PROVE  TrieIsSound' /\ Unwritten
<1>1. Unwritten
  BY SameHeapIsUnwritten DEF AssertionFails
<1>2. /\ UNCHANGED <<root, heap, arena, pc, key, insert, slot, depth, new, result>>
      /\ aborted' = TRUE
  BY DEF AssertionFails
<1>3. TypeOK'
  BY <1>2 DEF TrieIsSound, TypeOK
<1>4. PublishedIsAllocated' /\ RollbackIsPrivate'
  BY <1>1, <1>2, ArenasAreSame
<1>5. CallsAreOnTheirWay'
  <2>1. PICK k \in Key, d \in Nat, m \in {slot[t]} : k = key[t] /\ d = depth[t]
    BY DEF TrieIsSound, TypeOK
  <2>2. CallIsOnItsWay(t) /\ Reached(k, m, d)
    BY <2>1 DEF TrieIsSound, CallsAreOnTheirWay, CallIsOnItsWay
  <2>3. Reached(k, m, d)'
    BY <1>1, <2>2, UnwrittenIsSame
  <2>4. CallIsOnItsWay(t)'
    BY <1>2, <2>1, <2>2, <2>3 DEF CallIsOnItsWay, Reached, PlaceOn, Walk
  <2> QED
    BY <1>1, <1>2, <2>4, OthersKeepOn
<1> QED
  BY <1>1, <1>3, <1>4, <1>5, UnwrittenIsSame DEF TrieIsSound

\* The loser of a race gives back its node, which nobody can reach.
LEMMA SwapFailsStep ==
  ASSUME TrieIsSound, NEW t \in Thread, SwapFails(t)
  PROVE  TrieIsSound' /\ Unwritten
<1> DEFINE n == new[t]
<1>0. TypeOK
  BY DEF TrieIsSound
<1>1. /\ pc[t] = "swap" /\ At(slot[t]) # Null
      /\ arena' = [arena EXCEPT ![t] = @ - 1]
      /\ heap' = [heap EXCEPT ![n] = Null]
      /\ new' = [new EXCEPT ![t] = Null]
      /\ Visit(t, At(slot[t]))
      /\ UNCHANGED <<root, aborted, key, insert>>
  BY DEF SwapFails, GiveBack
<1>2. n = <<t, arena[t] - 1>> /\ n \in Addr /\ heap[n] = FreshNode(key[t])
  BY <1>1 DEF TrieIsSound, RollbackIsPrivate
<1>3. heap[n] # Null
  BY <1>0, <1>2 DEF TypeOK, FreshNode, Node
<1>4. n \notin Published /\ Published \subseteq Addr
  BY PublishedIsClosed DEF TrieIsSound, PublishedIsAllocated, Closed
<1>5. arena[t] \in 0..ArenaSize /\ arena[t] - 1 \in 0..ArenaSize /\ n[1] = t /\ n[2] = arena[t] - 1
  <2>1. arena[t] \in 0..ArenaSize
    BY <1>0 DEF TypeOK
  <2>2. n[1] = t /\ n[2] = arena[t] - 1
    BY <1>2
  <2>3. n[2] \in 0..(ArenaSize - 1)
    BY <1>2 DEF Addr
  <2> QED
    BY <2>1, <2>2, <2>3
<1> HIDE DEF n
<1>6. heap'[n] = Null /\ \A x \in Addr \ {n} : heap'[x] = heap[x]
  BY <1>0, <1>1, <1>2 DEF TypeOK
<1>7. Unwritten
  <2>1. \A x \in Published : heap'[x] = heap[x]
    BY <1>4, <1>6
  <2>2. ASSUME NEW x \in Addr \ Published, NEW d \in Digit, heap'[x] # Null
        PROVE  heap'[x].child[d] = Null
    <3>1. heap'[x] = heap[x]
      BY <1>6, <2>2
    <3> QED
      BY <2>2, <3>1, UnpublishedIsFresh
  <2> QED
    BY <1>1, <2>1, <2>2 DEF Unwritten
<1>8. /\ CallsAreOnTheirWay'
      /\ pc' \in [Thread -> {"idle", "load", "alloc", "swap"}]
      /\ slot' \in [Thread -> {Root} \cup (Addr \X Digit)]
      /\ depth' \in [Thread -> Nat]
      /\ result' \in [Thread -> Addr \cup {Null}]
      /\ pc'[t] \in {"idle", "load"} /\ \A u \in Thread \ {t} : pc'[u] = pc[u]
  BY <1>1, <1>7, VisitStep
<1>9. TypeOK'
  <2>1. heap' \in [Addr -> Node \cup {Null}]
    BY <1>0, <1>1 DEF TypeOK
  <2>2. arena' \in [Thread -> 0..ArenaSize] /\ new' \in [Thread -> Addr \cup {Null}]
    BY <1>0, <1>1, <1>5 DEF TypeOK
  <2> QED
    BY <1>0, <1>1, <1>8, <2>1, <2>2 DEF TypeOK
<1>10. /\ arena'[t] = arena[t] - 1 /\ new'[t] = Null
       /\ \A u \in Thread \ {t} : arena'[u] = arena[u] /\ new'[u] = new[u]
       /\ \A u \in Thread : key'[u] = key[u]
  BY <1>0, <1>1 DEF TypeOK
<1>11. Published' = Published
  BY <1>7, UnwrittenIsSame
<1>12. PublishedIsAllocated'
  <2> SUFFICES ASSUME NEW a \in Published
               PROVE  a[2] < arena'[a[1]] /\ \A u \in Thread : new'[u] # a
    BY <1>11 DEF PublishedIsAllocated
  <2>1. a[2] < arena[a[1]] /\ \A u \in Thread : new[u] # a
    BY DEF TrieIsSound, PublishedIsAllocated
  <2>2. a[1] \in Thread /\ a[2] \in Nat /\ a = <<a[1], a[2]>> /\ a # n /\ a # Null
    BY <1>4 DEF Addr
  <2>3. a[1] = t => a[2] # arena[t] - 1
    BY <1>2, <2>2 DEF n
  <2> QED
    BY <1>5, <1>10, <2>1, <2>2, <2>3
<1>13. RollbackIsPrivate'
  <2>1. ASSUME NEW a \in Addr
        PROVE  /\ heap'[a] # Null <=> a[2] < arena'[a[1]]
               /\ heap'[a] # Null => a \in Published' \/ a = new'[a[1]]
    <3>1. a[1] \in Thread /\ a[2] \in 0..(ArenaSize - 1) /\ a = <<a[1], a[2]>>
      BY DEF Addr
    <3>2. /\ heap[a] # Null <=> a[2] < arena[a[1]]
          /\ heap[a] # Null => a \in Published \/ a = new[a[1]]
      BY DEF TrieIsSound, RollbackIsPrivate
    <3>3. CASE a = n
      BY <1>5, <1>6, <1>10, <3>1, <3>3
    <3>4. CASE a # n /\ a[1] = t
      <4>1. a[2] # arena[t] - 1
        BY <1>2, <3>1, <3>4 DEF n
      <4>2. heap'[a] = heap[a]
        BY <1>6, <3>4
      <4>3. a # new[t]
        BY <3>4 DEF n
      <4> QED
        BY <1>5, <1>10, <1>11, <3>1, <3>2, <3>4, <4>1, <4>2, <4>3
    <3>5. CASE a[1] # t
      <4>1. heap'[a] = heap[a]
        BY <1>5, <1>6, <3>5
      <4> QED
        BY <1>10, <1>11, <3>1, <3>2, <3>5, <4>1
    <3> QED
      BY <3>3, <3>4, <3>5
  <2>2. ASSUME NEW u \in Thread
        PROVE  IF pc'[u] = "swap"
                 THEN new'[u] = <<u, arena'[u] - 1>> /\ new'[u] \in Addr /\ heap'[new'[u]] = FreshNode(key'[u])
                 ELSE new'[u] = Null
    <3>1. CASE u = t
      BY <1>8, <1>10, <3>1
    <3>2. CASE u # t
      <4>1. IF pc[u] = "swap"
              THEN new[u] = <<u, arena[u] - 1>> /\ new[u] \in Addr /\ heap[new[u]] = FreshNode(key[u])
              ELSE new[u] = Null
        BY DEF TrieIsSound, RollbackIsPrivate
      <4>2. pc'[u] = pc[u] /\ new'[u] = new[u] /\ arena'[u] = arena[u] /\ key'[u] = key[u]
        BY <1>8, <1>10, <3>2
      <4>3. CASE pc[u] = "swap"
        <5>1. new[u] # n
          BY <1>5, <3>2, <4>1, <4>3
        <5>2. heap'[new[u]] = heap[new[u]]
          BY <1>6, <4>1, <4>3, <5>1
        <5> QED
          BY <4>1, <4>2, <4>3, <5>2
      <4> QED
        BY <4>1, <4>2, <4>3
    <3> QED
      BY <3>1, <3>2
  <2> QED
    BY <2>1, <2>2 DEF RollbackIsPrivate
<1> QED
  BY <1>7, <1>8, <1>9, <1>12, <1>13, UnwrittenIsSame DEF TrieIsSound

-----------------------------------------------------------------------------
(***************************************************************************)
(* The step that publishes a node.                                         *)
(***************************************************************************)
\* Pointer m, and no other, is written: it leads to node n now.
Filled(m, n) ==
  /\ root' = IF m = Root THEN n ELSE root
  /\ heap' \in [Addr -> Node \cup {Null}]
  /\ \A x \in Addr :
       /\ heap'[x] # Null <=> heap[x] # Null
       /\ heap[x] # Null =>
            /\ heap'[x].key = heap[x].key
            /\ \A d \in Digit : heap'[x].child[d] = IF m = <<x, d>> THEN n ELSE heap[x].child[d]

\* What the winner of a race has: an empty place for its key, and a fresh node.
LEMMA WinnerFacts ==
  ASSUME TrieIsSound, NEW t \in Thread, pc[t] = "swap", At(slot[t]) = Null
  PROVE  /\ new[t] \in Addr \ Published /\ new[t] # Null
         /\ heap[new[t]] = FreshNode(key[t]) /\ heap[new[t]] # Null
         /\ slot[t] \in Slots
         /\ slot[t] # Root =>
              \E x \in Published, d \in Digit : slot[t] = <<x, d>> /\ heap[x].child[d] = Null
<1>1. new[t] \in Addr /\ heap[new[t]] = FreshNode(key[t])
  BY DEF TrieIsSound, RollbackIsPrivate
<1>2. new[t] \notin Published /\ new[t] # Null
  BY <1>1 DEF TrieIsSound, PublishedIsAllocated
<1>3. key[t] \in Key /\ depth[t] \in Nat /\ slot[t] \in Slots
  BY CallIsOnPath
<1>4. heap[new[t]] # Null
  BY <1>1, <1>3 DEF FreshNode, Node
<1>5. ASSUME slot[t] # Root
      PROVE  \E x \in Published, d \in Digit : slot[t] = <<x, d>> /\ heap[x].child[d] = Null
  <2>1. Reached(key[t], slot[t], depth[t])
    BY DEF TrieIsSound, CallsAreOnTheirWay, CallIsOnItsWay
  <2>2. PICK x, d : /\ slot[t] = <<x, d>> /\ depth[t] # 0
                    /\ x = Walk(key[t])[depth[t] - 1] /\ d = DigitAt(key[t], depth[t] - 1)
    BY <1>5, <2>1 DEF Reached, PlaceOn
  <2>3. depth[t] - 1 \in Nat /\ depth[t] - 1 \in 0..(depth[t] - 1)
    BY <1>3, <2>2
  <2>4. x # Null
    BY <2>1, <2>2, <2>3 DEF Reached
  <2>5. x \in Published /\ d \in Digit
    BY <1>3, <2>2, <2>3, <2>4, WalkFacts, DigitType
  <2>6. heap[x].child[d] = Null
    BY <1>5, <2>2 DEF At
  <2> QED
    BY <2>2, <2>5, <2>6
<1> QED
  BY <1>1, <1>2, <1>3, <1>4, <1>5

\* The pointers that are there, and what is published, after the step.
LEMMA FilledPointers ==
  ASSUME TrieIsSound, NEW t \in Thread, pc[t] = "swap", At(slot[t]) = Null,
         Filled(slot[t], new[t])
  PROVE  /\ Slots' = Slots
         /\ \A m \in Slots : At(m)' = IF m = slot[t] THEN new[t] ELSE At(m)
         /\ Published' = Published \cup {new[t]}
         /\ Closed(root', heap', Published')
         /\ WrittenOnce
<1> DEFINE n == new[t]
           s == slot[t]
<1>1. n \in Addr \ Published /\ n # Null /\ heap[n] = FreshNode(key[t]) /\ heap[n] # Null /\ s \in Slots
  BY WinnerFacts
<1>2. s # Root => \E x \in Published, d \in Digit : s = <<x, d>> /\ heap[x].child[d] = Null
  BY WinnerFacts
<1>3. At(s) = Null
  OBVIOUS
<1>4. /\ root' = IF s = Root THEN n ELSE root
      /\ heap' \in [Addr -> Node \cup {Null}]
      /\ \A x \in Addr : heap'[x] # Null <=> heap[x] # Null
      /\ \A x \in Addr : heap[x] # Null =>
           /\ heap'[x].key = heap[x].key
           /\ \A d \in Digit : heap'[x].child[d] = IF s = <<x, d>> THEN n ELSE heap[x].child[d]
  BY DEF Filled
<1>5. /\ Closed(root, heap, Published) /\ Published \subseteq Addr
      /\ \A x \in Published : heap[x] \in Node /\ heap[x] # Null
      /\ \A x \in Published, d \in Digit : <<x, d>> # Root
  BY PublishedIsClosed DEF Closed
<1> HIDE DEF n, s
<1>7. Slots' = Slots
  <2>1. ASSUME NEW m \in Addr \X Digit PROVE heap'[m[1]] # Null <=> heap[m[1]] # Null
    BY <1>4
  <2> QED
    BY <2>1 DEF Slots
<1>8. ASSUME NEW m \in Slots PROVE At(m)' = IF m = s THEN n ELSE At(m)
  <2>1. CASE m = Root
    BY <1>4, <2>1 DEF At
  <2>2. CASE m # Root
    <3>1. PICK x \in Addr, d \in Digit : m = <<x, d>> /\ heap[x] # Null
      BY <2>2 DEF Slots
    <3>2. At(m)' = heap'[x].child[d] /\ At(m) = heap[x].child[d]
      BY <2>2, <3>1 DEF At
    <3> QED
      BY <1>4, <3>1, <3>2
  <2> QED
    BY <2>1, <2>2
<1>9. Published' = Published \cup {n}
  BY <1>1, <1>3, <1>7, <1>8 DEF Published
<1>10. root' \in Published \cup {n, Null}
  BY <1>4, <1>5 DEF Closed
<1>11. ASSUME NEW x \in Published \cup {n} PROVE heap'[x].child \in [Digit -> Published \cup {n} \cup {Null}]
  <2>1. x \in Addr /\ heap[x] # Null /\ heap'[x] \in Node
    BY <1>1, <1>4, <1>5
  <2>2. heap'[x].child \in [Digit -> Addr \cup {Null}]
    BY <2>1 DEF Node
  <2>3. ASSUME NEW d \in Digit PROVE heap[x].child[d] \in Published \cup {Null}
    <3>1. CASE x \in Published
      BY <1>5, <3>1 DEF Closed
    <3>2. CASE x = n
      BY <1>1, <3>2 DEF FreshNode
    <3> QED
      BY <3>1, <3>2
  <2>4. ASSUME NEW d \in Digit PROVE heap'[x].child[d] \in Published \cup {n} \cup {Null}
    BY <1>4, <2>1, <2>3
  <2> QED
    BY <2>2, <2>4
<1>12. Closed(root', heap', Published')
  <2>1. Published \cup {n} \subseteq Addr
    BY <1>1, <1>5
  <2> QED
    BY <1>9, <1>10, <1>11, <2>1 DEF Closed
<1>13. WrittenOnce
  <2>1. root # Null => root' = root
    BY <1>3, <1>4 DEF At
  <2>2. ASSUME NEW a \in Published
        PROVE  /\ heap'[a] # Null /\ heap'[a].key = heap[a].key
               /\ \A d \in Digit : heap[a].child[d] # Null => heap'[a].child[d] = heap[a].child[d]
    <3>1. a \in Addr /\ heap[a] # Null
      BY <1>5
    <3>2. ASSUME NEW d \in Digit, heap[a].child[d] # Null PROVE s # <<a, d>>
      BY <1>3, <1>5, <3>2 DEF At
    <3> QED
      BY <1>4, <3>1, <3>2
  <2> QED
    BY <2>1, <2>2 DEF WrittenOnce
<1> QED
  BY <1>7, <1>8, <1>9, <1>12, <1>13 DEF n, s

\* Searches keep their way, and the new node is on the path of its key.
LEMMA FilledPaths ==
  ASSUME TrieIsSound, NEW t \in Thread, pc[t] = "swap", At(slot[t]) = Null,
         Filled(slot[t], new[t])
  PROVE  /\ \A k \in Key, d \in Nat : Walk(k)[d] # Null => Walk(k)'[d] = Walk(k)[d]
         /\ \A k \in Key, d \in Nat : \A m : Reached(k, m, d) => Reached(k, m, d)'
         /\ \A k \in Key, d \in Nat : k = key[t] /\ d = depth[t] => Walk(k)'[d] = new[t]
         /\ Cardinality(Published') = Cardinality(Published) + 1
         /\ Cardinality(Published) \in Nat /\ IsFiniteSet(Published')
<1> DEFINE n == new[t]
           s == slot[t]
<1>1. n \in Addr \ Published /\ s \in Slots
  BY WinnerFacts
<1>2. /\ Closed(root, heap, Published) /\ Published \subseteq Addr
      /\ \A x \in Published : heap[x] # Null
      /\ \A x \in Published, d \in Digit : <<x, d>> \in Slots /\ <<x, d>> # Root
  BY PublishedIsClosed DEF Closed
<1>3. /\ root' = IF s = Root THEN n ELSE root
      /\ \A x \in Addr : heap[x] # Null =>
           /\ heap'[x].key = heap[x].key
           /\ \A d \in Digit : heap'[x].child[d] = IF s = <<x, d>> THEN n ELSE heap[x].child[d]
  BY DEF Filled
<1>4. Published' = Published \cup {n} /\ Closed(root', heap', Published') /\ WrittenOnce
  BY FilledPointers
<1>5. IsFiniteSet(Published)
  BY DEF TrieIsSound, IsATree
<1>6. key[t] \in Key /\ depth[t] \in Nat /\ Reached(key[t], s, depth[t])
  BY DEF TrieIsSound, TypeOK, CallsAreOnTheirWay, CallIsOnItsWay
<1> HIDE DEF n, s
<1>7. Cardinality(Published') = Cardinality(Published) + 1 /\ Cardinality(Published) \in Nat
  BY <1>1, <1>4, <1>5, FS_AddElement, FS_CardinalityType
<1>8. IsFiniteSet(Published')
  BY <1>4, <1>5, FS_AddElement
<1>9. ASSUME NEW k \in Key, NEW d \in Nat, Walk(k)[d] # Null PROVE Walk(k)'[d] = Walk(k)[d]
  <2>1. /\ root # Null => root' = root
        /\ \A x \in Published, c \in Digit :
             heap[x].child[c] # Null => heap'[x].child[c] = heap[x].child[c]
    BY <1>4 DEF WrittenOnce
  <2>2. Path(root, heap, k)[d] # Null => Path(root', heap', k)[d] = Path(root, heap, k)[d]
    BY ONLY <1>2, <1>4, <2>1, k \in Key, d \in Nat, PathStays
  <2> QED
    BY <1>9, <2>2 DEF Walk
<1>10. ASSUME NEW k \in Key, NEW d \in Nat, NEW m, Reached(k, m, d) PROVE Reached(k, m, d)'
  <2>1. d <= Cardinality(Published')
    BY <1>7, <1>10 DEF Reached
  <2>2. ASSUME NEW e \in 0..(d - 1)
        PROVE  Walk(k)'[e] = Walk(k)[e] /\ Walk(k)[e] # Null /\ heap'[Walk(k)[e]].key # k
    <3>1. e \in Nat /\ Walk(k)[e] # Null /\ heap[Walk(k)[e]].key # k
      BY <1>10 DEF Reached
    <3>2. Walk(k)[e] \in Published
      BY <3>1, WalkFacts
    <3>3. heap'[Walk(k)[e]].key = heap[Walk(k)[e]].key
      BY <1>2, <1>3, <3>2
    <3> QED
      BY <1>9, <3>1, <3>3
  <2>3. PlaceOn(k, d)' = PlaceOn(k, d)
    <3>1. CASE d = 0
      BY <3>1 DEF PlaceOn
    <3>2. CASE d # 0
      <4>1. d - 1 \in 0..(d - 1)
        BY <3>2
      <4> QED
        BY <2>2, <4>1 DEF PlaceOn
    <3> QED
      BY <3>1, <3>2
  <2> QED
    BY <1>10, <2>1, <2>2, <2>3 DEF Reached
<1>11. ASSUME NEW k \in Key, NEW d \in Nat, k = key[t], d = depth[t] PROVE Walk(k)'[d] = n
  <2>1. s = PlaceOn(k, d)
    BY <1>6, <1>11 DEF Reached
  <2>2. /\ Path(root', heap', k)[0] = root'
        /\ \A e \in Nat : Path(root', heap', k)[e + 1] =
             IF Path(root', heap', k)[e] = Null THEN Null
             ELSE heap'[Path(root', heap', k)[e]].child[DigitAt(k, e)]
    <3>1. Closed(root', heap', Published')
      BY <1>4
    <3>2. ASSUME NEW r, NEW g, NEW P, Closed(r, g, P)
          PROVE  /\ Path(r, g, k)[0] = r
                 /\ \A e \in Nat : Path(r, g, k)[e + 1] =
                      IF Path(r, g, k)[e] = Null THEN Null
                      ELSE g[Path(r, g, k)[e]].child[DigitAt(k, e)]
      BY ONLY <3>2, k \in Key, PathFacts
    <3> QED
      BY ONLY <3>1, <3>2
  <2>3. CASE d = 0
    BY <1>3, <2>1, <2>2, <2>3 DEF Walk, PlaceOn
  <2>4. CASE d # 0
    <3>1. d - 1 \in Nat /\ d - 1 \in 0..(d - 1) /\ (d - 1) + 1 = d
      BY <2>4
    <3>2. Walk(k)[d - 1] # Null
      BY <1>6, <1>11, <3>1 DEF Reached
    <3>3. PICK x \in Published : x = Walk(k)[d - 1]
      BY <3>1, <3>2, WalkFacts
    <3>4. Path(root', heap', k)[d - 1] = x /\ x # Null
      BY <1>9, <3>1, <3>2, <3>3 DEF Walk
    <3>5. PICK c \in Digit : c = DigitAt(k, d - 1)
      BY <3>1, DigitType
    <3>6. Path(root', heap', k)[d] = heap'[x].child[c]
      BY <2>2, <3>1, <3>4, <3>5
    <3>7. s = <<x, c>>
      BY <2>1, <2>4, <3>3, <3>5 DEF PlaceOn
    <3>8. heap'[x].child[c] = n
      BY <1>2, <1>3, <3>7
    <3> QED
      BY <3>6, <3>8 DEF Walk
  <2> QED
    BY <2>3, <2>4
<1> QED
  BY <1>7, <1>8, <1>9, <1>10, <1>11 DEF n

\* The trie has one node more, for a key that had none.
LEMMA FilledTrie ==
  ASSUME TrieIsSound, NEW t \in Thread, pc[t] = "swap", At(slot[t]) = Null,
         Filled(slot[t], new[t])
  PROVE  OneNodePerKey' /\ OnItsPath' /\ IsATree'
<1> DEFINE n == new[t]
           s == slot[t]
<1>1. n \in Addr \ Published /\ n # Null /\ heap[n] = FreshNode(key[t]) /\ heap[n] # Null /\ s \in Slots
  BY WinnerFacts
<1>2. /\ Published \subseteq Addr
      /\ \A x \in Published : heap[x] # Null /\ heap[x] \in Node
  BY PublishedIsClosed DEF Closed
<1>3. \A x \in Addr : heap[x] # Null => heap'[x].key = heap[x].key
  BY DEF Filled
<1>4. /\ Slots' = Slots
      /\ \A m \in Slots : At(m)' = IF m = s THEN n ELSE At(m)
      /\ Published' = Published \cup {n}
  BY FilledPointers
<1>5. \A a \in Published : heap[a].key # key[t]
  BY KeyIsAbsent
<1>6. /\ \A k \in Key, d \in Nat : Walk(k)[d] # Null => Walk(k)'[d] = Walk(k)[d]
      /\ \A k \in Key, d \in Nat : k = key[t] /\ d = depth[t] => Walk(k)'[d] = n
      /\ Cardinality(Published') = Cardinality(Published) + 1
      /\ Cardinality(Published) \in Nat /\ IsFiniteSet(Published')
  BY FilledPaths
<1>7. key[t] \in Key /\ depth[t] \in Nat /\ depth[t] <= Cardinality(Published)
  BY DEF TrieIsSound, TypeOK, CallsAreOnTheirWay, CallIsOnItsWay, Reached
<1> HIDE DEF n, s
<1>8. heap'[n].key = key[t] /\ \A x \in Published : heap'[x].key = heap[x].key
  BY <1>1, <1>2, <1>3 DEF FreshNode
<1>9. OneNodePerKey'
  <2>1. ASSUME NEW a \in Published \cup {n}, NEW b \in Published \cup {n},
               heap'[a].key = heap'[b].key
        PROVE  a = b
    <3>1. CASE a = n \/ b = n
      BY <1>5, <1>8, <2>1, <3>1
    <3>2. CASE a \in Published /\ b \in Published
      BY <1>8, <2>1, <3>2 DEF TrieIsSound, OneNodePerKey
    <3> QED
      BY <3>1, <3>2
  <2> QED
    BY <1>4, <2>1 DEF OneNodePerKey
<1>10. OnItsPath'
  <2>1. ASSUME NEW a \in Published \cup {n}
        PROVE  \E k \in Key, d \in Nat :
                 k = heap'[a].key /\ d \in 0..(Cardinality(Published') - 1) /\ Walk(k)'[d] = a
    <3>1. CASE a = n
      <4>1. PICK k \in Key, d \in Nat : k = key[t] /\ d = depth[t]
        BY <1>7
      <4>2. Walk(k)'[d] = n
        BY <1>6, <4>1
      <4>3. d \in 0..(Cardinality(Published') - 1)
        BY <1>6, <1>7, <4>1
      <4> QED
        BY <1>8, <3>1, <4>1, <4>2, <4>3
    <3>2. CASE a \in Published
      <4>1. PICK d \in 0..(Cardinality(Published) - 1) : Walk(heap[a].key)[d] = a
        BY <3>2 DEF TrieIsSound, OnItsPath
      <4>2. PICK k \in Key : k = heap[a].key
        BY <1>2, <3>2 DEF Node
      <4>3. d \in Nat /\ d \in 0..(Cardinality(Published') - 1)
        BY <1>6
      <4>4. a # Null
        BY <3>2 DEF Published
      <4>5. Walk(k)'[d] = a
        BY <1>6, <4>1, <4>2, <4>3, <4>4
      <4> QED
        BY <1>8, <3>2, <4>2, <4>3, <4>5
    <3> QED
      BY <3>1, <3>2
  <2> QED
    BY <1>4, <2>1 DEF OnItsPath, Walk
<1>11. IsATree'
  <2>1. ASSUME NEW m \in Slots, NEW p \in Slots, At(m)' = At(p)', At(m)' # Null PROVE m = p
    <3>1. At(m) \notin {n} /\ At(p) \notin {n}
      BY <1>1 DEF Published
    <3> QED
      BY <1>4, <2>1, <3>1 DEF TrieIsSound, IsATree
  <2> QED
    BY <1>4, <1>6, <2>1 DEF IsATree
<1> QED
  BY <1>9, <1>10, <1>11

\* The winner publishes its node.
LEMMA SwapSucceedsStep ==
  ASSUME TrieIsSound, NEW t \in Thread, SwapSucceeds(t)
  PROVE  /\ TrieIsSound' /\ WrittenOnce
         /\ Published' = Published \cup {new[t]}
         /\ \A x \in Published : heap'[x].key = heap[x].key
<1>0. TypeOK
  BY DEF TrieIsSound
<1>1. /\ pc[t] = "swap" /\ At(slot[t]) = Null
      /\ Publish(slot[t], new[t])
      /\ pc' = [pc EXCEPT ![t] = "idle"] /\ result' = [result EXCEPT ![t] = new[t]]
      /\ slot' = [slot EXCEPT ![t] = Root] /\ depth' = [depth EXCEPT ![t] = 0]
      /\ new' = [new EXCEPT ![t] = Null]
      /\ UNCHANGED <<arena, aborted, key, insert>>
  BY DEF SwapSucceeds, Return
<1>2. /\ new[t] \in Addr \ Published /\ new[t] # Null
      /\ heap[new[t]] = FreshNode(key[t]) /\ heap[new[t]] # Null
      /\ slot[t] \in Slots
  BY <1>1, WinnerFacts
<1>3. Filled(slot[t], new[t])
  <2>1. CASE slot[t] = Root
    <3>1. root' = new[t] /\ heap' = heap
      BY <1>1, <2>1 DEF Publish
    <3>2. \A x \in Addr, d \in Digit : slot[t] # <<x, d>>
      BY <2>1
    <3> QED
      BY <1>0, <2>1, <3>1, <3>2 DEF Filled, TypeOK
  <2>2. CASE slot[t] # Root
    <3>1. PICK y \in Addr, c \in Digit : slot[t] = <<y, c>> /\ heap[y] # Null
      BY <1>2, <2>2 DEF Slots
    <3>2. heap[y] \in Node
      BY <1>0, <3>1 DEF TypeOK
    <3>3. heap[y].key \in Key /\ heap[y].child \in [Digit -> Addr \cup {Null}]
      BY <3>2 DEF Node
    <3>4. heap' = [heap EXCEPT ![y] = [heap[y] EXCEPT !.child = [heap[y].child EXCEPT ![c] = new[t]]]]
          /\ root' = root
      BY <1>1, <2>2, <3>1 DEF Publish
    <3> DEFINE z == [heap[y] EXCEPT !.child = [heap[y].child EXCEPT ![c] = new[t]]]
    <3>5. /\ z \in Node /\ z.key = heap[y].key
          /\ \A d \in Digit : z.child[d] = IF d = c THEN new[t] ELSE heap[y].child[d]
      BY <1>2, <3>2, <3>3 DEF Node
    <3>6. heap' = [heap EXCEPT ![y] = z]
      BY <3>4
    <3> HIDE DEF z
    <3>7. heap' \in [Addr -> Node \cup {Null}] /\ heap'[y] = z /\ \A x \in Addr \ {y} : heap'[x] = heap[x]
      BY <1>0, <3>5, <3>6 DEF TypeOK
    <3>8. z # Null
      BY <3>5
    <3>9. ASSUME NEW x \in Addr
          PROVE  /\ heap'[x] # Null <=> heap[x] # Null
                 /\ heap[x] # Null =>
                      /\ heap'[x].key = heap[x].key
                      /\ \A d \in Digit : heap'[x].child[d] =
                           IF slot[t] = <<x, d>> THEN new[t] ELSE heap[x].child[d]
      <4>1. CASE x = y
        BY <3>1, <3>5, <3>7, <3>8, <4>1
      <4>2. CASE x # y
        BY <3>1, <3>7, <4>2
      <4> QED
        BY <4>1, <4>2
    <3> QED
      BY <2>2, <3>4, <3>7, <3>9 DEF Filled
  <2> QED
    BY <2>1, <2>2
<1>4. /\ Published' = Published \cup {new[t]} /\ WrittenOnce
      /\ Closed(root', heap', Published')
  BY <1>1, <1>3, FilledPointers
<1>5. OneNodePerKey' /\ OnItsPath' /\ IsATree'
  BY <1>1, <1>3, FilledTrie
<1>6. TypeOK'
  <2>1. root' \in Addr \cup {Null} /\ heap' \in [Addr -> Node \cup {Null}]
    BY <1>3, <1>4 DEF Filled, Closed
  <2>2. /\ slot' \in [Thread -> {Root} \cup (Addr \X Digit)]
        /\ new' \in [Thread -> Addr \cup {Null}]
        /\ result' \in [Thread -> Addr \cup {Null}]
    BY <1>0, <1>1, <1>2 DEF TypeOK
  <2> QED
    BY <1>0, <1>1, <2>1, <2>2 DEF TypeOK
<1>7. /\ new'[t] = Null /\ pc'[t] = "idle" /\ slot'[t] = Root /\ depth'[t] = 0
      /\ \A u \in Thread \ {t} : /\ new'[u] = new[u] /\ pc'[u] = pc[u]
                                 /\ slot'[u] = slot[u] /\ depth'[u] = depth[u]
      /\ key' = key /\ insert' = insert /\ arena' = arena
  BY <1>0, <1>1 DEF TypeOK
<1>8. \A x \in Addr : /\ heap'[x] # Null <=> heap[x] # Null
                      /\ heap[x] # Null => heap'[x].key = heap[x].key
  BY <1>3 DEF Filled
<1>9. \A u \in Thread \ {t} : pc[u] = "swap" => new[u] # new[t]
  BY <1>1 DEF TrieIsSound, RollbackIsPrivate
<1>10. PublishedIsAllocated'
  <2>1. ASSUME NEW a \in Published \cup {new[t]}
        PROVE  a[2] < arena[a[1]] /\ \A u \in Thread : new'[u] # a
    <3>1. a \in Addr /\ a # Null
      BY <1>2, PublishedIsClosed DEF Closed
    <3>2. CASE a \in Published
      BY <1>7, <3>1, <3>2 DEF TrieIsSound, PublishedIsAllocated
    <3>3. CASE a = new[t]
      <4>1. a[2] < arena[a[1]]
        BY <1>2, <3>1, <3>3 DEF TrieIsSound, RollbackIsPrivate
      <4>2. ASSUME NEW u \in Thread PROVE new'[u] # a
        <5>1. CASE u = t
          BY <1>7, <3>1, <5>1
        <5>2. CASE u # t
          <6>1. pc[u] # "swap" => new[u] = Null
            BY DEF TrieIsSound, RollbackIsPrivate
          <6> QED
            BY <1>7, <1>9, <3>1, <3>3, <5>2, <6>1
        <5> QED
          BY <5>1, <5>2
      <4> QED
        BY <4>1, <4>2
    <3> QED
      BY <3>2, <3>3
  <2> QED
    BY <1>4, <1>7, <2>1 DEF PublishedIsAllocated
<1>11. RollbackIsPrivate'
  <2>1. ASSUME NEW a \in Addr
        PROVE  /\ heap'[a] # Null <=> a[2] < arena'[a[1]]
               /\ heap'[a] # Null => a \in Published' \/ a = new'[a[1]]
    <3>1. /\ heap[a] # Null <=> a[2] < arena[a[1]]
          /\ heap[a] # Null => a \in Published \/ a = new[a[1]]
      BY DEF TrieIsSound, RollbackIsPrivate
    <3>2. a[1] \in Thread
      BY DEF Addr
    <3> QED
      BY <1>4, <1>7, <1>8, <3>1, <3>2
  <2>2. ASSUME NEW u \in Thread
        PROVE  IF pc'[u] = "swap"
                 THEN new'[u] = <<u, arena'[u] - 1>> /\ new'[u] \in Addr /\ heap'[new'[u]] = FreshNode(key'[u])
                 ELSE new'[u] = Null
    <3>1. CASE u = t
      BY <1>7, <3>1
    <3>2. CASE u # t
      <4>1. IF pc[u] = "swap"
              THEN new[u] = <<u, arena[u] - 1>> /\ new[u] \in Addr /\ heap[new[u]] = FreshNode(key[u])
              ELSE new[u] = Null
        BY DEF TrieIsSound, RollbackIsPrivate
      <4>2. pc'[u] = pc[u] /\ new'[u] = new[u] /\ arena'[u] = arena[u] /\ key'[u] = key[u]
        BY <1>7, <3>2
      <4>3. CASE pc[u] = "swap"
        <5>1. heap'[new[u]] = heap[new[u]]
          <6>1. new[u] \notin Published
            BY <4>1, <4>3 DEF TrieIsSound, PublishedIsAllocated
          <6>2. CASE slot[t] = Root
            BY <1>1, <6>2 DEF Publish
          <6>3. CASE slot[t] # Root
            <7>1. PICK x \in Published, d \in Digit : slot[t] = <<x, d>>
              BY <1>1, <6>3, WinnerFacts
            <7>2. heap' = [heap EXCEPT ![x].child[d] = new[t]] /\ x # new[u]
              BY <1>1, <6>1, <6>3, <7>1 DEF Publish
            <7> QED
              BY <1>0, <4>1, <4>3, <7>2 DEF TypeOK
          <6> QED
            BY <6>2, <6>3
        <5> QED
          BY <4>1, <4>2, <4>3, <5>1
      <4> QED
        BY <4>1, <4>2, <4>3
    <3> QED
      BY <3>1, <3>2
  <2> QED
    BY <2>1, <2>2 DEF RollbackIsPrivate
<1>12. CallsAreOnTheirWay'
  <2>1. ASSUME NEW u \in Thread PROVE CallIsOnItsWay(u)'
    <3>1. PICK k \in Key, d \in Nat, m \in {slot[u]} : k = key[u] /\ d = depth[u]
      BY <1>0 DEF TypeOK
    <3>2. Reached(k, m, d) /\ (pc[u] \in {"alloc", "swap"} => insert[u])
      BY <3>1 DEF TrieIsSound, CallsAreOnTheirWay, CallIsOnItsWay
    <3>3. CASE u = t
      <4>1. Reached(k, Root, 0)'
        <5>1. Reached(k, Root, 0)
          BY SearchBegins
        <5> QED
          BY <1>1, <1>3, <5>1, FilledPaths
      <4> QED
        BY <1>7, <3>1, <3>3, <4>1 DEF CallIsOnItsWay, Reached, PlaceOn, Walk
    <3>4. CASE u # t
      <4>1. Reached(k, m, d)'
        BY <1>1, <1>3, <3>2, FilledPaths
      <4>2. k = key'[u] /\ d = depth'[u] /\ m = slot'[u] /\ pc'[u] = pc[u] /\ insert'[u] = insert[u]
        BY <1>7, <3>1, <3>4
      <4> QED
        BY <3>2, <4>1, <4>2 DEF CallIsOnItsWay, Reached, PlaceOn, Walk
    <3> QED
      BY <3>3, <3>4
  <2> QED
    BY <2>1 DEF CallsAreOnTheirWay
<1>13. \A x \in Published : heap'[x].key = heap[x].key
  BY <1>8, PublishedIsClosed DEF Closed
<1> QED
  BY <1>4, <1>5, <1>6, <1>10, <1>11, <1>12, <1>13 DEF TrieIsSound

-----------------------------------------------------------------------------
(***************************************************************************)
(* The theorems.                                                           *)
(***************************************************************************)
\* Nothing has been published yet.
LEMMA TrieIsSoundAtFirst ==
  ASSUME Init
  PROVE  TrieIsSound /\ Published = {}
<1>1. /\ root = Null /\ heap = [a \in Addr |-> Null] /\ arena = [t \in Thread |-> 0]
      /\ aborted = FALSE /\ pc = [t \in Thread |-> "idle"]
      /\ key = [t \in Thread |-> CHOOSE k \in Key : TRUE]
      /\ insert = [t \in Thread |-> FALSE] /\ slot = [t \in Thread |-> Root]
      /\ depth = [t \in Thread |-> 0] /\ new = [t \in Thread |-> Null]
      /\ result = [t \in Thread |-> Null]
  BY DEF Init
<1>2. (CHOOSE k \in Key : TRUE) \in Key
  OBVIOUS
<1>3. TypeOK
  <2>1. key \in [Thread -> Key]
    BY <1>1, <1>2
  <2>2. arena \in [Thread -> 0..ArenaSize] /\ depth \in [Thread -> Nat]
    BY <1>1
  <2>3. insert \in [Thread -> BOOLEAN] /\ aborted \in BOOLEAN
    BY <1>1
  <2> QED
    BY <1>1, <2>1, <2>2, <2>3 DEF TypeOK
<1>4. ASSUME NEW m \in Slots PROVE m = Root /\ At(m) = Null
  <2>1. m \notin Addr \X Digit \/ heap[m[1]] = Null
    BY <1>1
  <2>2. m = Root
    BY <2>1 DEF Slots
  <2> QED
    BY <1>1, <2>2 DEF At
<1>5. Published = {}
  BY <1>4 DEF Published
<1>6. IsFiniteSet(Published) /\ Cardinality(Published) = 0
  BY <1>5, FS_EmptySet
<1>7. OneNodePerKey /\ OnItsPath /\ PublishedIsAllocated
  BY <1>5 DEF OneNodePerKey, OnItsPath, PublishedIsAllocated
<1>8. IsATree
  BY <1>4, <1>6 DEF IsATree
<1>9. RollbackIsPrivate
  <2>1. ASSUME NEW a \in Addr PROVE heap[a] = Null /\ ~(a[2] < arena[a[1]])
    BY <1>1 DEF Addr
  <2> QED
    BY <1>1, <2>1 DEF RollbackIsPrivate
<1>10. CallsAreOnTheirWay
  BY <1>1, <1>6 DEF CallsAreOnTheirWay, CallIsOnItsWay, Reached, PlaceOn
<1> QED
  BY <1>3, <1>5, <1>7, <1>8, <1>9, <1>10 DEF TrieIsSound

\* Where no pointer is written, none is written twice.
LEMMA UnwrittenIsWrittenOnce ==
  ASSUME TrieIsSound, Unwritten
  PROVE  WrittenOnce
<1>1. \A x \in Published : heap[x] \in Node /\ heap'[x] = heap[x]
  BY PublishedIsClosed DEF Unwritten
<1> QED
  BY <1>1 DEF Unwritten, WrittenOnce

\* A step that changes nothing leaves the trie sound.
LEMMA StutterStep ==
  ASSUME TrieIsSound, UNCHANGED vars
  PROVE  TrieIsSound' /\ Unwritten
<1>1. /\ UNCHANGED <<root, heap, arena, aborted, pc, key, insert, slot, depth, new, result>>
      /\ TypeOK
  BY DEF vars, TrieIsSound
<1>2. Unwritten
  BY <1>1, SameHeapIsUnwritten
<1>3. TypeOK'
  BY <1>1 DEF TypeOK
<1>4. PublishedIsAllocated' /\ RollbackIsPrivate'
  BY <1>1, <1>2, ArenasAreSame
<1>5. CallsAreOnTheirWay'
  <2>1. ASSUME NEW u \in Thread PROVE CallIsOnItsWay(u)'
    <3>1. PICK k \in Key, d \in Nat, m \in {slot[u]} : k = key[u] /\ d = depth[u]
      BY <1>1 DEF TypeOK
    <3>2. CallIsOnItsWay(u) /\ Reached(k, m, d)
      BY <3>1 DEF TrieIsSound, CallsAreOnTheirWay, CallIsOnItsWay
    <3>3. Reached(k, m, d)'
      BY <1>2, <3>2, UnwrittenIsSame
    <3> QED
      BY <1>1, <3>1, <3>2, <3>3 DEF CallIsOnItsWay, Reached, PlaceOn, Walk
  <2> QED
    BY <2>1 DEF CallsAreOnTheirWay
<1> QED
  BY <1>2, <1>3, <1>4, <1>5, UnwrittenIsSame DEF TrieIsSound

\* Every step leaves the trie sound, and writes no pointer twice.
LEMMA EveryStep ==
  ASSUME TrieIsSound, [Next]_vars
  PROVE  TrieIsSound' /\ WrittenOnce
<1>1. CASE \E t \in Thread, k \in Key, ins \in BOOLEAN : ~aborted /\ Call(t, k, ins)
  BY <1>1, CallStep, UnwrittenIsWrittenOnce
<1>2. ASSUME NEW t \in Thread, Step(t) PROVE TrieIsSound' /\ WrittenOnce
  <2>1. CASE Load(t)
    BY <2>1, LoadStep, UnwrittenIsWrittenOnce
  <2>2. CASE Alloc(t)
    BY <2>2, AllocStep, UnwrittenIsWrittenOnce
  <2>3. CASE AssertionFails(t)
    BY <2>3, AssertionFailsStep, UnwrittenIsWrittenOnce
  <2>4. CASE SwapSucceeds(t)
    BY <2>4, SwapSucceedsStep
  <2>5. CASE SwapFails(t)
    BY <2>5, SwapFailsStep, UnwrittenIsWrittenOnce
  <2> QED
    BY <1>2, <2>1, <2>2, <2>3, <2>4, <2>5 DEF Step
<1>3. CASE UNCHANGED vars
  BY <1>3, StutterStep, UnwrittenIsWrittenOnce
<1> QED
  BY <1>1, <1>2, <1>3 DEF Next, Stopped

\* However many threads race: every key has one node, on the path upsert takes,
\* in a tree, and no arena ever takes back a node that can be reached.
THEOREM TrieStaysSound == Spec => []TrieIsSound
<1>1. Init => TrieIsSound
  BY TrieIsSoundAtFirst
<1>2. TrieIsSound /\ [Next]_vars => TrieIsSound'
  BY EveryStep
<1> QED
  BY <1>1, <1>2, PTL DEF Spec

\* Every pointer of the trie is written once: a node handed to a caller stays.
THEOREM NodesStayPublished == Spec => PublishedForGood
<1>1. TrieIsSound /\ [Next]_vars => [WrittenOnce]_vars
  BY EveryStep
<1> QED
  BY <1>1, TrieStaysSound, PTL DEF Spec, PublishedForGood

-----------------------------------------------------------------------------
(***************************************************************************)
(* upsert is atomic.                                                       *)
(***************************************************************************)
\* Where nothing is published, no key is bound.
LEMMA SameBindings ==
  ASSUME TrieIsSound, Unwritten
  PROVE  Bindings' = Bindings
<1>1. Published' = Published /\ \A x \in Published : heap'[x] = heap[x]
  BY UnwrittenIsSame DEF Unwritten
<1> QED
  BY <1>1 DEF Bindings

\* What a step of thread t makes of the calls.
LEMMA OneCallChanges ==
  ASSUME NEW t \in Thread,
         \A u \in Thread \ {t} : /\ pc'[u] = pc[u] /\ key'[u] = key[u]
                                 /\ insert'[u] = insert[u] /\ result'[u] = result[u]
  PROVE  /\ pc'[t] # "idle" => Calls' = [Calls EXCEPT ![t] = C!Pending(key'[t], insert'[t])]
         /\ pc'[t] = "idle" => Calls' = [Calls EXCEPT ![t] = C!Answer(key'[t], result'[t])]
         /\ pc[t] # "idle" => Calls[t] = C!Pending(key[t], insert[t])
         /\ pc[t] = "idle" => Calls[t] = C!Answer(key[t], result[t])
<1>1. ASSUME NEW u \in Thread \ {t} PROVE Calls'[u] = Calls[u]
  BY DEF Calls
<1>2. /\ pc'[t] # "idle" => Calls'[t] = C!Pending(key'[t], insert'[t])
      /\ pc'[t] = "idle" => Calls'[t] = C!Answer(key'[t], result'[t])
      /\ pc[t] # "idle" => Calls[t] = C!Pending(key[t], insert[t])
      /\ pc[t] = "idle" => Calls[t] = C!Answer(key[t], result[t])
  BY DEF Calls, C!Pending, C!Answer
<1>3. Calls = [u \in Thread |-> Calls[u]] /\ Calls' = [u \in Thread |-> Calls'[u]]
  BY DEF Calls
<1>4. Calls' = [Calls EXCEPT ![t] = Calls'[t]]
  BY <1>1, <1>3
<1> QED
  BY <1>2, <1>4

\* A call that goes on has not taken effect.
LEMMA GoingOnIsInvisible ==
  ASSUME NEW t \in Thread, pc[t] # "idle", pc'[t] # "idle",
         key'[t] = key[t], insert'[t] = insert[t], Bindings' = Bindings,
         \A u \in Thread \ {t} : /\ pc'[u] = pc[u] /\ key'[u] = key[u]
                                 /\ insert'[u] = insert[u] /\ result'[u] = result[u]
  PROVE  UNCHANGED C!vars
<1>1. Calls[t] = C!Pending(key[t], insert[t]) /\ Calls' = [Calls EXCEPT ![t] = Calls[t]]
  BY OneCallChanges
<1>2. Calls = [u \in Thread |-> Calls[u]]
  BY DEF Calls
<1>3. Calls' = Calls
  BY <1>1, <1>2
<1> QED
  BY <1>3 DEF C!vars

\* A turn that met a node returns it, or goes on.
LEMMA VisitIsAtomic ==
  ASSUME TrieIsSound, Unwritten, NEW t \in Thread, pc[t] # "idle", At(slot[t]) # Null,
         Visit(t, At(slot[t])), key' = key, insert' = insert
  PROVE  C!Finds(t) \/ UNCHANGED C!vars
<1>1. PICK n \in Published : n = At(slot[t])
  BY CallIsOnPath DEF Published
<1>2. TypeOK /\ Bindings' = Bindings
  BY SameBindings DEF TrieIsSound
<1>3. CASE heap[n].key = key[t]
  <2>1. pc' = [pc EXCEPT ![t] = "idle"] /\ result' = [result EXCEPT ![t] = n]
    BY <1>1, <1>3 DEF Visit, Return
  <2>2. /\ pc'[t] = "idle" /\ result'[t] = n
        /\ \A u \in Thread \ {t} : /\ pc'[u] = pc[u] /\ key'[u] = key[u]
                                   /\ insert'[u] = insert[u] /\ result'[u] = result[u]
    BY <1>2, <2>1 DEF TypeOK
  <2>3. Calls[t] = C!Pending(key[t], insert[t]) /\ Calls' = [Calls EXCEPT ![t] = C!Answer(key[t], n)]
    BY <2>2, OneCallChanges
  <2> DEFINE b == [key |-> heap[n].key, cell |-> n]
  <2>4. b \in Bindings /\ b.key = key[t] /\ b.cell = n
    BY <1>3 DEF Bindings
  <2> HIDE DEF b
  <2>5. Calls[t].pending /\ Calls[t].key = key[t]
    BY <2>3 DEF C!Pending
  <2>6. C!Finds(t)
    BY <1>2, <2>3, <2>4, <2>5 DEF C!Finds
  <2> QED
    BY <2>6
<1>4. CASE heap[n].key # key[t]
  <2>1. pc' = [pc EXCEPT ![t] = "load"] /\ result' = result
    BY <1>1, <1>4 DEF Visit
  <2>2. pc'[t] # "idle" /\ \A u \in Thread \ {t} : pc'[u] = pc[u]
    BY <1>2, <2>1 DEF TypeOK
  <2> QED
    BY <1>2, <2>1, <2>2, GoingOnIsInvisible
<1> QED
  BY <1>3, <1>4

\* At an empty place, the key of the call is bound to no cell.
LEMMA KeyIsUnbound ==
  ASSUME TrieIsSound, NEW t \in Thread, At(slot[t]) = Null
  PROVE  key[t] \notin C!Bound
<1>1. \A a \in Published : heap[a].key # key[t]
  BY KeyIsAbsent
<1> QED
  BY <1>1 DEF C!Bound, Bindings

\* The load is where a call takes effect that finds its node, or that finds
\* nothing and has nothing to insert.
LEMMA LoadIsAtomic ==
  ASSUME TrieIsSound, NEW t \in Thread, Load(t)
  PROVE  C!Finds(t) \/ C!Misses(t) \/ UNCHANGED C!vars
<1>1. /\ TypeOK /\ Unwritten /\ pc[t] = "load"
      /\ key' = key /\ insert' = insert
  BY SameHeapIsUnwritten DEF Load, TrieIsSound
<1>2. Bindings' = Bindings
  BY <1>1, SameBindings
<1>3. CASE At(slot[t]) # Null /\ Visit(t, At(slot[t]))
  BY <1>1, <1>3, VisitIsAtomic
<1>4. CASE At(slot[t]) = Null /\ ~insert[t] /\ Return(t, Null)
  <2>1. /\ pc'[t] = "idle" /\ result'[t] = Null
        /\ \A u \in Thread \ {t} : /\ pc'[u] = pc[u] /\ key'[u] = key[u]
                                   /\ insert'[u] = insert[u] /\ result'[u] = result[u]
    BY <1>1, <1>4 DEF Return, TypeOK
  <2>2. Calls[t] = C!Pending(key[t], insert[t]) /\ Calls' = [Calls EXCEPT ![t] = C!Answer(key[t], Null)]
    BY <1>1, <2>1, OneCallChanges
  <2>3. Calls[t].pending /\ Calls[t].key = key[t] /\ ~Calls[t].insert
    BY <1>4, <2>2 DEF C!Pending
  <2>4. key[t] \notin C!Bound
    BY <1>4, KeyIsUnbound
  <2> QED
    BY <1>2, <2>2, <2>3, <2>4 DEF C!Misses
<1>5. CASE /\ At(slot[t]) = Null /\ insert[t]
           /\ pc' = [pc EXCEPT ![t] = "alloc"]
           /\ UNCHANGED <<slot, depth, result>>
  <2>1. pc'[t] # "idle" /\ \A u \in Thread \ {t} : pc'[u] = pc[u] /\ result'[u] = result[u]
    BY <1>1, <1>5 DEF TypeOK
  <2> QED
    BY <1>1, <1>2, <2>1, GoingOnIsInvisible
<1> QED
  BY <1>3, <1>4, <1>5 DEF Load

\* The swap is where a call takes effect that inserts its key.
LEMMA SwapIsAtomic ==
  ASSUME TrieIsSound, NEW t \in Thread, SwapSucceeds(t)
  PROVE  C!Inserts(t)
<1>1. /\ TypeOK /\ pc[t] = "swap" /\ At(slot[t]) = Null
      /\ pc' = [pc EXCEPT ![t] = "idle"] /\ result' = [result EXCEPT ![t] = new[t]]
      /\ key' = key /\ insert' = insert
  BY DEF SwapSucceeds, Return, TrieIsSound
<1>2. PICK n \in Addr : n = new[t] /\ n \notin Published /\ heap[n] = FreshNode(key[t]) /\ heap[n] # Null
  BY <1>1, WinnerFacts
<1>3. insert[t]
  BY <1>1 DEF TrieIsSound, CallsAreOnTheirWay, CallIsOnItsWay
<1>4. /\ Published' = Published \cup {n}
      /\ \A x \in Published : heap'[x].key = heap[x].key
  BY <1>2, SwapSucceedsStep
<1>5. heap'[n].key = key[t]
  <2>1. CASE slot[t] = Root
    <3>1. heap' = heap
      BY <2>1 DEF SwapSucceeds, Publish
    <3> QED
      BY <1>2, <3>1 DEF FreshNode
  <2>2. CASE slot[t] # Root
    <3>1. PICK x \in Published, d \in Digit : slot[t] = <<x, d>>
      BY <1>1, <2>2, WinnerFacts
    <3>2. heap' = [heap EXCEPT ![x].child[d] = n] /\ x # n
      BY <1>2, <2>2, <3>1 DEF SwapSucceeds, Publish
    <3>3. heap'[n] = heap[n]
      BY <1>1, <1>2, <3>2 DEF TypeOK
    <3> QED
      BY <1>2, <3>3 DEF FreshNode
  <2> QED
    BY <2>1, <2>2
<1>6. Bindings' = Bindings \cup {[key |-> key[t], cell |-> n]}
  BY <1>4, <1>5 DEF Bindings
<1>7. n \in Addr \ {b.cell : b \in Bindings}
  BY <1>2 DEF Bindings
<1>8. /\ pc'[t] = "idle" /\ result'[t] = n
      /\ \A u \in Thread \ {t} : /\ pc'[u] = pc[u] /\ key'[u] = key[u]
                                 /\ insert'[u] = insert[u] /\ result'[u] = result[u]
  BY <1>1, <1>2 DEF TypeOK
<1>9. Calls[t] = C!Pending(key[t], insert[t]) /\ Calls' = [Calls EXCEPT ![t] = C!Answer(key[t], n)]
  BY <1>1, <1>8, OneCallChanges
<1>10. Calls[t].pending /\ Calls[t].insert /\ Calls[t].key = key[t]
  BY <1>3, <1>9 DEF C!Pending
<1>11. key[t] \notin C!Bound
  BY <1>1, KeyIsUnbound
<1> QED
  BY <1>6, <1>7, <1>9, <1>10, <1>11 DEF C!Inserts

\* Every step of the threads is a step of Cells or is not seen there.
LEMMA EveryStepIsAtomic ==
  ASSUME TrieIsSound, [Next]_vars
  PROVE  [C!Next]_C!vars
<1>0. TypeOK
  BY DEF TrieIsSound
<1>1. ASSUME NEW t \in Thread, NEW k \in Key, NEW ins \in BOOLEAN, Call(t, k, ins)
      PROVE  C!Invoke(t)
  <2>1. Bindings' = Bindings
    BY <1>1, CallStep, SameBindings
  <2>2. /\ pc[t] = "idle" /\ pc'[t] = "load" /\ key'[t] = k /\ insert'[t] = ins
        /\ \A u \in Thread \ {t} : /\ pc'[u] = pc[u] /\ key'[u] = key[u]
                                   /\ insert'[u] = insert[u] /\ result'[u] = result[u]
    BY <1>0, <1>1 DEF Call, TypeOK
  <2>3. Calls[t] = C!Answer(key[t], result[t]) /\ Calls' = [Calls EXCEPT ![t] = C!Pending(k, ins)]
    BY <2>2, OneCallChanges
  <2>4. ~Calls[t].pending
    BY <2>3 DEF C!Answer
  <2> QED
    BY <2>1, <2>3, <2>4 DEF C!Invoke
<1>2. ASSUME NEW t \in Thread, Step(t)
      PROVE  C!Finds(t) \/ C!Inserts(t) \/ C!Misses(t) \/ UNCHANGED C!vars
  <2>1. CASE Load(t)
    BY <2>1, LoadIsAtomic
  <2>2. CASE Alloc(t)
    <3>1. Bindings' = Bindings
      BY <2>2, AllocStep, SameBindings
    <3>2. /\ pc[t] # "idle" /\ pc'[t] # "idle" /\ key' = key /\ insert' = insert /\ result' = result
          /\ \A u \in Thread \ {t} : pc'[u] = pc[u]
      BY <1>0, <2>2 DEF Alloc, TypeOK
    <3> QED
      BY <3>1, <3>2, GoingOnIsInvisible
  <2>3. CASE AssertionFails(t)
    <3>1. Bindings' = Bindings
      BY <2>3, AssertionFailsStep, SameBindings
    <3>2. pc[t] # "idle" /\ pc' = pc /\ key' = key /\ insert' = insert /\ result' = result
      BY <2>3 DEF AssertionFails
    <3> QED
      BY <3>1, <3>2, GoingOnIsInvisible
  <2>4. CASE SwapSucceeds(t)
    BY <2>4, SwapIsAtomic
  <2>5. CASE SwapFails(t)
    <3>1. Unwritten
      BY <2>5, SwapFailsStep
    <3>2. /\ pc[t] # "idle" /\ At(slot[t]) # Null /\ Visit(t, At(slot[t]))
          /\ key' = key /\ insert' = insert
      BY <2>5 DEF SwapFails
    <3> QED
      BY <3>1, <3>2, VisitIsAtomic
  <2> QED
    BY <1>2, <2>1, <2>2, <2>3, <2>4, <2>5 DEF Step
<1>3. CASE UNCHANGED vars
  <2>1. Bindings' = Bindings
    BY <1>3, StutterStep, SameBindings
  <2>2. Calls' = Calls
    BY <1>3 DEF vars, Calls
  <2> QED
    BY <2>1, <2>2 DEF C!vars
<1> QED
  BY <1>1, <1>2, <1>3 DEF Next, Stopped, C!Next

\* The calls of the threads are those of a map of cells that does each of them
\* at one instant, in whatever order the threads read and swap.
THEOREM UpsertIsAtomic == Spec => ImplementsCells
<1>1. Init => C!Init
  <2> SUFFICES ASSUME Init PROVE C!Init
    OBVIOUS
  <2>1. Bindings = {}
    BY TrieIsSoundAtFirst DEF Bindings
  <2>2. TypeOK /\ pc = [t \in Thread |-> "idle"] /\ result = [t \in Thread |-> Null]
    BY TrieIsSoundAtFirst DEF Init, TrieIsSound
  <2>3. ASSUME NEW t \in Thread PROVE Calls[t] \in {C!Answer(k, Null) : k \in Key}
    BY <2>2 DEF Calls, C!Answer, TypeOK
  <2>4. Calls \in [Thread -> {C!Answer(k, Null) : k \in Key}]
    <3>1. Calls = [t \in Thread |-> Calls[t]]
      BY DEF Calls
    <3> QED
      BY <2>3, <3>1
  <2> QED
    BY <2>1, <2>4 DEF C!Init
<1>2. TrieIsSound /\ [Next]_vars => [C!Next]_C!vars
  BY EveryStepIsAtomic
<1> QED
  BY <1>1, <1>2, TrieStaysSound, PTL DEF Spec, ImplementsCells, C!Spec
=============================================================================
