------------------------------ MODULE KavlShape ------------------------------
(***************************************************************************)
(* Facts about the nodes of Kavl that KavlProof is built from: what the    *)
(* shape of a tree is, what a search finds in it, what linking and         *)
(* rotating nodes does to it, and that insertion and the walk back up a    *)
(* path keep it.                                                           *)
(***************************************************************************)
EXTENDS KavlProps, Iteration, FiniteSetTheorems

-----------------------------------------------------------------------------
(***************************************************************************)
(* What is known of the nodes g.  There are three functions of the nodes:  *)
(* "up" tells whose child a node is and in which direction, "sub" what is  *)
(* below it, and "ht" how high its subtree is.  Each is right if it is     *)
(* right at every node, seen from its children.  A node outside the tree   *)
(* is a tree of its own.                                                   *)
(***************************************************************************)
Child == Key \cup {Null}

Place == (Key \cup {Root}) \X (0..1)

Heads == [Key \cup {Root} -> [p : [0..1 -> Child], balance : Int, size : Int]]

Kid(g, x, d) == g[x].p[d]

Bal(g, x) == g[x].balance

Siz(g, x) == g[x].size

Beyond(x, y, d) == IF d = 1 THEN x < y ELSE y < x

Structure(g, up, sub) ==
  /\ g \in Heads /\ up \in [Key -> Place] /\ sub \in [Child -> SUBSET Key]
  /\ sub[Null] = {}
  /\ Kid(g, Root, 1) = Null
  /\ \A x \in Key \cup {Root}, d \in 0..1 :
       Kid(g, x, d) # Null => up[Kid(g, x, d)] = <<x, d>>
  /\ \A x \in Key : sub[x] = {x} \cup sub[Kid(g, x, 0)] \cup sub[Kid(g, x, 1)]
  /\ \A x \in Key, d \in 0..1 : \A y \in sub[Kid(g, x, d)] : Beyond(x, y, d)
  /\ \A x \in Key : Siz(g, x) = Cardinality(sub[x])
  /\ \A x \in Key : x \notin sub[Kid(g, Root, 0)] =>
       Kid(g, x, 0) = Null /\ Kid(g, x, 1) = Null

\* n is the height above subtrees of heights l and r
Above(n, l, r) == (n = l + 1 /\ r <= l) \/ (n = r + 1 /\ l <= r)

BalancedAt(g, ht, x) ==
  /\ Above(ht[x], ht[Kid(g, x, 0)], ht[Kid(g, x, 1)])
  /\ Bal(g, x) = ht[Kid(g, x, 1)] - ht[Kid(g, x, 0)]
  /\ Bal(g, x) \in -1..1

\* all nodes but some are balanced
Balanced(g, ht, S) ==
  /\ ht \in [Child -> Nat] /\ ht[Null] = 0
  /\ \A x \in Key \ S : BalancedAt(g, ht, x)

-----------------------------------------------------------------------------
(***************************************************************************)
(* Finite sets and order.                                                  *)
(***************************************************************************)
LEMMA KeysAre ==
  /\ \A x \in Key : x \in Int
  /\ IsFiniteSet(Key) /\ Cardinality(Key) \in Nat
  /\ \A S \in SUBSET Key :
       IsFiniteSet(S) /\ Cardinality(S) \in Nat /\ Cardinality(S) <= Cardinality(Key)
  /\ Null \notin Key /\ Root \notin Key /\ Root # Null
<1>1. \A S \in SUBSET Key : IsFiniteSet(S) /\ Cardinality(S) <= Cardinality(Key)
  BY KavlAssumption, FS_Subset
<1>2. \A S : IsFiniteSet(S) => Cardinality(S) \in Nat
  BY FS_CardinalityType
<1> QED
  BY <1>1, <1>2, KavlAssumption

\* An element and two disjoint sets without it.
LEMMA CountOfThree ==
  ASSUME NEW A \in SUBSET Key, NEW B \in SUBSET Key, NEW x \in Key,
         x \notin A, x \notin B, A \cap B = {}
  PROVE  Cardinality({x} \cup A \cup B) = 1 + Cardinality(A) + Cardinality(B)
<1>1. IsFiniteSet(A) /\ IsFiniteSet(B) /\ Cardinality(A) \in Nat /\ Cardinality(B) \in Nat
  BY KeysAre
<1>2. Cardinality(A \cup B) = Cardinality(A) + Cardinality(B) /\ IsFiniteSet(A \cup B)
  <2>1. Cardinality(A \cup B) = Cardinality(A) + Cardinality(B) - Cardinality(A \cap B)
    BY <1>1, FS_Union
  <2>2. Cardinality(A \cap B) = 0
    BY FS_EmptySet
  <2> QED
    BY <1>1, <2>1, <2>2, FS_Union
<1>3. Cardinality((A \cup B) \cup {x}) = Cardinality(A \cup B) + 1
  BY <1>2, FS_AddElement
<1>4. {x} \cup A \cup B = (A \cup B) \cup {x}
  OBVIOUS
<1>5. Cardinality({x} \cup A \cup B) = Cardinality(A \cup B) + 1
  BY ONLY <1>3, <1>4
<1> QED
  BY ONLY <1>1, <1>2, <1>5

\* How many nodes a subtree has.
LEMMA SizeIs ==
  ASSUME NEW g, NEW up, NEW sub, Structure(g, up, sub), NEW x \in Key
  PROVE  Cardinality(sub[x])
           = 1 + Cardinality(sub[Kid(g, x, 0)]) + Cardinality(sub[Kid(g, x, 1)])
<1> DEFINE A == sub[Kid(g, x, 0)]
           B == sub[Kid(g, x, 1)]
<1>1. Kid(g, x, 0) \in Child /\ Kid(g, x, 1) \in Child
  BY DEF Structure, Heads, Kid
<1>2. A \in SUBSET Key /\ B \in SUBSET Key /\ sub[x] = {x} \cup A \cup B
  BY <1>1 DEF Structure
<1>3. (\A y \in A : y < x) /\ (\A y \in B : x < y)
  BY DEF Structure, Beyond
<1>4. x \notin A /\ x \notin B /\ A \cap B = {}
  BY <1>2, <1>3, KeysAre
<1> HIDE DEF A, B
<1>5. Cardinality({x} \cup A \cup B) = 1 + Cardinality(A) + Cardinality(B)
  BY <1>2, <1>4, CountOfThree
<1> QED
  BY <1>2, <1>5 DEF A, B

-----------------------------------------------------------------------------
(***************************************************************************)
(* A single rotation of p keeps the structure.                             *)
(***************************************************************************)
\* h is g with p, the child of a in direction b, rotated in direction dir.
Turned(g, h, a, b, p, dir) ==
  LET q == Kid(g, p, 1 - dir)
  IN  /\ h \in Heads
      /\ \A x \in Key \cup {Root}, e \in 0..1 :
           Kid(h, x, e) = IF x = p /\ e = 1 - dir THEN Kid(g, q, dir)
                          ELSE IF x = q /\ e = dir THEN p
                          ELSE IF x = a /\ e = b THEN q
                          ELSE Kid(g, x, e)
      /\ \A x \in Key :
           Siz(h, x) = IF x = p THEN Siz(g, p) - (Siz(g, q) - SizeOf(g, Kid(g, q, dir)))
                       ELSE IF x = q THEN Siz(g, p)
                       ELSE Siz(g, x)

TurnedSub(g, sub, p, dir) ==
  LET q == Kid(g, p, 1 - dir)
  IN  [y \in Child |-> IF y = q THEN sub[p]
                       ELSE IF y = p THEN {p} \cup sub[Kid(g, p, dir)] \cup sub[Kid(g, q, dir)]
                       ELSE sub[y]]

TurnedUp(g, up, a, b, p, dir) ==
  LET q == Kid(g, p, 1 - dir)
  IN  [y \in Key |-> IF y = q THEN <<a, b>>
                     ELSE IF y = p THEN <<q, dir>>
                     ELSE IF y = Kid(g, q, dir) THEN <<p, 1 - dir>>
                     ELSE up[y]]

\* What is above is not below.
LEMMA KidsAre ==
  ASSUME NEW g, NEW up, NEW sub, Structure(g, up, sub)
  PROVE  /\ \A x \in Key \cup {Root}, d \in 0..1 : Kid(g, x, d) \in Child
         /\ \A x \in Key : x \in sub[x] /\ sub[x] \in SUBSET Key
         /\ \A x \in Key, d \in 0..1 : sub[Kid(g, x, d)] \subseteq sub[x] /\ x \notin sub[Kid(g, x, d)]
         /\ \A x \in Key, d \in 0..1 :
              sub[x] = {x} \cup sub[Kid(g, x, d)] \cup sub[Kid(g, x, 1 - d)]
         /\ \A x \in Child : SizeOf(g, x) = Cardinality(sub[x]) /\ sub[x] \in SUBSET Key
<1>1. \A x \in Key \cup {Root}, d \in 0..1 : Kid(g, x, d) \in Child
  BY DEF Structure, Heads, Kid
<1>2. \A x \in Key : x \in sub[x] /\ sub[x] \in SUBSET Key
  BY DEF Structure, Child
<1>3. ASSUME NEW x \in Key, NEW d \in 0..1
      PROVE  /\ sub[Kid(g, x, d)] \subseteq sub[x] /\ x \notin sub[Kid(g, x, d)]
             /\ sub[x] = {x} \cup sub[Kid(g, x, d)] \cup sub[Kid(g, x, 1 - d)]
  <2>1. sub[x] = {x} \cup sub[Kid(g, x, 0)] \cup sub[Kid(g, x, 1)]
    BY DEF Structure
  <2>2. (d = 0 /\ 1 - d = 1) \/ (d = 1 /\ 1 - d = 0)
    OBVIOUS
  <2>3. ~ Beyond(x, x, d)
    BY KeysAre DEF Beyond
  <2> QED
    BY <2>1, <2>2, <2>3 DEF Structure
<1>4. \A x \in Child : SizeOf(g, x) = Cardinality(sub[x]) /\ sub[x] \in SUBSET Key
  BY FS_EmptySet DEF Structure, SizeOf, Siz, Child
<1> QED
  BY <1>1, <1>2, <1>3, <1>4

\* What is below a node is below all that it is below.
LEMMA BelowIsTransitive ==
  ASSUME NEW g, NEW up, NEW sub, Structure(g, up, sub)
  PROVE  \A x \in Key : \A y \in sub[x] : sub[y] \subseteq sub[x]
<1> DEFINE Bad == {x \in Key : \E y \in sub[x] : ~ (sub[y] \subseteq sub[x])}
           Sizes == {Cardinality(sub[x]) : x \in Bad}
<1> SUFFICES ASSUME Bad # {} PROVE FALSE
  OBVIOUS
<1>1. Sizes \in SUBSET Nat /\ Sizes # {}
  BY KidsAre, KeysAre
<1>2. PICK x \in Bad : \A z \in Bad : Cardinality(sub[x]) <= Cardinality(sub[z])
  <2> HIDE DEF Bad
  <2>1. PICK n \in Sizes : \A m \in Sizes : n <= m
    BY <1>1, LeastNatural
  <2> QED
    BY <2>1
<1>3. PICK y \in sub[x] : ~ (sub[y] \subseteq sub[x])
  OBVIOUS
<1>4. x \in Key /\ y # x
  BY <1>3
<1>5. PICK d \in 0..1 : y \in sub[Kid(g, x, d)]
  BY <1>4 DEF Structure
<1>6. Kid(g, x, d) \in Key
  BY <1>4, <1>5, KidsAre DEF Structure, Child
<1>7. sub[Kid(g, x, d)] \subseteq sub[x] /\ Kid(g, x, d) \in sub[x]
  BY <1>4, <1>6, KidsAre
<1>8. Cardinality(sub[Kid(g, x, d)]) < Cardinality(sub[x])
  <2>1. /\ Cardinality(sub[x])
            = 1 + Cardinality(sub[Kid(g, x, 0)]) + Cardinality(sub[Kid(g, x, 1)])
        /\ Cardinality(sub[Kid(g, x, 0)]) \in Nat
        /\ Cardinality(sub[Kid(g, x, 1)]) \in Nat
    BY <1>4, SizeIs, KidsAre, KeysAre
  <2> QED
    BY <2>1
<1>9. Kid(g, x, d) \in Bad
  BY <1>3, <1>5, <1>6, <1>7
<1>10. Cardinality(sub[Kid(g, x, d)]) \in Nat /\ Cardinality(sub[x]) \in Nat
  BY <1>4, <1>6, KidsAre, KeysAre
<1> QED
  BY <1>2, <1>8, <1>9, <1>10

\* The nodes of the tree, and what is below them.
LEMMA TreeIs ==
  ASSUME NEW g, NEW up, NEW sub, Structure(g, up, sub),
         NEW N, N = sub[Kid(g, Root, 0)]
  PROVE  /\ N \in SUBSET Key
         /\ \A x \in Key \cup {Root}, d \in 0..1 : Kid(g, x, d) # Null =>
              Kid(g, x, d) \in N /\ (x = Root \/ x \in N)
         /\ \A x \in N : sub[x] \subseteq N
         /\ \A x \in Key \ N : sub[x] = {x} /\ Kid(g, x, 0) = Null /\ Kid(g, x, 1) = Null
<1>1. N \in SUBSET Key /\ Kid(g, Root, 0) \in Child
  BY KidsAre
<1>2. \A x \in N : sub[x] \subseteq N
  <2>1. CASE Kid(g, Root, 0) = Null
    BY <2>1 DEF Structure
  <2>2. CASE Kid(g, Root, 0) \in Key
    BY <2>2, BelowIsTransitive
  <2> QED
    BY <1>1, <2>1, <2>2 DEF Child
<1>3. \A x \in Key \ N : sub[x] = {x} /\ Kid(g, x, 0) = Null /\ Kid(g, x, 1) = Null
  BY DEF Structure
<1>4. ASSUME NEW x \in Key \cup {Root}, NEW d \in 0..1, Kid(g, x, d) # Null
      PROVE  Kid(g, x, d) \in N /\ (x = Root \/ x \in N)
  <2>1. Kid(g, x, d) \in Key
    BY <1>4, KidsAre DEF Child
  <2>2. Kid(g, x, d) \in sub[Kid(g, x, d)]
    BY <2>1, KidsAre
  <2>3. CASE x = Root
    BY <1>4, <2>2, <2>3 DEF Structure
  <2>4. CASE x \in Key
    <3>1. x \in N
      BY <1>3, <1>4, <2>4
    <3> QED
      BY <1>2, <2>2, <2>4, <3>1, KidsAre
  <2> QED
    BY <2>3, <2>4
<1> QED
  BY <1>1, <1>2, <1>3, <1>4

\* A place, a node in it and the node's child are three.
LEMMA TurnHasThree ==
  ASSUME NEW g, NEW up, NEW sub, Structure(g, up, sub),
         NEW p \in Key, NEW dir \in 0..1, NEW a \in Key \cup {Root}, NEW b \in 0..1,
         Kid(g, a, b) = p, NEW q, q = Kid(g, p, 1 - dir), q # Null,
         NEW m, m = Kid(g, q, dir)
  PROVE  /\ q \in Key /\ p # q /\ a # p /\ a # q /\ m \in Child /\ m # p /\ m # q
         /\ up[p] = <<a, b>> /\ up[q] = <<p, 1 - dir>> /\ (m # Null => up[m] = <<q, dir>>)
<1>1. 1 - dir \in 0..1
  OBVIOUS
<1>2. q \in Key /\ m \in Child
  BY <1>1, KidsAre DEF Child
<1>3. q \in sub[q] /\ sub[q] \subseteq sub[p] /\ p \notin sub[q]
  BY <1>1, <1>2, KidsAre
<1>4. sub[m] \subseteq sub[q] /\ q \notin sub[m]
  BY <1>2, KidsAre
<1>5. m # Null => m \in sub[m]
  BY <1>2, KidsAre DEF Child
<1>6. a # p /\ a # q
  <2>1. a \in Key => sub[p] \subseteq sub[a] /\ a \notin sub[p]
    BY KidsAre
  <2>2. p \in sub[p]
    BY KidsAre
  <2> QED
    BY <1>2, <1>3, <2>1, <2>2
<1>7. m # p /\ m # q /\ p # q
  BY <1>2, <1>3, <1>4, <1>5, KeysAre
<1>8. p # Null
  BY KeysAre
<1> QED
  BY <1>1, <1>2, <1>6, <1>7, <1>8 DEF Structure

LEMMA TurnKeepsStructure ==
  ASSUME NEW g, NEW up, NEW sub, Structure(g, up, sub),
         NEW p \in Key, NEW dir \in 0..1, NEW a \in Key \cup {Root}, NEW b \in 0..1,
         Kid(g, a, b) = p, Kid(g, p, 1 - dir) # Null,
         NEW h, Turned(g, h, a, b, p, dir)
  PROVE  /\ Structure(h, TurnedUp(g, up, a, b, p, dir), TurnedSub(g, sub, p, dir))
         /\ TurnedSub(g, sub, p, dir)[Kid(h, Root, 0)] = sub[Kid(g, Root, 0)]
<1> DEFINE q == Kid(g, p, 1 - dir)
           m == Kid(g, q, dir)
           s == Kid(g, p, dir)
           t == Kid(g, q, 1 - dir)
           up2 == TurnedUp(g, up, a, b, p, dir)
           sub2 == TurnedSub(g, sub, p, dir)
<1>1. /\ q \in Key /\ p # q /\ a # p /\ a # q /\ m \in Child /\ m # p /\ m # q
      /\ up[p] = <<a, b>> /\ up[q] = <<p, 1 - dir>> /\ (m # Null => up[m] = <<q, dir>>)
  BY TurnHasThree
<1>2. /\ s \in Child /\ t \in Child /\ 1 - dir \in 0..1 /\ 1 - dir # dir
      /\ 1 - (1 - dir) = dir /\ Null \notin Key
      /\ \A e \in 0..1 : e = dir \/ e = 1 - dir
  BY <1>1, KidsAre, KeysAre
<1>3. /\ Kid(h, p, 1 - dir) = m /\ Kid(h, p, dir) = s
      /\ Kid(h, q, dir) = p /\ Kid(h, q, 1 - dir) = t
      /\ Kid(h, a, b) = q
      /\ \A x \in Key \cup {Root}, e \in 0..1 :
           /\ x # p => (x # q => (x # a \/ e # b => Kid(h, x, e) = Kid(g, x, e)))
  BY <1>1, <1>2 DEF Turned
<1>4. /\ s # Null => up[s] = <<p, dir>>
      /\ t # Null => up[t] = <<q, 1 - dir>>
  BY <1>1, <1>2 DEF Structure
<1>5. /\ up2 \in [Key -> Place] /\ sub2 \in [Child -> SUBSET Key]
      /\ sub2[q] = sub[p] /\ sub2[p] = {p} \cup sub[s] \cup sub[m]
      /\ \A y \in Child : y # q => (y # p => sub2[y] = sub[y])
      /\ up2[q] = <<a, b>> /\ up2[p] = <<q, dir>> /\ (m # Null => up2[m] = <<p, 1 - dir>>)
      /\ \A y \in Key : y # q => (y # p => (y # m => up2[y] = up[y]))
  <2>1. up2 \in [Key -> Place]
    BY <1>1, <1>2 DEF TurnedUp, Structure, Place
  <2>2. sub2 \in [Child -> SUBSET Key]
    BY <1>1, <1>2, KidsAre DEF TurnedSub, Structure, Child
  <2>3. /\ sub2[q] = sub[p] /\ sub2[p] = {p} \cup sub[s] \cup sub[m]
        /\ \A y \in Child : y # q => (y # p => sub2[y] = sub[y])
    BY <1>1 DEF TurnedSub, Child
  <2>4. /\ up2[q] = <<a, b>> /\ up2[p] = <<q, dir>> /\ (m # Null => up2[m] = <<p, 1 - dir>>)
        /\ \A y \in Key : y # q => (y # p => (y # m => up2[y] = up[y]))
    BY <1>1 DEF TurnedUp, Child
  <2> QED
    BY <2>1, <2>2, <2>3, <2>4
<1> HIDE DEF q, m, s, t, up2, sub2
\* where the children are now
<1>6. s # p /\ s # q /\ t # p /\ t # q
  BY <1>1, <1>2, <1>4
<1>7. \A x \in Key \cup {Root}, e \in 0..1 :
        x # p => (x # q => sub2[Kid(h, x, e)] = sub[Kid(g, x, e)])
  <2> SUFFICES ASSUME NEW x \in Key \cup {Root}, NEW e \in 0..1, x # p, x # q
               PROVE  sub2[Kid(h, x, e)] = sub[Kid(g, x, e)]
    OBVIOUS
  <2>1. CASE x = a /\ e = b
    BY <1>3, <1>5, <2>1
  <2>2. CASE ~ (x = a /\ e = b)
    <3>1. Kid(h, x, e) = Kid(g, x, e) /\ Kid(g, x, e) \in Child
      BY <1>3, <2>2, KidsAre
    <3>2. Kid(g, x, e) # Null => up[Kid(g, x, e)] = <<x, e>>
      BY DEF Structure
    <3>3. Kid(g, x, e) # p /\ Kid(g, x, e) # q
      BY <1>1, <1>2, <2>2, <3>2
    <3> QED
      BY <1>5, <3>1, <3>3
  <2> QED
    BY <2>1, <2>2
<1>8. /\ sub2[Kid(h, p, dir)] = sub[s] /\ sub2[Kid(h, p, 1 - dir)] = sub[m]
      /\ sub2[Kid(h, q, dir)] = sub2[p] /\ sub2[Kid(h, q, 1 - dir)] = sub[t]
  BY <1>1, <1>2, <1>3, <1>5, <1>6
<1>9. /\ sub[p] = {p} \cup sub[s] \cup sub[q]
      /\ sub[q] = {q} \cup sub[m] \cup sub[t]
  BY <1>1, <1>2, KidsAre DEF q, m, s, t
<1>10. Kid(h, Root, 1) = Null
  <2>1. Kid(g, Root, 1) = Null
    BY DEF Structure
  <2>2. Root # p /\ Root # q /\ ~ (a = Root /\ b = 1)
    BY <1>1, <1>2, <2>1, KeysAre
  <2> QED
    BY <1>3, <2>1, <2>2
<1>11. \A x \in Key \cup {Root}, e \in 0..1 :
         Kid(h, x, e) # Null => up2[Kid(h, x, e)] = <<x, e>>
  <2> SUFFICES ASSUME NEW x \in Key \cup {Root}, NEW e \in 0..1, Kid(h, x, e) # Null
               PROVE  up2[Kid(h, x, e)] = <<x, e>>
    OBVIOUS
  <2>1. CASE x = p
    BY <1>1, <1>2, <1>3, <1>4, <1>5, <1>6, <2>1 DEF Child
  <2>2. CASE x = q
    BY <1>1, <1>2, <1>3, <1>4, <1>5, <1>6, <2>2 DEF Child
  <2>3. CASE x = a /\ e = b
    BY <1>3, <1>5, <2>3
  <2>4. CASE x # p /\ x # q /\ ~ (x = a /\ e = b)
    <3>1. Kid(h, x, e) = Kid(g, x, e) /\ Kid(g, x, e) \in Key
      BY <1>3, <2>4, KidsAre DEF Child
    <3>2. up[Kid(g, x, e)] = <<x, e>>
      BY <3>1 DEF Structure
    <3>3. Kid(g, x, e) # p /\ Kid(g, x, e) # q /\ Kid(g, x, e) # m
      BY <1>1, <1>2, <2>4, <3>1, <3>2
    <3> QED
      BY <1>5, <3>1, <3>2, <3>3
  <2> QED
    BY <2>1, <2>2, <2>3, <2>4
<1>12. \A x \in Key : sub2[x] = {x} \cup sub2[Kid(h, x, 0)] \cup sub2[Kid(h, x, 1)]
  <2> SUFFICES ASSUME NEW x \in Key
               PROVE  sub2[x] = {x} \cup sub2[Kid(h, x, dir)] \cup sub2[Kid(h, x, 1 - dir)]
    <3>1. (dir = 0 /\ 1 - dir = 1) \/ (dir = 1 /\ 1 - dir = 0)
      OBVIOUS
    <3> QED
      BY <3>1
  <2>1. CASE x = p
    BY <1>5, <1>8, <2>1
  <2>2. CASE x = q
    BY <1>5, <1>8, <1>9, <2>2
  <2>3. CASE x # p /\ x # q
    <3>1. sub2[x] = sub[x]
      BY <1>5, <2>3 DEF Child
    <3>2. sub[x] = {x} \cup sub[Kid(g, x, dir)] \cup sub[Kid(g, x, 1 - dir)]
      BY KidsAre
    <3> QED
      BY <1>2, <1>7, <2>3, <3>1, <3>2
  <2> QED
    BY <2>1, <2>2, <2>3
<1>13. \A x \in Key, e \in 0..1 : \A y \in sub2[Kid(h, x, e)] : Beyond(x, y, e)
  <2>1. /\ \A y \in sub[s] : Beyond(p, y, dir)
        /\ \A y \in sub[q] : Beyond(p, y, 1 - dir)
        /\ \A y \in sub[m] : Beyond(q, y, dir)
        /\ \A y \in sub[t] : Beyond(q, y, 1 - dir)
    BY <1>1, <1>2 DEF Structure, q, m, s, t
  <2>2. q \in sub[q] /\ \A y \in sub[m] : y \in sub[q]
    BY <1>9
  <2>3. sub[s] \subseteq Key
    BY <1>2, KidsAre
  <2>4. \A y \in sub2[p] : Beyond(q, y, dir)
    <3>1. Beyond(p, q, 1 - dir)
      BY <2>1, <2>2
    <3>2. ASSUME NEW y \in Key, Beyond(p, y, dir) \/ y = p
          PROVE  Beyond(q, y, dir)
      <4>1. p \in Int /\ q \in Int /\ y \in Int
        BY <1>1, KeysAre
      <4> QED
        BY <1>2, <3>1, <3>2, <4>1 DEF Beyond
    <3> QED
      BY <1>5, <2>1, <2>3, <3>2
  <2> SUFFICES ASSUME NEW x \in Key, NEW e \in 0..1, NEW y \in sub2[Kid(h, x, e)]
               PROVE  Beyond(x, y, e)
    OBVIOUS
  <2>5. CASE x = p
    BY <1>2, <1>8, <1>9, <2>1, <2>2, <2>5
  <2>6. CASE x = q
    BY <1>2, <1>8, <2>1, <2>4, <2>6
  <2>7. CASE x # p /\ x # q
    <3>1. y \in sub[Kid(g, x, e)]
      BY <1>7, <2>7
    <3> QED
      BY <3>1 DEF Structure
  <2> QED
    BY <2>5, <2>6, <2>7
<1>14. \A x \in Key : Siz(h, x) = Cardinality(sub2[x])
  <2>1. /\ Siz(h, p) = Siz(g, p) - (Siz(g, q) - SizeOf(g, m))
        /\ Siz(h, q) = Siz(g, p)
        /\ \A x \in Key : x # p => (x # q => Siz(h, x) = Siz(g, x))
    BY <1>1 DEF Turned, q, m
  <2>2. \A x \in Key : Siz(g, x) = Cardinality(sub[x])
    BY DEF Structure
  <2>3. SizeOf(g, m) = Cardinality(sub[m])
    BY <1>1, KidsAre
  <2>4. /\ sub[p] = {p} \cup sub[s] \cup sub[q] /\ p \notin sub[s] /\ p \notin sub[q]
        /\ sub[s] \cap sub[q] = {}
        /\ sub[p] \subseteq Key /\ sub[s] \subseteq Key /\ sub[q] \subseteq Key
        /\ sub[m] \subseteq Key /\ sub[m] \subseteq sub[q]
    <3>1. /\ sub[s] \subseteq Key /\ sub[q] \subseteq Key /\ sub[m] \subseteq Key /\ sub[p] \subseteq Key
          /\ p \notin sub[s] /\ p \notin sub[q]
      BY <1>1, <1>2, KidsAre DEF q, s
    <3>2. ASSUME NEW y \in sub[s], y \in sub[q]
          PROVE  FALSE
      <4>1. Beyond(p, y, dir) /\ Beyond(p, y, 1 - dir)
        BY <1>2, <3>2 DEF Structure, q, s
      <4>2. p \in Int /\ y \in Int
        BY <3>1, KeysAre
      <4> QED
        BY <1>2, <4>1, <4>2 DEF Beyond
    <3> QED
      BY <1>9, <3>1, <3>2
  <2>5. Cardinality(sub[p]) = 1 + Cardinality(sub[s]) + Cardinality(sub[q])
    BY <2>4, CountOfThree
  <2>6. Cardinality(sub2[p]) = 1 + Cardinality(sub[s]) + Cardinality(sub[m])
    <3>1. p \notin sub[m] /\ sub[s] \cap sub[m] = {}
      BY <2>4
    <3>2. Cardinality({p} \cup sub[s] \cup sub[m]) = 1 + Cardinality(sub[s]) + Cardinality(sub[m])
      BY <2>4, <3>1, CountOfThree
    <3> QED
      BY <1>5, <3>2
  <2>7. /\ Cardinality(sub[s]) \in Nat /\ Cardinality(sub[q]) \in Nat /\ Cardinality(sub[m]) \in Nat
    BY <2>4, KeysAre
  <2>8. Siz(h, p) = Cardinality(sub2[p])
    BY <1>1, <2>1, <2>2, <2>3, <2>5, <2>6, <2>7
  <2> QED
    BY <1>1, <1>5, <2>1, <2>2, <2>8 DEF Child
<1>15. \A x \in Key : x \notin sub2[Kid(h, Root, 0)] =>
         Kid(h, x, 0) = Null /\ Kid(h, x, 1) = Null
  <2>1. Root # p /\ Root # q
    BY <1>1, KeysAre
  <2>2. sub2[Kid(h, Root, 0)] = sub[Kid(g, Root, 0)]
    BY <1>7, <2>1
  <2>3. \A x \in Key : x \notin sub[Kid(g, Root, 0)] =>
          Kid(g, x, 0) = Null /\ Kid(g, x, 1) = Null
    BY DEF Structure
  <2>4. p \in sub[Kid(g, Root, 0)] /\ q \in sub[Kid(g, Root, 0)] /\ (a # Root => a \in sub[Kid(g, Root, 0)])
    BY <1>1, <1>2, TreeIs, KeysAre DEF q
  <2> SUFFICES ASSUME NEW x \in Key, x \notin sub2[Kid(h, Root, 0)], NEW e \in 0..1
               PROVE  Kid(h, x, e) = Null
    OBVIOUS
  <2>5. x # p /\ x # q /\ x # a
    BY <2>2, <2>4, KeysAre
  <2>6. Kid(h, x, e) = Kid(g, x, e)
    BY <1>3, <2>5
  <2> QED
    BY <2>2, <2>3, <2>6
<1>16. h \in Heads
  BY DEF Turned
<1>17. sub2[Null] = {}
  BY <1>1, <1>2, <1>5 DEF Structure, Child
<1>18. Structure(h, up2, sub2)
  BY <1>5, <1>10, <1>11, <1>12, <1>13, <1>14, <1>15, <1>16, <1>17 DEF Structure
<1>19. sub2[Kid(h, Root, 0)] = sub[Kid(g, Root, 0)]
  BY <1>1, <1>7, KeysAre
<1> QED
  BY <1>18, <1>19 DEF up2, sub2

-----------------------------------------------------------------------------
(***************************************************************************)
(* A rotation balances the node it turns.                                  *)
(***************************************************************************)
\* the balance factor of a node with heights l in direction dir and o opposite
Leans(bal, dir, l, o) == bal = IF dir = 0 THEN o - l ELSE l - o

\* Whichever way one looks at a node.
LEMMA BalancedAtIs ==
  ASSUME NEW g, NEW ht, NEW x, NEW dir \in 0..1
  PROVE  BalancedAt(g, ht, x) <=>
           /\ Above(ht[x], ht[Kid(g, x, dir)], ht[Kid(g, x, 1 - dir)])
           /\ Leans(Bal(g, x), dir, ht[Kid(g, x, dir)], ht[Kid(g, x, 1 - dir)])
           /\ Bal(g, x) \in -1..1
<1>1. CASE dir = 0
  BY <1>1 DEF BalancedAt, Above, Leans
<1>2. CASE dir = 1
  BY <1>2 DEF BalancedAt, Above, Leans
<1> QED
  BY <1>1, <1>2

\* A node that keeps its children and their heights stays balanced.
LEMMA StaysBalanced ==
  ASSUME NEW g, NEW ht, NEW h, NEW ht2, NEW x, BalancedAt(g, ht, x),
         Bal(h, x) = Bal(g, x), ht2[x] = ht[x],
         ht2[Kid(h, x, 0)] = ht[Kid(g, x, 0)], ht2[Kid(h, x, 1)] = ht[Kid(g, x, 1)]
  PROVE  BalancedAt(h, ht2, x)
BY DEF BalancedAt

\* the heights after a rotation
TurnedHeights(ht, p, n1, q, n2) == [ht EXCEPT ![p] = n1, ![q] = n2]

Turned2Heights(ht, p, q, r, n) == [ht EXCEPT ![p] = n, ![q] = n, ![r] = n + 1]

LEMMA TurnBalances ==
  ASSUME NEW g, NEW up, NEW sub, Structure(g, up, sub),
         NEW p \in Key, NEW dir \in 0..1, NEW a \in Key \cup {Root}, NEW b \in 0..1,
         Kid(g, a, b) = p, NEW q, q = Kid(g, p, 1 - dir), q # Null,
         NEW h, Turned(g, h, a, b, p, dir),
         NEW ht, Balanced(g, ht, {p}),
         \A x \in Key : x # p => (x # q => Bal(h, x) = Bal(g, x)),
         NEW l, l = ht[Kid(g, p, dir)], ht[q] = l + 2,
         NEW n1 \in Nat, NEW n2 \in Nat,
         \/ /\ Bal(g, q) = -Sign(dir) /\ Bal(h, p) = 0 /\ Bal(h, q) = 0
            /\ n1 = l + 1 /\ n2 = l + 2
         \/ /\ Bal(g, q) = 0 /\ Bal(h, p) = -Sign(dir) /\ Bal(h, q) = Sign(dir)
            /\ n1 = l + 2 /\ n2 = l + 3
  PROVE  Balanced(h, TurnedHeights(ht, p, n1, q, n2), {a})
<1> DEFINE m == Kid(g, q, dir)
           s == Kid(g, p, dir)
           t == Kid(g, q, 1 - dir)
           ht2 == TurnedHeights(ht, p, n1, q, n2)
<1>1. /\ q \in Key /\ p # q /\ a # p /\ a # q /\ m \in Child /\ m # p /\ m # q
      /\ up[p] = <<a, b>> /\ up[q] = <<p, 1 - dir>> /\ (m # Null => up[m] = <<q, dir>>)
  BY TurnHasThree
<1>2. /\ s \in Child /\ t \in Child /\ 1 - dir \in 0..1 /\ 1 - dir # dir
      /\ 1 - (1 - dir) = dir /\ Null \notin Key
  BY <1>1, KidsAre, KeysAre
<1>3. /\ s # Null => up[s] = <<p, dir>>
      /\ t # Null => up[t] = <<q, 1 - dir>>
  BY <1>1, <1>2 DEF Structure
<1>4. s # p /\ s # q /\ t # p /\ t # q
  BY <1>1, <1>2, <1>3
<1>5. ht \in [Child -> Nat] /\ ht[Null] = 0
  BY DEF Balanced
<1>6. /\ ht2 \in [Child -> Nat] /\ ht2[p] = n1 /\ ht2[q] = n2
      /\ \A y \in Child : y # p => (y # q => ht2[y] = ht[y])
  BY <1>1, <1>5 DEF Child, TurnedHeights
<1> HIDE DEF m, s, t, ht2
<1>7. /\ Kid(h, p, 1 - dir) = m /\ Kid(h, p, dir) = s
      /\ Kid(h, q, dir) = p /\ Kid(h, q, 1 - dir) = t
  BY <1>1, <1>2 DEF Turned, m, s, t
<1>8. ht2[Null] = 0 /\ ht2[s] = ht[s] /\ ht2[m] = ht[m] /\ ht2[t] = ht[t]
  BY <1>1, <1>2, <1>4, <1>5, <1>6 DEF Child
<1>9. /\ Above(ht[q], ht[m], ht[t]) /\ Leans(Bal(g, q), dir, ht[m], ht[t])
      /\ ht[q] \in Nat /\ ht[m] \in Nat /\ ht[t] \in Nat /\ ht[s] \in Nat /\ l = ht[s]
  <2>1. BalancedAt(g, ht, q)
    BY <1>1 DEF Balanced
  <2> QED
    BY <1>1, <1>2, <1>5, <2>1, BalancedAtIs DEF m, s, t, Child
<1>10. BalancedAt(h, ht2, p) /\ BalancedAt(h, ht2, q)
  <2>1. /\ Above(n1, ht[s], ht[m]) /\ Leans(Bal(h, p), dir, ht[s], ht[m]) /\ Bal(h, p) \in -1..1
        /\ Above(n2, n1, ht[t]) /\ Leans(Bal(h, q), dir, n1, ht[t]) /\ Bal(h, q) \in -1..1
    <3>1. CASE dir = 0
      BY <1>9, <3>1 DEF Above, Leans, Sign
    <3>2. CASE dir = 1
      BY <1>9, <3>2 DEF Above, Leans, Sign
    <3> QED
      BY <3>1, <3>2
  <2> QED
    BY <1>6, <1>7, <1>8, <2>1, BalancedAtIs
<1>11. ASSUME NEW x \in Key \ {a}, x # p, x # q
       PROVE  BalancedAt(h, ht2, x)
  <2>1. ASSUME NEW e \in 0..1
        PROVE  Kid(h, x, e) = Kid(g, x, e) /\ ht2[Kid(h, x, e)] = ht[Kid(g, x, e)]
    <3>1. Kid(h, x, e) = Kid(g, x, e) /\ Kid(g, x, e) \in Child
      BY <1>11, KidsAre DEF Turned
    <3>2. Kid(g, x, e) # Null => up[Kid(g, x, e)] = <<x, e>>
      BY DEF Structure
    <3>3. Kid(g, x, e) # p /\ Kid(g, x, e) # q
      BY <1>1, <1>2, <1>11, <3>2
    <3> QED
      BY <1>6, <3>1, <3>3
  <2>2. BalancedAt(g, ht, x) /\ Bal(h, x) = Bal(g, x) /\ ht2[x] = ht[x]
    BY <1>6, <1>11 DEF Balanced, Child
  <2> QED
    BY <2>1, <2>2, StaysBalanced
<1>12. Balanced(h, ht2, {a})
  BY <1>6, <1>8, <1>10, <1>11 DEF Balanced
<1> QED
  BY <1>12 DEF ht2

-----------------------------------------------------------------------------
(***************************************************************************)
(* A double rotation is two: of q the other way, and of p.                 *)
(***************************************************************************)
LEMMA DoubleTurnKids ==
  ASSUME NEW g, NEW up, NEW sub, Structure(g, up, sub),
         NEW p \in Key, NEW dir \in 0..1, NEW a \in Key \cup {Root}, NEW b \in 0..1,
         Kid(g, a, b) = p, NEW q, q = Kid(g, p, 1 - dir), q # Null,
         NEW r, r = Kid(g, q, dir), r # Null,
         NEW k, Turned(g, k, p, 1 - dir, q, 1 - dir),
         NEW h, Turned(k, h, a, b, p, dir)
  PROVE  /\ q \in Key /\ r \in Key /\ p # q /\ p # r /\ q # r /\ a # p /\ a # q /\ a # r
         /\ Kid(k, a, b) = p /\ Kid(k, p, 1 - dir) = r
         /\ Kid(h, p, dir) = Kid(g, p, dir) /\ Kid(h, p, 1 - dir) = Kid(g, r, dir)
         /\ Kid(h, q, dir) = Kid(g, r, 1 - dir) /\ Kid(h, q, 1 - dir) = Kid(g, q, 1 - dir)
         /\ Kid(h, r, dir) = p /\ Kid(h, r, 1 - dir) = q
         /\ \A x \in Key \cup {Root}, e \in 0..1 :
              /\ x # p => (x # q => (x # r => (x # a \/ e # b => Kid(h, x, e) = Kid(g, x, e))))
<1>1. /\ q \in Key /\ r \in Child /\ p # q /\ a # p /\ a # q /\ r # p /\ r # q
      /\ up[r] = <<q, dir>> /\ up[p] = <<a, b>> /\ up[q] = <<p, 1 - dir>>
  BY TurnHasThree
<1>2. /\ 1 - dir \in 0..1 /\ 1 - dir # dir /\ 1 - (1 - dir) = dir /\ r \in Key
  BY <1>1 DEF Child
<1>3. \A x \in Key \cup {Root}, e \in 0..1 :
        Kid(k, x, e) = IF x = q /\ e = dir THEN Kid(g, r, 1 - dir)
                       ELSE IF x = r /\ e = 1 - dir THEN q
                       ELSE IF x = p /\ e = 1 - dir THEN r
                       ELSE Kid(g, x, e)
  BY <1>2 DEF Turned
<1>4. /\ Kid(k, q, dir) = Kid(g, r, 1 - dir) /\ Kid(k, q, 1 - dir) = Kid(g, q, 1 - dir)
      /\ Kid(k, r, dir) = Kid(g, r, dir) /\ Kid(k, r, 1 - dir) = q
      /\ Kid(k, p, dir) = Kid(g, p, dir) /\ Kid(k, p, 1 - dir) = r
      /\ \A x \in Key \cup {Root}, e \in 0..1 :
           x # p => (x # q => (x # r => Kid(k, x, e) = Kid(g, x, e)))
  BY <1>1, <1>2, <1>3
<1>5. a # r
  <2>1. a = r => r \in Key
    BY <1>2
  <2>2. r \in sub[q] /\ q \in sub[p] /\ p \in sub[r] => FALSE
    <3>1. sub[q] \subseteq sub[p] /\ q \notin sub[r] /\ sub[r] \subseteq sub[q]
      BY <1>1, <1>2, KidsAre
    <3>2. p \notin sub[q]
      BY <1>2, KidsAre
    <3> QED
      BY <3>1, <3>2
  <2>3. r \in sub[r] /\ sub[r] \subseteq sub[q] /\ q \in sub[q] /\ sub[q] \subseteq sub[p]
    BY <1>1, <1>2, KidsAre
  <2>4. a = r => p \in sub[r]
    <3>1. p \in sub[p] /\ (a \in Key => sub[p] \subseteq sub[a])
      BY KidsAre
    <3> QED
      BY <1>2, <3>1
  <2> QED
    BY <2>2, <2>3, <2>4
<1>6. Kid(k, a, b) = p
  BY <1>1, <1>4, <1>5
<1>7. \A x \in Key \cup {Root}, e \in 0..1 :
        Kid(h, x, e) = IF x = p /\ e = 1 - dir THEN Kid(g, r, dir)
                       ELSE IF x = r /\ e = dir THEN p
                       ELSE IF x = a /\ e = b THEN r
                       ELSE Kid(k, x, e)
  BY <1>4 DEF Turned
<1>8. /\ Kid(h, p, dir) = Kid(g, p, dir) /\ Kid(h, p, 1 - dir) = Kid(g, r, dir)
      /\ Kid(h, q, dir) = Kid(g, r, 1 - dir) /\ Kid(h, q, 1 - dir) = Kid(g, q, 1 - dir)
      /\ Kid(h, r, dir) = p /\ Kid(h, r, 1 - dir) = q
  BY <1>1, <1>2, <1>4, <1>5, <1>7
<1>9. \A x \in Key \cup {Root}, e \in 0..1 :
        x # p => (x # q => (x # r => (x # a \/ e # b => Kid(h, x, e) = Kid(g, x, e))))
  BY <1>4, <1>7
<1> QED
  BY <1>1, <1>2, <1>4, <1>5, <1>6, <1>8, <1>9

LEMMA DoubleTurnBalances ==
  ASSUME NEW g, NEW up, NEW sub, Structure(g, up, sub),
         NEW p \in Key, NEW dir \in 0..1, NEW a \in Key \cup {Root}, NEW b \in 0..1,
         Kid(g, a, b) = p, NEW q, q = Kid(g, p, 1 - dir), q # Null,
         NEW r, r = Kid(g, q, dir), r # Null,
         NEW k, Turned(g, k, p, 1 - dir, q, 1 - dir),
         NEW h, Turned(k, h, a, b, p, dir),
         NEW ht, Balanced(g, ht, {p}),
         \A x \in Key : x # p => (x # q => (x # r => Bal(h, x) = Bal(g, x))),
         NEW l, l = ht[Kid(g, p, dir)], ht[q] = l + 2, Bal(g, q) = Sign(dir),
         Bal(h, r) = 0,
         \/ Bal(g, r) = 0 /\ Bal(h, q) = 0 /\ Bal(h, p) = 0
         \/ Bal(g, r) = -Sign(dir) /\ Bal(h, q) = 0 /\ Bal(h, p) = Sign(dir)
         \/ Bal(g, r) = Sign(dir) /\ Bal(h, q) = -Sign(dir) /\ Bal(h, p) = 0
  PROVE  Balanced(h, Turned2Heights(ht, p, q, r, l + 1), {a})
<1> DEFINE s == Kid(g, p, dir)
           t == Kid(g, q, 1 - dir)
           u == Kid(g, r, dir)
           v == Kid(g, r, 1 - dir)
           ht2 == Turned2Heights(ht, p, q, r, l + 1)
<1>1. /\ q \in Key /\ r \in Key /\ p # q /\ p # r /\ q # r /\ a # p /\ a # q /\ a # r
      /\ Kid(h, p, dir) = s /\ Kid(h, p, 1 - dir) = u
      /\ Kid(h, q, dir) = v /\ Kid(h, q, 1 - dir) = t
      /\ Kid(h, r, dir) = p /\ Kid(h, r, 1 - dir) = q
      /\ \A x \in Key \cup {Root}, e \in 0..1 :
           x # p => (x # q => (x # r => (x # a \/ e # b => Kid(h, x, e) = Kid(g, x, e))))
  BY DoubleTurnKids
<1>2. /\ s \in Child /\ t \in Child /\ u \in Child /\ v \in Child
      /\ 1 - dir \in 0..1 /\ 1 - dir # dir /\ Null \notin Key
  BY <1>1, KidsAre, KeysAre
<1>3. /\ up[p] = <<a, b>> /\ up[q] = <<p, 1 - dir>> /\ up[r] = <<q, dir>>
      /\ s # Null => up[s] = <<p, dir>>
      /\ t # Null => up[t] = <<q, 1 - dir>>
      /\ u # Null => up[u] = <<r, dir>>
      /\ v # Null => up[v] = <<r, 1 - dir>>
  BY <1>1, <1>2 DEF Structure
<1>4. /\ s # p /\ s # q /\ s # r /\ t # p /\ t # q /\ t # r
      /\ u # p /\ u # q /\ u # r /\ v # p /\ v # q /\ v # r
  BY <1>1, <1>2, <1>3
<1>5. ht \in [Child -> Nat] /\ ht[Null] = 0 /\ l \in Nat
  BY <1>2 DEF Balanced
<1>6. /\ ht2 \in [Child -> Nat] /\ ht2[p] = l + 1 /\ ht2[q] = l + 1 /\ ht2[r] = l + 2
      /\ \A y \in Child : y # p => (y # q => (y # r => ht2[y] = ht[y]))
  BY <1>1, <1>5 DEF Child, Turned2Heights
<1> HIDE DEF s, t, u, v, ht2
<1>7. ht2[Null] = 0 /\ ht2[s] = ht[s] /\ ht2[t] = ht[t] /\ ht2[u] = ht[u] /\ ht2[v] = ht[v]
  BY <1>1, <1>2, <1>4, <1>5, <1>6 DEF Child
<1>8. /\ Above(ht[q], ht[r], ht[t]) /\ Leans(Bal(g, q), dir, ht[r], ht[t])
      /\ Above(ht[r], ht[u], ht[v]) /\ Leans(Bal(g, r), dir, ht[u], ht[v])
      /\ ht[q] \in Nat /\ ht[r] \in Nat /\ ht[t] \in Nat /\ ht[s] \in Nat
      /\ ht[u] \in Nat /\ ht[v] \in Nat /\ l = ht[s]
  <2>1. BalancedAt(g, ht, q) /\ BalancedAt(g, ht, r)
    BY <1>1 DEF Balanced
  <2> QED
    BY <1>1, <1>2, <1>5, <2>1, BalancedAtIs DEF s, t, u, v, Child
<1>9. BalancedAt(h, ht2, p) /\ BalancedAt(h, ht2, q) /\ BalancedAt(h, ht2, r)
  <2>1. /\ Above(l + 1, ht[s], ht[u]) /\ Leans(Bal(h, p), dir, ht[s], ht[u])
        /\ Above(l + 1, ht[v], ht[t]) /\ Leans(Bal(h, q), dir, ht[v], ht[t])
        /\ Above(l + 2, l + 1, l + 1) /\ Leans(Bal(h, r), dir, l + 1, l + 1)
        /\ Bal(h, p) \in -1..1 /\ Bal(h, q) \in -1..1 /\ Bal(h, r) \in -1..1
    <3>1. ht[r] = l + 1 /\ ht[t] = l
      BY <1>8 DEF Above, Leans, Sign
    <3>2. /\ Above(l + 1, ht[u], ht[v])
          /\ \/ Bal(g, r) = 0 /\ ht[u] = l /\ ht[v] = l
             \/ Bal(g, r) = -Sign(dir) /\ ht[u] = l - 1 /\ ht[v] = l
             \/ Bal(g, r) = Sign(dir) /\ ht[u] = l /\ ht[v] = l - 1
      BY <1>8, <3>1 DEF Above, Leans, Sign
    <3>3. (dir = 0 /\ Sign(dir) = -1) \/ (dir = 1 /\ Sign(dir) = 1)
      BY DEF Sign
    <3>4. Bal(h, p) \in -1..1 /\ Bal(h, q) \in -1..1 /\ Bal(h, r) \in -1..1
      BY <3>3
    <3>5. /\ Above(l + 1, ht[s], ht[u]) /\ Above(l + 1, ht[v], ht[t])
          /\ Above(l + 2, l + 1, l + 1) /\ Leans(Bal(h, r), dir, l + 1, l + 1)
      BY <1>5, <1>8, <3>1, <3>2 DEF Above, Leans
    <3>6. Leans(Bal(h, p), dir, ht[s], ht[u]) /\ Leans(Bal(h, q), dir, ht[v], ht[t])
      BY <1>5, <1>8, <3>1, <3>2, <3>3 DEF Leans
    <3> QED
      BY <3>4, <3>5, <3>6
  <2> QED
    BY <1>1, <1>6, <1>7, <2>1, BalancedAtIs
<1>10. ASSUME NEW x \in Key \ {a}, x # p, x # q, x # r
       PROVE  BalancedAt(h, ht2, x)
  <2>1. ASSUME NEW e \in 0..1
        PROVE  Kid(h, x, e) = Kid(g, x, e) /\ ht2[Kid(h, x, e)] = ht[Kid(g, x, e)]
    <3>1. Kid(h, x, e) = Kid(g, x, e) /\ Kid(g, x, e) \in Child
      BY <1>1, <1>10, KidsAre
    <3>2. Kid(g, x, e) # Null => up[Kid(g, x, e)] = <<x, e>>
      BY DEF Structure
    <3>3. Kid(g, x, e) # p /\ Kid(g, x, e) # q /\ Kid(g, x, e) # r
      BY <1>1, <1>2, <1>3, <1>10, <3>2
    <3> QED
      BY <1>6, <3>1, <3>3
  <2>2. BalancedAt(g, ht, x) /\ Bal(h, x) = Bal(g, x) /\ ht2[x] = ht[x]
    BY <1>6, <1>10 DEF Balanced, Child
  <2> QED
    BY <2>1, <2>2, StaysBalanced
<1>11. Balanced(h, ht2, {a})
  BY <1>6, <1>7, <1>9, <1>10 DEF Balanced
<1> QED
  BY <1>11 DEF ht2

-----------------------------------------------------------------------------
(***************************************************************************)
(* The walk down to a key.                                                 *)
(***************************************************************************)
Steps == [x : Key \cup {Root}, d : 0..1]

\* a way down from the root, which passes no node twice
IsPath(g, path) ==
  /\ path \in Seq(Steps) /\ Len(path) >= 1
  /\ path[1] = [x |-> Root, d |-> 0]
  /\ \A n \in 2..Len(path) :
       path[n].x \in Key /\ path[n].x = Kid(g, path[n - 1].x, path[n - 1].d)
  /\ \A m, n \in 1..Len(path) : path[m].x = path[n].x => m = n

End(g, path) == Kid(g, path[Len(path)].x, path[Len(path)].d)

\* The path so far leads to w.p; below the nodes it passed is all that is below
\* w.p, and the nodes it leaves aside are on k's two sides.
Walked(g, sub, k, w) ==
  LET N == sub[Kid(g, Root, 0)]
      Aside == N \ sub[w.p]
  IN  /\ IsPath(g, w.path) /\ w.p = End(g, w.path)
      /\ \A n \in 2..Len(w.path) :
           LET x == w.path[n].x
           IN  x # k /\ w.path[n].d = Dir(k, x) /\ x \notin sub[w.p] /\ sub[w.p] \subseteq sub[x]
      /\ Cardinality(sub[w.p]) + Len(w.path) <= Cardinality(Key) + 1
      /\ w.cnt = Cardinality({y \in Aside : y < k})
      /\ \A y \in Aside :
           \/ y < k /\ w.lower # Null /\ y <= w.lower /\ \A z \in sub[w.p] : y < z
           \/ k < y /\ w.upper # Null /\ w.upper <= y /\ \A z \in sub[w.p] : z < y
      /\ w.lower # Null => w.lower \in N /\ w.lower < k
      /\ w.upper # Null => w.upper \in N /\ k < w.upper

Walks(g, sub, k) ==
  {w \in [p : Child, path : Seq(Steps), cnt : Nat, lower : Child, upper : Child] :
     Walked(g, sub, k, w)}

LEMMA WalkBegins ==
  ASSUME NEW g, NEW up, NEW sub, Structure(g, up, sub), NEW k \in Key
  PROVE  [p |-> g[Root].p[0], path |-> <<[x |-> Root, d |-> 0]>>,
          cnt |-> 0, lower |-> Null, upper |-> Null] \in Walks(g, sub, k)
<1> DEFINE path == <<[x |-> Root, d |-> 0]>>
           w == [p |-> g[Root].p[0], path |-> path, cnt |-> 0, lower |-> Null, upper |-> Null]
           N == sub[Kid(g, Root, 0)]
<1>1. path \in Seq(Steps) /\ Len(path) = 1 /\ path[1] = [x |-> Root, d |-> 0]
  BY DEF Steps
<1> HIDE DEF path
<1>2. path[1].x = Root /\ path[1].d = 0
  BY <1>1
<1>3. IsPath(g, path) /\ End(g, path) = Kid(g, Root, 0)
  BY <1>1, <1>2 DEF IsPath, End
<1>4. w.p = Kid(g, Root, 0) /\ w.p \in Child
  BY KidsAre DEF Kid
<1>5. w \in [p : Child, path : Seq(Steps), cnt : Nat, lower : Child, upper : Child]
  BY <1>1, <1>4 DEF Child
<1>6. N \ sub[w.p] = {} /\ Cardinality(sub[w.p]) \in Nat /\ Cardinality(sub[w.p]) <= Cardinality(Key)
  BY <1>4, KidsAre, KeysAre
<1>7. {y \in N \ sub[w.p] : y < k} = {}
  BY <1>6
<1>8. Cardinality({y \in N \ sub[w.p] : y < k}) = 0
  BY <1>7, FS_EmptySet
<1>9. Cardinality(sub[w.p]) + Len(path) <= Cardinality(Key) + 1
  BY <1>1, <1>6, KeysAre
<1>10. Walked(g, sub, k, w)
  <2>1. w.path = path /\ w.cnt = 0 /\ w.lower = Null /\ w.upper = Null
    OBVIOUS
  <2> HIDE DEF w
  <2>2. \A n \in 2..Len(w.path) : FALSE
    <3>1. Len(w.path) = 1
      BY <1>1, <2>1
    <3> QED
      BY <3>1
  <2>3. w.cnt = Cardinality({y \in N \ sub[w.p] : y < k})
    BY <1>8, <2>1
  <2> HIDE DEF N
  <2> QED
    BY <1>3, <1>4, <1>6, <1>9, <2>1, <2>2, <2>3 DEF Walked, N
<1> QED
  BY <1>5, <1>10 DEF Walks, path

\* What the next turn adds to the path.
LEMMA PathGrows ==
  ASSUME NEW g, NEW path, IsPath(g, path),
         NEW s \in Steps, s.x \in Key, s.x = End(g, path),
         \A n \in 2..Len(path) : path[n].x # s.x
  PROVE  /\ IsPath(g, Append(path, s)) /\ End(g, Append(path, s)) = Kid(g, s.x, s.d)
         /\ Len(Append(path, s)) = Len(path) + 1
         /\ \A n \in 1..Len(path) : Append(path, s)[n] = path[n]
         /\ Append(path, s)[Len(path) + 1] = s
<1> DEFINE p == s.x
           new == Append(path, s)
<1>1. path \in Seq(Steps) /\ Len(path) \in Nat /\ Len(path) >= 1
  BY DEF IsPath
<1>3. /\ new \in Seq(Steps) /\ Len(new) = Len(path) + 1
      /\ \A n \in 1..Len(path) : new[n] = path[n]
      /\ new[Len(path) + 1] = s
  BY <1>1
<1> HIDE DEF p, new
<1>4. path[1].x = Root /\ Root # p
  BY KeysAre DEF IsPath, p
<1>5. ASSUME NEW n \in 2..Len(new)
      PROVE  new[n].x \in Key /\ new[n].x = Kid(g, new[n - 1].x, new[n - 1].d)
  <2>1. CASE n = Len(path) + 1
    BY <1>1, <1>3, <2>1 DEF End, p
  <2>2. CASE n # Len(path) + 1
    <3>1. n \in 2..Len(path) /\ n - 1 \in 1..Len(path) /\ n \in 1..Len(path)
      BY <1>1, <1>3, <2>2
    <3> QED
      BY <1>3, <3>1 DEF IsPath
  <2> QED
    BY <2>1, <2>2
<1>6. ASSUME NEW m \in 1..Len(new), NEW n \in 1..Len(new), new[m].x = new[n].x
      PROVE  m = n
  <2>1. \A i \in 1..Len(path) : path[i].x # p
    <3> SUFFICES ASSUME NEW i \in 1..Len(path) PROVE path[i].x # p
      OBVIOUS
    <3>1. i = 1 \/ i \in 2..Len(path)
      BY <1>1
    <3> QED
      BY <1>4, <3>1 DEF p
  <2>2. \A i \in 1..Len(new) : i \in 1..Len(path) \/ i = Len(path) + 1
    BY <1>1, <1>3
  <2>3. \A i \in 1..Len(path) : new[i].x = path[i].x
    BY <1>3
  <2>4. new[Len(path) + 1].x = p
    BY <1>3 DEF p
  <2>5. \A i, j \in 1..Len(path) : path[i].x = path[j].x => i = j
    BY DEF IsPath
  <2> QED
    BY <1>6, <2>1, <2>2, <2>3, <2>4, <2>5
<1>7. new[1] = [x |-> Root, d |-> 0]
  <2>1. 1 \in 1..Len(path)
    BY <1>1
  <2> QED
    BY <1>3, <2>1 DEF IsPath
<1>8. IsPath(g, new)
  BY <1>1, <1>3, <1>5, <1>6, <1>7 DEF IsPath
<1>9. End(g, new) = Kid(g, s.x, s.d)
  BY <1>3 DEF End, p
<1> QED
  BY <1>3, <1>8, <1>9 DEF new

\* A turn of the search: the walk goes on below, or is over.
LEMMA PassWalks ==
  ASSUME NEW g, NEW up, NEW sub, Structure(g, up, sub), NEW k \in Key,
         NEW w \in Walks(g, sub, k)
  PROVE  /\ Pass(g, k, w) \in Walks(g, sub, k)
         /\ w.p \in {Null, k} => Pass(g, k, w) = w
         /\ w.p \notin {Null, k} => Len(Pass(g, k, w).path) = Len(w.path) + 1
<1> DEFINE N == sub[Kid(g, Root, 0)]
           p == w.p
           d == Dir(k, p)
           path == w.path
           s0 == [x |-> p, d |-> d]
           new == Append(path, s0)
           o == Pass(g, k, w)
<1>1. CASE p \in {Null, k}
  BY <1>1 DEF Pass
<1>2. CASE p \notin {Null, k}
  <2>1. /\ w \in [p : Child, path : Seq(Steps), cnt : Nat, lower : Child, upper : Child]
        /\ Walked(g, sub, k, w)
    BY DEF Walks
  <2>2. p \in Key /\ p # k /\ d \in 0..1 /\ k \in Int /\ p \in Int
    BY <1>2, <2>1, KeysAre DEF Child, Dir
  <2>3. /\ o.p = Kid(g, p, d) /\ o.path = new
        /\ o.cnt = IF d = 1 THEN w.cnt + SizeOf(g, Kid(g, p, 0)) + 1 ELSE w.cnt
        /\ o.lower = (IF d = 1 THEN p ELSE w.lower)
        /\ o.upper = (IF d = 0 THEN p ELSE w.upper)
        /\ o \in [p : {o.p}, path : {o.path}, cnt : {o.cnt}, lower : {o.lower}, upper : {o.upper}]
    BY <1>2 DEF Pass, Kid
  <2>4. IsPath(g, path) /\ p = End(g, path) /\ \A n \in 2..Len(path) : path[n].x # p
    <3>1. p \in sub[p]
      BY <2>2, KidsAre
    <3> QED
      BY <2>1, <3>1 DEF Walked
  <2>5. path \in Seq(Steps) /\ Len(path) \in Nat /\ Len(path) >= 1
    BY <2>4 DEF IsPath
  <2>s. s0 \in Steps /\ s0.x = p /\ s0.d = d
    BY <2>2 DEF Steps
  <2> HIDE DEF o, d, p, path, s0
  <2>6. /\ IsPath(g, new) /\ End(g, new) = Kid(g, p, d) /\ Len(new) = Len(path) + 1
        /\ \A n \in 1..Len(path) : new[n] = path[n]
        /\ new[Len(path) + 1].x = p /\ new[Len(path) + 1].d = d
    <3>1. s0.x \in Key /\ s0.x = End(g, path) /\ \A n \in 2..Len(path) : path[n].x # s0.x
      BY <2>2, <2>4, <2>s
    <3> QED
      BY <2>4, <2>s, <3>1, PathGrows
  <2>7. new \in Seq(Steps)
    BY <2>6 DEF IsPath
  <2> HIDE DEF new
  <2> DEFINE c == Kid(g, p, d)
             s == Kid(g, p, 1 - d)
             A == N \ sub[p]
             A2 == N \ sub[c]
  <2>8. /\ c \in Child /\ s \in Child /\ 1 - d \in 0..1 /\ 1 - d # d
        /\ sub[p] = {p} \cup sub[c] \cup sub[s] /\ p \notin sub[c] /\ p \notin sub[s]
        /\ sub[c] \in SUBSET Key /\ sub[s] \in SUBSET Key /\ sub[p] \subseteq N /\ N \in SUBSET Key
        /\ \A y \in sub[c] : y \in Int /\ (d = 1 => p < y) /\ (d = 0 => y < p)
        /\ \A y \in sub[s] : y \in Int /\ (d = 1 => y < p) /\ (d = 0 => p < y)
    <3>1. p \in N
      <4>1. path[Len(path)].x \in Key \cup {Root} /\ path[Len(path)].d \in 0..1
        <5>1. path[Len(path)] \in Steps
          BY <2>5
        <5> QED
          BY <5>1 DEF Steps
      <4>2. p = Kid(g, path[Len(path)].x, path[Len(path)].d) /\ p # Null
        BY <1>2, <2>4 DEF End, p
      <4> QED
        BY <4>1, <4>2, TreeIs
    <3>2. sub[p] \subseteq N /\ N \in SUBSET Key
      BY <3>1, TreeIs
    <3>3. 1 - d \in 0..1 /\ 1 - d # d
      BY <2>2
    <3>4. c \in Child /\ s \in Child /\ sub[c] \in SUBSET Key /\ sub[s] \in SUBSET Key
      BY <2>2, <3>3, KidsAre
    <3>5. /\ sub[p] = {p} \cup sub[c] \cup sub[s] /\ p \notin sub[c] /\ p \notin sub[s]
      BY <2>2, <3>3, KidsAre
    <3>6. /\ \A y \in sub[c] : y \in Int /\ (d = 1 => p < y) /\ (d = 0 => y < p)
          /\ \A y \in sub[s] : y \in Int /\ (d = 1 => y < p) /\ (d = 0 => p < y)
      <4>1. (\A y \in sub[c] : Beyond(p, y, d)) /\ (\A y \in sub[s] : Beyond(p, y, 1 - d))
        BY <2>2, <3>3 DEF Structure
      <4>2. \A y \in sub[c] \cup sub[s] : y \in Int
        BY <3>4, KeysAre
      <4> QED
        BY <2>2, <4>1, <4>2 DEF Beyond
    <3> QED
      BY <3>2, <3>3, <3>4, <3>5, <3>6
  <2>9. A2 = A \cup {p} \cup sub[s]
    <3>1. sub[c] \cap sub[s] = {}
      BY <2>2, <2>8
    <3> QED
      BY <2>8, <3>1
  <2>10. (d = 1 => p < k) /\ (d = 0 => k < p)
    BY <2>2 DEF Dir, d
  <2>11. \A y \in sub[s] \cup {p} : d = 1 => y < k /\ y <= p
    BY <2>2, <2>8, <2>10
  <2>12. \A y \in sub[s] \cup {p} : d = 0 => k < y /\ p <= y
    BY <2>2, <2>8, <2>10
  <2>13. \A n \in 2..Len(new) :
           LET x == new[n].x
           IN  x # k /\ new[n].d = Dir(k, x) /\ x \notin sub[c] /\ sub[c] \subseteq sub[x]
    <3> SUFFICES ASSUME NEW n \in 2..Len(new)
                 PROVE  /\ new[n].x # k /\ new[n].d = Dir(k, new[n].x)
                        /\ new[n].x \notin sub[c] /\ sub[c] \subseteq sub[new[n].x]
      OBVIOUS
    <3>1. CASE n = Len(path) + 1
      BY <2>2, <2>6, <2>8, <3>1 DEF d
    <3>2. CASE n # Len(path) + 1
      <4>1. n \in 2..Len(path) /\ n \in 1..Len(path)
        BY <2>5, <2>6, <3>2
      <4>2. new[n] = path[n]
        BY <2>6, <4>1
      <4> QED
        BY <2>1, <2>8, <4>1, <4>2 DEF Walked, p, path
    <3> QED
      BY <3>1, <3>2
  <2>14. Cardinality(sub[c]) + Len(new) <= Cardinality(Key) + 1
    <3>1. Cardinality(sub[p]) = 1 + Cardinality(sub[c]) + Cardinality(sub[s])
      <4>1. sub[c] \cap sub[s] = {}
        BY <2>2, <2>8
      <4> QED
        BY <2>2, <2>8, <4>1, CountOfThree
    <3>2. Cardinality(sub[c]) \in Nat /\ Cardinality(sub[s]) \in Nat /\ Cardinality(Key) \in Nat
      BY <2>8, KeysAre
    <3>3. Cardinality(sub[p]) + Len(path) <= Cardinality(Key) + 1
      BY <2>1 DEF Walked, p, path
    <3> QED
      BY <2>5, <2>6, <3>1, <3>2, <3>3
  <2>15. o.cnt = Cardinality({y \in A2 : y < k}) /\ o.cnt \in Nat
    <3>1. w.cnt = Cardinality({y \in A : y < k}) /\ w.cnt \in Nat
      BY <2>1 DEF Walked, p
    <3>2. CASE d = 1
      <4>1. {y \in A2 : y < k} = {p} \cup {y \in A : y < k} \cup sub[s]
        BY <2>9, <2>11, <3>2
      <4>2. p \notin {y \in A : y < k} /\ {y \in A : y < k} \cap sub[s] = {}
        BY <2>8
      <4>3. Cardinality({y \in A2 : y < k}) = 1 + w.cnt + Cardinality(sub[s])
        <5>1. {y \in A : y < k} \in SUBSET Key
          BY <2>8
        <5> QED
          BY <2>2, <2>8, <3>1, <4>1, <4>2, <5>1, CountOfThree
      <4>4. Kid(g, p, 0) = s
        BY <3>2
      <4>5. SizeOf(g, s) = Cardinality(sub[s]) /\ Cardinality(sub[s]) \in Nat
        BY <2>8, KidsAre, KeysAre
      <4> QED
        BY <2>3, <3>1, <3>2, <4>3, <4>4, <4>5
    <3>3. CASE d = 0
      <4>1. {y \in A2 : y < k} = {y \in A : y < k}
        <5>1. \A y \in sub[s] \cup {p} : ~ (y < k)
          BY <2>2, <2>8, <2>12, <3>3
        <5> QED
          BY <2>9, <5>1
      <4> QED
        BY <2>3, <3>1, <3>3, <4>1
    <3> QED
      BY <2>2, <3>2, <3>3
  <2>16. p \in N
    BY <2>8
  <2>17. (d = 1 => p < k) /\ (d = 0 => k < p)
    BY <2>11, <2>12
  <2>18. /\ o.lower \in Child /\ o.upper \in Child
         /\ o.lower # Null => o.lower \in N /\ o.lower < k
         /\ o.upper # Null => o.upper \in N /\ k < o.upper
    BY <2>1, <2>2, <2>3, <2>16, <2>17 DEF Walked, Child
  <2>19. \A y \in A2 :
           \/ y < k /\ o.lower # Null /\ y <= o.lower /\ \A z \in sub[c] : y < z
           \/ k < y /\ o.upper # Null /\ o.upper <= y /\ \A z \in sub[c] : z < y
    <3> SUFFICES ASSUME NEW y \in A2
                 PROVE  \/ y < k /\ o.lower # Null /\ y <= o.lower /\ \A z \in sub[c] : y < z
                        \/ k < y /\ o.upper # Null /\ o.upper <= y /\ \A z \in sub[c] : z < y
      OBVIOUS
    <3>1. CASE y \in {p} \cup sub[s]
      <4>1. /\ d = 1 => \A z \in sub[c] : y < z
            /\ d = 0 => \A z \in sub[c] : z < y
        BY <2>2, <2>8, <3>1
      <4> QED
        BY <1>2, <2>2, <2>3, <2>11, <2>12, <3>1, <4>1 DEF p
    <3>2. CASE y \in A
      <4>1. \/ y < k /\ w.lower # Null /\ y <= w.lower /\ \A z \in sub[p] : y < z
            \/ k < y /\ w.upper # Null /\ w.upper <= y /\ \A z \in sub[p] : z < y
        BY <2>1, <3>2 DEF Walked, p
      <4>2. p \in sub[p] /\ sub[c] \subseteq sub[p] /\ y \in Int
        BY <2>8, <3>2, KeysAre
      <4>3. CASE y < k
        <5>1. w.lower # Null /\ y <= w.lower /\ \A z \in sub[p] : y < z
          BY <2>2, <4>1, <4>2, <4>3
        <5>2. o.lower # Null /\ y <= o.lower
          BY <1>2, <2>2, <2>3, <4>2, <5>1 DEF p
        <5> QED
          BY <4>2, <4>3, <5>1, <5>2
      <4>4. CASE k < y
        <5>1. w.upper # Null /\ w.upper <= y /\ \A z \in sub[p] : z < y
          BY <2>2, <4>1, <4>2, <4>4
        <5>2. o.upper # Null /\ o.upper <= y
          BY <1>2, <2>2, <2>3, <4>2, <5>1 DEF p
        <5> QED
          BY <4>2, <4>4, <5>1, <5>2
      <4> QED
        BY <4>1, <4>3, <4>4
    <3> QED
      BY <2>9, <3>1, <3>2
  <2>20. Walked(g, sub, k, o)
    BY <2>3, <2>6, <2>13, <2>14, <2>15, <2>18, <2>19 DEF Walked
  <2>21. o \in [p : Child, path : Seq(Steps), cnt : Nat, lower : Child, upper : Child]
    BY <2>3, <2>7, <2>8, <2>15, <2>18
  <2>22. o \in Walks(g, sub, k)
    BY <2>20, <2>21 DEF Walks
  <2>23. Len(o.path) = Len(path) + 1
    BY <2>3, <2>6
  <2> QED
    BY <1>2, <2>22, <2>23 DEF o, p, path
<1> QED
  BY <1>1, <1>2

\* There are enough turns: the walk ends at k, or nowhere.
LEMMA SearchEnds ==
  ASSUME NEW g, NEW up, NEW sub, Structure(g, up, sub), NEW k \in Key
  PROVE  Search(g, k) \in Walks(g, sub, k) /\ Search(g, k).p \in {Null, k}
<1> DEFINE first == [p |-> g[Root].p[0], path |-> <<[x |-> Root, d |-> 0]>>,
                     cnt |-> 0, lower |-> Null, upper |-> Null]
           V == Walks(g, sub, k)
           step == [n \in Nat |-> [w \in V |-> Pass(g, k, w)]]
           body(t) == [n \in Nat |-> IF n = 0 THEN first ELSE Pass(g, k, t[n - 1])]
           turn == CHOOSE t : t = body(t)
           max == Cardinality(Key)
<1>1. Search(g, k) = turn[max]
  BY DEF Search
<1>2. first \in V
  BY WalkBegins
<1>3. first.p \in {Null, k} \/ Len(first.path) = 0 + 1
  OBVIOUS
<1> HIDE DEF first
<1>4. \A w \in V : Pass(g, k, w) \in V
  BY PassWalks
<1>5. Loop(V, first, step)
  <2>1. step \in [Nat -> [V -> V]]
    BY <1>4
  <2> HIDE DEF step, V
  <2> QED
    BY <1>2, <2>1 DEF Loop
<1> HIDE DEF V, step
<1>6. PICK f : History(V, first, step, f)
  BY ONLY <1>5, LoopHasHistory
<1>7. f \in [Nat -> V] /\ f[0] = first /\ \A n \in Nat : f[n + 1] = step[n][f[n]]
  BY ONLY <1>6 DEF History
<1>8. f = body(f)
  <2>1. ASSUME NEW n \in Nat PROVE f[n] = body(f)[n]
    <3>1. CASE n = 0
      BY <1>7, <3>1
    <3>2. CASE n # 0
      <4>1. n - 1 \in Nat /\ (n - 1) + 1 = n
        BY <3>2
      <4>2. f[n] = step[n - 1][f[n - 1]] /\ f[n - 1] \in V
        BY <1>7, <4>1
      <4>3. f[n] = Pass(g, k, f[n - 1])
        BY <4>1, <4>2 DEF step
      <4> QED
        BY <3>2, <4>3
    <3> QED
      BY <3>1, <3>2
  <2> QED
    BY <1>7, <2>1
<1>9. turn = body(turn)
  <2> HIDE DEF body
  <2> QED
    BY <1>8, Zenon
<1> HIDE DEF turn
<1>10. turn[0] = first
  BY <1>9
<1>11. ASSUME NEW n \in Nat PROVE turn[n + 1] = Pass(g, k, turn[n])
  <2>1. n + 1 \in Nat /\ n + 1 # 0 /\ (n + 1) - 1 = n
    OBVIOUS
  <2>2. turn[n + 1] = body(turn)[n + 1]
    BY <1>9
  <2> QED
    BY <2>1, <2>2
<1> DEFINE S == {n \in Nat : turn[n] \in V /\ (turn[n].p \in {Null, k} \/ Len(turn[n].path) = n + 1)}
<1>12. 0 \in S
  BY <1>2, <1>3, <1>10
<1>13. ASSUME NEW n \in S PROVE n + 1 \in S
  <2>1. n \in Nat /\ turn[n] \in V /\ (turn[n].p \in {Null, k} \/ Len(turn[n].path) = n + 1)
    OBVIOUS
  <2>2. turn[n + 1] = Pass(g, k, turn[n]) /\ turn[n + 1] \in V
    BY <1>4, <1>11, <2>1
  <2>3. /\ turn[n].p \in {Null, k} => turn[n + 1] = turn[n]
        /\ turn[n].p \notin {Null, k} => Len(turn[n + 1].path) = Len(turn[n].path) + 1
    BY <2>1, <2>2, PassWalks DEF V
  <2>4. turn[n + 1].p \in {Null, k} \/ Len(turn[n + 1].path) = (n + 1) + 1
    BY <2>1, <2>3
  <2> QED
    BY <2>1, <2>2, <2>4
<1>14. S \in SUBSET Nat
  OBVIOUS
<1> HIDE DEF S
<1>15. S = Nat
  BY <1>12, <1>13, <1>14, InductionOnNat
<1>16. max \in Nat
  BY KeysAre
<1> HIDE DEF max
<1>17. max \in S
  BY <1>15, <1>16
<1>18. turn[max] \in V /\ (turn[max].p \in {Null, k} \/ Len(turn[max].path) = max + 1)
  BY <1>17 DEF S
<1>19. turn[max].p \in {Null, k}
  <2> SUFFICES ASSUME Len(turn[max].path) = max + 1, turn[max].p # Null PROVE FALSE
    BY <1>18
  <2>1. /\ turn[max].p \in Key
        /\ Cardinality(sub[turn[max].p]) + Len(turn[max].path) <= max + 1
    BY <1>18 DEF V, Walks, Walked, Child, max
  <2>2. Cardinality(sub[turn[max].p]) \in Nat
    BY <2>1, KidsAre, KeysAre
  <2>3. Cardinality(sub[turn[max].p]) = 1 + Cardinality(sub[Kid(g, turn[max].p, 0)])
                                        + Cardinality(sub[Kid(g, turn[max].p, 1)])
    BY <2>1, SizeIs
  <2>4. /\ Cardinality(sub[Kid(g, turn[max].p, 0)]) \in Nat
        /\ Cardinality(sub[Kid(g, turn[max].p, 1)]) \in Nat
    BY <2>1, KidsAre, KeysAre
  <2> QED
    BY <1>16, <2>1, <2>2, <2>3, <2>4
<1> QED
  BY <1>1, <1>18, <1>19 DEF V

\* The path of key k, which ends at p: the node of k or Null.
LeadsTo(g, sub, k, path, p) ==
  /\ IsPath(g, path) /\ End(g, path) = p
  /\ \A n \in 2..Len(path) :
       LET x == path[n].x
       IN  /\ x # k /\ path[n].d = Dir(k, x)
           /\ x \notin sub[p] /\ sub[p] \subseteq sub[x]

\* What a search finds out.
LEMMA SearchIs ==
  ASSUME NEW g, NEW up, NEW sub, Structure(g, up, sub), NEW k \in Key,
         NEW N, N = sub[Kid(g, Root, 0)]
  PROVE  /\ Find(g, k) = IF k \in N THEN k ELSE Null
         /\ LeadsTo(g, sub, k, PathTo(g, k), Find(g, k))
         /\ Rank(g, k) = Cardinality({y \in N : y <= k})
<1> DEFINE w == Search(g, k)
           Aside == N \ sub[w.p]
<1>1. w \in Walks(g, sub, k) /\ w.p \in {Null, k} /\ Find(g, k) = w.p /\ PathTo(g, k) = w.path
  BY SearchEnds DEF Find, PathTo
<1> HIDE DEF w
<1>2. Walked(g, sub, k, w) /\ w.p \in Child /\ w.path \in Seq(Steps) /\ w.cnt \in Nat
  BY <1>1 DEF Walks
<1>3. \A y \in Aside : y < k \/ k < y
  BY <1>2 DEF Walked
<1>4. k \notin Aside /\ k \in Int
  BY <1>3, KeysAre
<1>5. w.p = IF k \in N THEN k ELSE Null
  <2>1. CASE w.p = Null
    BY <1>4, <2>1 DEF Structure
  <2>2. CASE w.p = k
    <3>1. w.path[Len(w.path)] \in Steps
      BY <1>2 DEF Walked, IsPath
    <3>2. k = Kid(g, w.path[Len(w.path)].x, w.path[Len(w.path)].d)
      BY <1>2, <2>2 DEF Walked, End
    <3>3. k \in N
      BY <3>1, <3>2, TreeIs, KeysAre DEF Steps
    <3> QED
      BY <2>2, <3>3
  <2> QED
    BY <1>1, <2>1, <2>2
<1>6. IsPath(g, w.path) /\ End(g, w.path) = w.p
  BY <1>2 DEF Walked
<1>7. LeadsTo(g, sub, k, w.path, w.p)
  BY <1>2, <1>6 DEF Walked, LeadsTo
<1>8. Rank(g, k) = Cardinality({y \in N : y <= k})
  <2>1. w.cnt = Cardinality({y \in Aside : y < k})
    BY <1>2 DEF Walked
  <2>2. Rank(g, k) = IF w.p = Null THEN w.cnt ELSE w.cnt + SizeOf(g, Kid(g, k, 0)) + 1
    BY DEF Rank, w, Kid
  <2>3. CASE w.p = Null
    <3>1. {y \in N : y <= k} = {y \in Aside : y < k}
      <4>1. Aside = N /\ k \notin N
        BY <1>4, <2>3 DEF Structure
      <4>2. \A y \in N : y \in Int
        BY TreeIs, KeysAre
      <4> QED
        BY <1>4, <4>1, <4>2
    <3> QED
      BY <2>1, <2>2, <2>3, <3>1
  <2>4. CASE w.p = k
    <3>1. sub[k] = {k} \cup sub[Kid(g, k, 0)] \cup sub[Kid(g, k, 1)] /\ N \in SUBSET Key
      BY TreeIs DEF Structure
    <3>2. (\A y \in sub[Kid(g, k, 0)] : y < k) /\ (\A y \in sub[Kid(g, k, 1)] : k < y)
      BY DEF Structure, Beyond
    <3>3. k \in N /\ sub[k] \subseteq N
      BY <1>5, <2>4, TreeIs, KeysAre
    <3>4. {y \in N : y <= k} = {k} \cup {y \in Aside : y < k} \cup sub[Kid(g, k, 0)]
      <4>1. \A y \in N : y \in Int
        BY <3>1, KeysAre
      <4>2. N = Aside \cup {k} \cup sub[Kid(g, k, 0)] \cup sub[Kid(g, k, 1)]
        BY <2>4, <3>1, <3>3
      <4>3. ASSUME NEW y \in N
            PROVE  (y <= k) <=> (y = k \/ y \in sub[Kid(g, k, 0)] \/ (y \in Aside /\ y < k))
        <5>1. y \in Int /\ k \in Int
          BY <1>4, <4>1
        <5>2. CASE y \in Aside
          BY <1>3, <2>4, <3>1, <5>1, <5>2
        <5>3. CASE y \in sub[Kid(g, k, 0)]
          BY <3>2, <5>1, <5>3
        <5>4. CASE y \in sub[Kid(g, k, 1)]
          BY <3>2, <3>1, <2>4, <5>1, <5>4
        <5>5. CASE y = k
          BY <5>1, <5>5
        <5> QED
          BY <4>2, <5>2, <5>3, <5>4, <5>5
      <4> DEFINE C == {y \in Aside : y < k}
      <4>4. {y \in N : y <= k} \subseteq {k} \cup C \cup sub[Kid(g, k, 0)]
        BY <4>3
      <4>5. {k} \cup C \cup sub[Kid(g, k, 0)] \subseteq {y \in N : y <= k}
        BY <4>2, <4>3
      <4> QED
        BY <4>4, <4>5
    <3>5. /\ k \notin {y \in Aside : y < k} /\ k \notin sub[Kid(g, k, 0)]
          /\ {y \in Aside : y < k} \cap sub[Kid(g, k, 0)] = {}
          /\ {y \in Aside : y < k} \in SUBSET Key /\ sub[Kid(g, k, 0)] \in SUBSET Key
      BY <1>4, <2>4, <3>1, <3>2, KidsAre
    <3>6. Cardinality({y \in N : y <= k}) = 1 + w.cnt + Cardinality(sub[Kid(g, k, 0)])
      BY <2>1, <3>4, <3>5, CountOfThree
    <3>7. Kid(g, k, 0) \in Child
      BY KidsAre
    <3>8. SizeOf(g, Kid(g, k, 0)) = Cardinality(sub[Kid(g, k, 0)]) /\ Cardinality(sub[Kid(g, k, 0)]) \in Nat
      BY <3>5, <3>7, KidsAre, KeysAre
    <3>9. k # Null
      BY KeysAre
    <3> QED
      BY <1>2, <2>2, <2>4, <3>6, <3>8, <3>9
  <2> QED
    BY <1>1, <2>3, <2>4
<1> QED
  BY <1>1, <1>5, <1>7, <1>8

-----------------------------------------------------------------------------
(***************************************************************************)
(* The rotations of the code are turns.                                    *)
(***************************************************************************)

\* One field of one node is changed.
SetKid(g, a, b, y) == [g EXCEPT ![a].p[b] = y]

SetSize(g, a, n) == [g EXCEPT ![a].size = n]

SetBalance(g, a, n) == [g EXCEPT ![a].balance = n]

KidChanged(g, h, a, b, y) ==
  /\ h \in Heads
  /\ \A x \in Key \cup {Root}, e \in 0..1 :
       Kid(h, x, e) = IF x = a /\ e = b THEN y ELSE Kid(g, x, e)
  /\ \A x \in Key \cup {Root} : Bal(h, x) = Bal(g, x) /\ Siz(h, x) = Siz(g, x)

LEMMA KidChanges ==
  ASSUME NEW g \in Heads, NEW a \in Key \cup {Root}, NEW b \in 0..1, NEW y \in Child
  PROVE  KidChanged(g, SetKid(g, a, b, y), a, b, y)
<1> DEFINE h == SetKid(g, a, b, y)
<1>0. h = [g EXCEPT ![a].p[b] = y]
  BY DEF SetKid
<1> HIDE DEF h
<1>1. g \in [Key \cup {Root} -> [p : [0..1 -> Child], balance : Int, size : Int]]
  BY DEF Heads
<1>2. \A x \in Key \cup {Root} : x # a => h[x] = g[x]
  BY <1>0, <1>1
<1>3. h[a] = [g[a] EXCEPT !.p[b] = y] /\ g[a] \in [p : [0..1 -> Child], balance : Int, size : Int]
  BY <1>0, <1>1
<1>4. /\ h[a] \in [p : [0..1 -> Child], balance : Int, size : Int]
      /\ h[a].p = [g[a].p EXCEPT ![b] = y] /\ g[a].p \in [0..1 -> Child]
      /\ h[a].balance = g[a].balance /\ h[a].size = g[a].size
  BY <1>3
<1>5. h \in Heads
  <2>1. \A x \in Key \cup {Root} : h[x] \in [p : [0..1 -> Child], balance : Int, size : Int]
    BY <1>1, <1>2, <1>4
  <2>2. h = [x \in Key \cup {Root} |-> h[x]]
    BY <1>0, <1>1
  <2> QED
    BY <2>1, <2>2 DEF Heads
<1>6. \A e \in 0..1 : Kid(h, a, e) = IF e = b THEN y ELSE Kid(g, a, e)
  BY <1>4 DEF Kid
<1>7. \A x \in Key \cup {Root}, e \in 0..1 :
        Kid(h, x, e) = IF x = a /\ e = b THEN y ELSE Kid(g, x, e)
  BY <1>2, <1>6 DEF Kid
<1>8. \A x \in Key \cup {Root} : Bal(h, x) = Bal(g, x) /\ Siz(h, x) = Siz(g, x)
  BY <1>2, <1>4 DEF Bal, Siz
<1> QED
  BY <1>5, <1>7, <1>8 DEF h, KidChanged

SizeChanged(g, h, a, n) ==
  /\ h \in Heads
  /\ \A x \in Key \cup {Root}, e \in 0..1 : Kid(h, x, e) = Kid(g, x, e)
  /\ \A x \in Key \cup {Root} :
       Bal(h, x) = Bal(g, x) /\ Siz(h, x) = IF x = a THEN n ELSE Siz(g, x)

LEMMA SizeChanges ==
  ASSUME NEW g \in Heads, NEW a \in Key \cup {Root}, NEW n \in Int
  PROVE  SizeChanged(g, SetSize(g, a, n), a, n)
<1> DEFINE h == SetSize(g, a, n)
<1>0. h = [g EXCEPT ![a].size = n]
  BY DEF SetSize
<1> HIDE DEF h
<1>1. g \in [Key \cup {Root} -> [p : [0..1 -> Child], balance : Int, size : Int]]
  BY DEF Heads
<1>2. \A x \in Key \cup {Root} : x # a => h[x] = g[x]
  BY <1>0, <1>1
<1>3. h[a] = [g[a] EXCEPT !.size = n] /\ g[a] \in [p : [0..1 -> Child], balance : Int, size : Int]
  BY <1>0, <1>1
<1>4. /\ h[a] \in [p : [0..1 -> Child], balance : Int, size : Int]
      /\ h[a].p = g[a].p /\ h[a].balance = g[a].balance /\ h[a].size = n
  BY <1>3
<1>5. h \in Heads
  <2>1. \A x \in Key \cup {Root} : h[x] \in [p : [0..1 -> Child], balance : Int, size : Int]
    BY <1>1, <1>2, <1>4
  <2>2. h = [x \in Key \cup {Root} |-> h[x]]
    BY <1>0, <1>1
  <2> QED
    BY <2>1, <2>2 DEF Heads
<1>6. \A x \in Key \cup {Root}, e \in 0..1 : Kid(h, x, e) = Kid(g, x, e)
  BY <1>2, <1>4 DEF Kid
<1>7. \A x \in Key \cup {Root} :
        Bal(h, x) = Bal(g, x) /\ Siz(h, x) = IF x = a THEN n ELSE Siz(g, x)
  BY <1>2, <1>4 DEF Bal, Siz
<1> QED
  BY <1>5, <1>6, <1>7 DEF h, SizeChanged

BalanceChanged(g, h, a, n) ==
  /\ h \in Heads
  /\ \A x \in Key \cup {Root}, e \in 0..1 : Kid(h, x, e) = Kid(g, x, e)
  /\ \A x \in Key \cup {Root} :
       Siz(h, x) = Siz(g, x) /\ Bal(h, x) = IF x = a THEN n ELSE Bal(g, x)

LEMMA BalanceChanges ==
  ASSUME NEW g \in Heads, NEW a \in Key \cup {Root}, NEW n \in Int
  PROVE  BalanceChanged(g, SetBalance(g, a, n), a, n)
<1> DEFINE h == SetBalance(g, a, n)
<1>0. h = [g EXCEPT ![a].balance = n]
  BY DEF SetBalance
<1> HIDE DEF h
<1>1. g \in [Key \cup {Root} -> [p : [0..1 -> Child], balance : Int, size : Int]]
  BY DEF Heads
<1>2. \A x \in Key \cup {Root} : x # a => h[x] = g[x]
  BY <1>0, <1>1
<1>3. h[a] = [g[a] EXCEPT !.balance = n] /\ g[a] \in [p : [0..1 -> Child], balance : Int, size : Int]
  BY <1>0, <1>1
<1>4. /\ h[a] \in [p : [0..1 -> Child], balance : Int, size : Int]
      /\ h[a].p = g[a].p /\ h[a].size = g[a].size /\ h[a].balance = n
  BY <1>3
<1>5. h \in Heads
  <2>1. \A x \in Key \cup {Root} : h[x] \in [p : [0..1 -> Child], balance : Int, size : Int]
    BY <1>1, <1>2, <1>4
  <2>2. h = [x \in Key \cup {Root} |-> h[x]]
    BY <1>0, <1>1
  <2> QED
    BY <2>1, <2>2 DEF Heads
<1>6. \A x \in Key \cup {Root}, e \in 0..1 : Kid(h, x, e) = Kid(g, x, e)
  BY <1>2, <1>4 DEF Kid
<1>7. \A x \in Key \cup {Root} :
        Siz(h, x) = Siz(g, x) /\ Bal(h, x) = IF x = a THEN n ELSE Bal(g, x)
  BY <1>2, <1>4 DEF Bal, Siz
<1> QED
  BY <1>5, <1>6, <1>7 DEF h, BalanceChanged

\* Only the children, and what is at the root beside its child, do not matter.
RotatedOnce(g, p, dir, q, bq, bp, at) ==
  Link([Rotate1(g, p, dir) EXCEPT ![q].balance = bq, ![p].balance = bp], at, q)

LEMMA Rotate1Turns ==
  ASSUME NEW g, NEW up, NEW sub, Structure(g, up, sub),
         NEW p \in Key, NEW dir \in 0..1, NEW at \in Steps,
         Kid(g, at.x, at.d) = p, NEW q, q = Kid(g, p, 1 - dir), q # Null,
         NEW bq \in Int, NEW bp \in Int,
         NEW h, h = RotatedOnce(g, p, dir, q, bq, bp, at)
  PROVE  /\ Turned(g, h, at.x, at.d, p, dir)
         /\ Bal(h, p) = bp /\ Bal(h, q) = bq
         /\ \A x \in Key \cup {Root} : x # p => (x # q => Bal(h, x) = Bal(g, x))
         /\ Siz(h, Root) = Siz(g, Root)
<1> DEFINE a == at.x
           b == at.d
           m == Kid(g, q, dir)
           n == Siz(g, p) - (Siz(g, q) - SizeOf(g, m))
           opp == 1 - dir
<1>1. /\ q \in Key /\ p # q /\ a # p /\ a # q /\ m \in Child /\ m # p /\ m # q
      /\ a \in Key \cup {Root} /\ b \in 0..1
  <2>1. a \in Key \cup {Root} /\ b \in 0..1
    BY DEF Steps
  <2> QED
    BY <2>1, TurnHasThree
<1>2. /\ g \in [Key \cup {Root} -> [p : [0..1 -> Child], balance : Int, size : Int]]
      /\ opp \in 0..1 /\ opp # dir
  BY DEF Structure, Heads
<1>3. n \in Int /\ Siz(g, p) \in Int
  <2>1. SizeOf(g, m) \in Int
    BY <1>1, KidsAre, KeysAre
  <2> QED
    BY <1>1, <1>2, <2>1 DEF Siz
<1> DEFINE h1 == SetSize(g, p, n)
           h2 == SetKid(h1, p, opp, m)
           h3 == SetSize(h2, q, Siz(g, p))
           h4 == SetKid(h3, q, dir, p)
           h5 == SetBalance(h4, q, bq)
           h6 == SetBalance(h5, p, bp)
<1>4. h = SetKid(h6, a, b, q)
  BY <1>1 DEF RotatedOnce, Link, Rotate1, Kid, Siz, SetSize, SetKid, SetBalance
<1> HIDE DEF n, m, a, b, opp, h1, h2, h3, h4, h5, h6
<1>5. g \in Heads
  BY DEF Structure
<1>6. /\ h1 \in Heads /\ (\A x \in Key \cup {Root}, e \in 0..1 : Kid(h1, x, e) = Kid(g, x, e))
      /\ \A x \in Key \cup {Root} :
           Bal(h1, x) = Bal(g, x) /\ Siz(h1, x) = IF x = p THEN n ELSE Siz(g, x)
  BY <1>3, <1>5, SizeChanges DEF h1, SizeChanged
<1>7. /\ h2 \in Heads
      /\ \A x \in Key \cup {Root}, e \in 0..1 :
           Kid(h2, x, e) = IF x = p /\ e = opp THEN m ELSE Kid(h1, x, e)
      /\ \A x \in Key \cup {Root} : Bal(h2, x) = Bal(h1, x) /\ Siz(h2, x) = Siz(h1, x)
  <2>1. h1 \in Heads /\ p \in Key \cup {Root} /\ opp \in 0..1 /\ m \in Child
    BY <1>1, <1>2, <1>6
  <2>2. KidChanged(h1, h2, p, opp, m)
    BY ONLY <2>1, KidChanges DEF h2
  <2> QED
    BY ONLY <2>2 DEF KidChanged
<1>8. /\ h3 \in Heads /\ (\A x \in Key \cup {Root}, e \in 0..1 : Kid(h3, x, e) = Kid(h2, x, e))
      /\ \A x \in Key \cup {Root} :
           Bal(h3, x) = Bal(h2, x) /\ Siz(h3, x) = IF x = q THEN Siz(g, p) ELSE Siz(h2, x)
  <2>1. h2 \in Heads /\ q \in Key \cup {Root} /\ Siz(g, p) \in Int
    BY <1>1, <1>3, <1>7
  <2>2. SizeChanged(h2, h3, q, Siz(g, p))
    BY ONLY <2>1, SizeChanges DEF h3
  <2> QED
    BY ONLY <2>2 DEF SizeChanged
<1>9. /\ h4 \in Heads
      /\ \A x \in Key \cup {Root}, e \in 0..1 :
           Kid(h4, x, e) = IF x = q /\ e = dir THEN p ELSE Kid(h3, x, e)
      /\ \A x \in Key \cup {Root} : Bal(h4, x) = Bal(h3, x) /\ Siz(h4, x) = Siz(h3, x)
  <2>1. h3 \in Heads /\ q \in Key \cup {Root} /\ dir \in 0..1 /\ p \in Child
    BY <1>1, <1>2, <1>8 DEF Child
  <2>2. KidChanged(h3, h4, q, dir, p)
    BY ONLY <2>1, KidChanges DEF h4
  <2> QED
    BY ONLY <2>2 DEF KidChanged
<1>10. /\ h5 \in Heads /\ (\A x \in Key \cup {Root}, e \in 0..1 : Kid(h5, x, e) = Kid(h4, x, e))
       /\ \A x \in Key \cup {Root} :
            Siz(h5, x) = Siz(h4, x) /\ Bal(h5, x) = IF x = q THEN bq ELSE Bal(h4, x)
  <2>1. BalanceChanged(h4, h5, q, bq)
    BY <1>1, <1>9, BalanceChanges DEF h5
  <2> QED
    BY ONLY <2>1 DEF BalanceChanged
<1>11. /\ h6 \in Heads /\ (\A x \in Key \cup {Root}, e \in 0..1 : Kid(h6, x, e) = Kid(h5, x, e))
       /\ \A x \in Key \cup {Root} :
            Siz(h6, x) = Siz(h5, x) /\ Bal(h6, x) = IF x = p THEN bp ELSE Bal(h5, x)
  <2>1. BalanceChanged(h5, h6, p, bp)
    BY <1>1, <1>10, BalanceChanges DEF h6
  <2> QED
    BY ONLY <2>1 DEF BalanceChanged
<1>12. /\ h \in Heads
       /\ \A x \in Key \cup {Root}, e \in 0..1 :
            Kid(h, x, e) = IF x = a /\ e = b THEN q ELSE Kid(h6, x, e)
       /\ \A x \in Key \cup {Root} : Bal(h, x) = Bal(h6, x) /\ Siz(h, x) = Siz(h6, x)
  <2>1. h6 \in Heads /\ a \in Key \cup {Root} /\ b \in 0..1 /\ q \in Child
    BY <1>1, <1>11 DEF Child
  <2> DEFINE h7 == SetKid(h6, a, b, q)
  <2>2. /\ h7 \in Heads
        /\ \A x \in Key \cup {Root}, e \in 0..1 :
             Kid(h7, x, e) = IF x = a /\ e = b THEN q ELSE Kid(h6, x, e)
        /\ \A x \in Key \cup {Root} : Bal(h7, x) = Bal(h6, x) /\ Siz(h7, x) = Siz(h6, x)
    <3>1. KidChanged(h6, h7, a, b, q)
      BY ONLY <2>1, KidChanges
    <3> QED
      BY ONLY <3>1 DEF KidChanged
  <2>3. h = h7
    BY <1>4
  <2> HIDE DEF h7
  <2> QED
    BY <2>2, <2>3
<1>13. ASSUME NEW x \in Key \cup {Root}, NEW e \in 0..1
       PROVE  Kid(h, x, e) = IF x = p /\ e = opp THEN m
                             ELSE IF x = q /\ e = dir THEN p
                             ELSE IF x = a /\ e = b THEN q
                             ELSE Kid(g, x, e)
  <2>1. Kid(h6, x, e) = Kid(h4, x, e)
    BY <1>10, <1>11
  <2>2. Kid(h4, x, e) = IF x = q /\ e = dir THEN p ELSE Kid(h2, x, e)
    BY <1>8, <1>9
  <2>3. Kid(h2, x, e) = IF x = p /\ e = opp THEN m ELSE Kid(g, x, e)
    BY <1>6, <1>7
  <2>4. Kid(h, x, e) = IF x = a /\ e = b THEN q ELSE Kid(h6, x, e)
    BY <1>12
  <2> QED
    BY <1>1, <2>1, <2>2, <2>3, <2>4
<1>14. ASSUME NEW x \in Key \cup {Root}
       PROVE  /\ Siz(h, x) = IF x = p THEN n ELSE IF x = q THEN Siz(g, p) ELSE Siz(g, x)
              /\ Bal(h, x) = IF x = p THEN bp ELSE IF x = q THEN bq ELSE Bal(g, x)
  <2>1. Siz(h1, x) = (IF x = p THEN n ELSE Siz(g, x)) /\ Bal(h1, x) = Bal(g, x)
    BY <1>6
  <2>2. Siz(h2, x) = Siz(h1, x) /\ Bal(h2, x) = Bal(h1, x)
    BY <1>7
  <2>3. Siz(h3, x) = (IF x = q THEN Siz(g, p) ELSE Siz(h2, x)) /\ Bal(h3, x) = Bal(h2, x)
    BY <1>8
  <2>4. Siz(h4, x) = Siz(h3, x) /\ Bal(h4, x) = Bal(h3, x)
    BY <1>9
  <2>5. Siz(h5, x) = Siz(h4, x) /\ Bal(h5, x) = (IF x = q THEN bq ELSE Bal(h4, x))
    BY <1>10
  <2>6. Siz(h6, x) = Siz(h5, x) /\ Bal(h6, x) = (IF x = p THEN bp ELSE Bal(h5, x))
    BY <1>11
  <2>7. Siz(h, x) = Siz(h6, x) /\ Bal(h, x) = Bal(h6, x)
    BY <1>12
  <2> QED
    BY <1>1, <2>1, <2>2, <2>3, <2>4, <2>5, <2>6, <2>7
<1>15. Turned(g, h, a, b, p, dir)
  <2>1. m = Kid(g, q, dir)
    BY DEF m
  <2>2. n = Siz(g, p) - (Siz(g, q) - SizeOf(g, m))
    BY DEF n
  <2>3. \A x \in Key \cup {Root}, e \in 0..1 :
          Kid(h, x, e) = IF x = p /\ e = opp THEN Kid(g, q, dir)
                         ELSE IF x = q /\ e = dir THEN p
                         ELSE IF x = a /\ e = b THEN q
                         ELSE Kid(g, x, e)
    BY ONLY <1>13, <2>1, Zenon
  <2>4. \A x \in Key :
          Siz(h, x) = IF x = p THEN Siz(g, p) - (Siz(g, q) - SizeOf(g, Kid(g, q, dir)))
                      ELSE IF x = q THEN Siz(g, p)
                      ELSE Siz(g, x)
    BY <1>14, <2>1, <2>2
  <2>5. h \in Heads /\ q = Kid(g, p, 1 - dir) /\ opp = 1 - dir
    BY <1>12 DEF opp
  <2> QED
    BY ONLY <2>3, <2>4, <2>5 DEF Turned
<1>16. Siz(h, Root) = Siz(g, Root)
  BY <1>1, <1>14, KeysAre
<1> QED
  BY <1>1, <1>14, <1>15, <1>16 DEF a, b

LEMMA Rotate2Turns ==
  ASSUME NEW g, NEW up, NEW sub, Structure(g, up, sub),
         NEW p \in Key, NEW dir \in 0..1, NEW at \in Steps,
         Kid(g, at.x, at.d) = p, NEW q, q = Kid(g, p, 1 - dir), q # Null,
         NEW r, r = Kid(g, q, dir), r # Null,
         NEW bq \in Int, NEW bp \in Int,
         Balance2(Bal(g, r), IF dir = 0 THEN 1 ELSE -1) = <<bq, bp>>,
         NEW h, h = Link(Rotate2(g, p, dir), at, r)
  PROVE  \E k :
           /\ Turned(g, k, p, 1 - dir, q, 1 - dir) /\ Turned(k, h, at.x, at.d, p, dir)
           /\ Bal(h, p) = bp /\ Bal(h, q) = bq /\ Bal(h, r) = 0
           /\ \A x \in Key \cup {Root} : x # p => (x # q => (x # r => Bal(h, x) = Bal(g, x)))
           /\ Siz(h, Root) = Siz(g, Root)
<1> DEFINE a == at.x
           b == at.d
           opp == 1 - dir
           u == Kid(g, r, dir)
           v == Kid(g, r, opp)
           inner == SizeOf(g, u)
           n == Siz(g, p) - (Siz(g, q) - inner)
           n2 == Siz(g, q) - (inner + 1)
           h1 == SetSize(g, r, Siz(g, p))
           h2 == SetSize(h1, p, n)
           h3 == SetSize(h2, q, n2)
           h4 == SetKid(h3, p, opp, u)
           h5 == SetKid(h4, r, dir, p)
           h6 == SetKid(h5, q, dir, v)
           h7 == SetKid(h6, r, opp, q)
           h8 == SetBalance(h7, q, bq)
           h9 == SetBalance(h8, p, bp)
           h10 == SetBalance(h9, r, 0)
<1>1. /\ q \in Key /\ p # q /\ a # p /\ a # q /\ r \in Child /\ r # p /\ r # q
      /\ a \in Key \cup {Root} /\ b \in 0..1 /\ r \in Key
  <2>1. a \in Key \cup {Root} /\ b \in 0..1
    BY DEF Steps
  <2> QED
    BY <2>1, TurnHasThree DEF Child
<1>2. /\ opp \in 0..1 /\ opp # dir /\ 1 - opp = dir /\ g \in Heads
      /\ u \in Child /\ v \in Child
  <2>1. opp \in 0..1 /\ opp # dir /\ 1 - opp = dir
    OBVIOUS
  <2> QED
    BY <1>1, <2>1, KidsAre DEF Structure
<1>3. /\ inner \in Int /\ n \in Int /\ n2 \in Int /\ Siz(g, p) \in Int /\ Siz(g, q) \in Int
      /\ SizeOf(g, v) \in Int /\ Siz(g, r) = 1 + inner + SizeOf(g, v)
  <2>1. inner \in Int /\ SizeOf(g, v) \in Int
    BY <1>2, KidsAre, KeysAre
  <2>2. Siz(g, p) \in Int /\ Siz(g, q) \in Int
    BY <1>1, <1>2 DEF Heads, Siz
  <2>3. Siz(g, r) = 1 + inner + SizeOf(g, v)
    <3>1. Siz(g, r) = Cardinality(sub[r])
      BY <1>1 DEF Structure
    <3>2. Cardinality(sub[r]) = 1 + Cardinality(sub[Kid(g, r, 0)]) + Cardinality(sub[Kid(g, r, 1)])
      BY <1>1, SizeIs
    <3>3. inner = Cardinality(sub[u]) /\ SizeOf(g, v) = Cardinality(sub[v])
      BY <1>2, KidsAre
    <3>4. Cardinality(sub[u]) \in Int /\ Cardinality(sub[v]) \in Int
      BY <2>1, <3>3
    <3>5. (dir = 0 /\ opp = 1) \/ (dir = 1 /\ opp = 0)
      OBVIOUS
    <3> QED
      BY <3>1, <3>2, <3>3, <3>4, <3>5
  <2> QED
    BY <2>1, <2>2, <2>3
<1>4. h = SetKid(h10, a, b, r)
  <2>1. Balance2(g[r].balance, IF dir = 0 THEN 1 ELSE -1) = <<bq, bp>>
    BY DEF Bal
  <2>2. q = g[p].p[1 - dir] /\ r = g[q].p[dir] /\ inner = SizeOf(g, g[r].p[dir])
    BY DEF Kid
  <2>3. Turn2Sizes(g, p, q, r, inner) = h3
    <3>1. [g EXCEPT ![r].size = g[p].size][p].size = g[p].size
      BY <1>1, <1>2 DEF Heads
    <3>2. [g EXCEPT ![r].size = g[p].size, ![p].size = n][q].size = g[q].size
      BY <1>1, <1>2 DEF Heads
    <3> QED
      BY <1>1, <3>1, <3>2 DEF Turn2Sizes, SetSize, Siz
  <2>4. h3[r].p = g[r].p
    BY <1>1, <1>2 DEF SetSize, Heads
  <2>5. Turn2Links(h3, p, q, r, dir) = h7
    <3> HIDE DEF h3
    <3> QED
      BY <2>4 DEF Turn2Links, SetKid, Kid
  <2>6. Rotate2(g, p, dir) = Turn2(g, p, q, r, dir, <<bq, bp>>)
    <3> DEFINE q0 == g[p].p[1 - dir]
               r0 == g[q0].p[dir]
               b0 == Balance2(g[r0].balance, IF dir = 0 THEN 1 ELSE -1)
    <3>1. Rotate2(g, p, dir) = Turn2(g, p, q0, r0, dir, b0)
      BY DEF Rotate2
    <3>2. q = q0 /\ r = r0 /\ b0 = <<bq, bp>>
      BY <2>1, <2>2
    <3> HIDE DEF q0, r0, b0
    <3> QED
      BY <3>1, <3>2
  <2>7. Turn2(g, p, q, r, dir, <<bq, bp>>) = h10
    <3> HIDE DEF h7, inner
    <3> QED
      BY <2>2, <2>3, <2>5 DEF Turn2, SetBalance
  <2> HIDE DEF h10
  <2> QED
    BY <2>6, <2>7 DEF Link, SetKid
<1> HIDE DEF n, n2, inner, u, v, a, b, opp, h1, h2, h3, h4, h5, h6, h7, h8, h9, h10
<1>5. /\ h1 \in Heads
      /\ \A x \in Key \cup {Root}, e \in 0..1 : Kid(h1, x, e) = Kid(g, x, e)
      /\ \A x \in Key \cup {Root} :
           Bal(h1, x) = Bal(g, x) /\ Siz(h1, x) = IF x = r THEN Siz(g, p) ELSE Siz(g, x)
  <2>1. g \in Heads /\ r \in Key \cup {Root} /\ Siz(g, p) \in Int
    BY <1>1, <1>2, <1>3 DEF Child
  <2>2. SizeChanged(g, h1, r, Siz(g, p))
    BY ONLY <2>1, SizeChanges DEF h1
  <2> QED
    BY ONLY <2>2 DEF SizeChanged
<1>6. /\ h2 \in Heads
      /\ \A x \in Key \cup {Root}, e \in 0..1 : Kid(h2, x, e) = Kid(h1, x, e)
      /\ \A x \in Key \cup {Root} :
           Bal(h2, x) = Bal(h1, x) /\ Siz(h2, x) = IF x = p THEN n ELSE Siz(h1, x)
  <2>1. h1 \in Heads /\ p \in Key \cup {Root} /\ n \in Int
    BY <1>1, <1>2, <1>3, <1>5 DEF Child
  <2>2. SizeChanged(h1, h2, p, n)
    BY ONLY <2>1, SizeChanges DEF h2
  <2> QED
    BY ONLY <2>2 DEF SizeChanged
<1>7. /\ h3 \in Heads
      /\ \A x \in Key \cup {Root}, e \in 0..1 : Kid(h3, x, e) = Kid(h2, x, e)
      /\ \A x \in Key \cup {Root} :
           Bal(h3, x) = Bal(h2, x) /\ Siz(h3, x) = IF x = q THEN n2 ELSE Siz(h2, x)
  <2>1. h2 \in Heads /\ q \in Key \cup {Root} /\ n2 \in Int
    BY <1>1, <1>2, <1>3, <1>6 DEF Child
  <2>2. SizeChanged(h2, h3, q, n2)
    BY ONLY <2>1, SizeChanges DEF h3
  <2> QED
    BY ONLY <2>2 DEF SizeChanged
<1>8. /\ h4 \in Heads
      /\ \A x \in Key \cup {Root}, e \in 0..1 :
           Kid(h4, x, e) = IF x = p /\ e = opp THEN u ELSE Kid(h3, x, e)
      /\ \A x \in Key \cup {Root} : Bal(h4, x) = Bal(h3, x) /\ Siz(h4, x) = Siz(h3, x)
  <2>1. h3 \in Heads /\ p \in Key \cup {Root} /\ opp \in 0..1 /\ u \in Child
    BY <1>1, <1>2, <1>3, <1>7 DEF Child
  <2>2. KidChanged(h3, h4, p, opp, u)
    BY ONLY <2>1, KidChanges DEF h4
  <2> QED
    BY ONLY <2>2 DEF KidChanged
<1>9. /\ h5 \in Heads
      /\ \A x \in Key \cup {Root}, e \in 0..1 :
           Kid(h5, x, e) = IF x = r /\ e = dir THEN p ELSE Kid(h4, x, e)
      /\ \A x \in Key \cup {Root} : Bal(h5, x) = Bal(h4, x) /\ Siz(h5, x) = Siz(h4, x)
  <2>1. h4 \in Heads /\ r \in Key \cup {Root} /\ dir \in 0..1 /\ p \in Child
    BY <1>1, <1>2, <1>3, <1>8 DEF Child
  <2>2. KidChanged(h4, h5, r, dir, p)
    BY ONLY <2>1, KidChanges DEF h5
  <2> QED
    BY ONLY <2>2 DEF KidChanged
<1>10. /\ h6 \in Heads
       /\ \A x \in Key \cup {Root}, e \in 0..1 :
            Kid(h6, x, e) = IF x = q /\ e = dir THEN v ELSE Kid(h5, x, e)
       /\ \A x \in Key \cup {Root} : Bal(h6, x) = Bal(h5, x) /\ Siz(h6, x) = Siz(h5, x)
  <2>1. h5 \in Heads /\ q \in Key \cup {Root} /\ dir \in 0..1 /\ v \in Child
    BY <1>1, <1>2, <1>3, <1>9 DEF Child
  <2>2. KidChanged(h5, h6, q, dir, v)
    BY ONLY <2>1, KidChanges DEF h6
  <2> QED
    BY ONLY <2>2 DEF KidChanged
<1>11. /\ h7 \in Heads
       /\ \A x \in Key \cup {Root}, e \in 0..1 :
            Kid(h7, x, e) = IF x = r /\ e = opp THEN q ELSE Kid(h6, x, e)
       /\ \A x \in Key \cup {Root} : Bal(h7, x) = Bal(h6, x) /\ Siz(h7, x) = Siz(h6, x)
  <2>1. h6 \in Heads /\ r \in Key \cup {Root} /\ opp \in 0..1 /\ q \in Child
    BY <1>1, <1>2, <1>3, <1>10 DEF Child
  <2>2. KidChanged(h6, h7, r, opp, q)
    BY ONLY <2>1, KidChanges DEF h7
  <2> QED
    BY ONLY <2>2 DEF KidChanged
<1>12. /\ h8 \in Heads
       /\ \A x \in Key \cup {Root}, e \in 0..1 : Kid(h8, x, e) = Kid(h7, x, e)
       /\ \A x \in Key \cup {Root} :
            Siz(h8, x) = Siz(h7, x) /\ Bal(h8, x) = IF x = q THEN bq ELSE Bal(h7, x)
  <2>1. h7 \in Heads /\ q \in Key \cup {Root} /\ bq \in Int
    BY <1>1, <1>2, <1>3, <1>11 DEF Child
  <2>2. BalanceChanged(h7, h8, q, bq)
    BY ONLY <2>1, BalanceChanges DEF h8
  <2> QED
    BY ONLY <2>2 DEF BalanceChanged
<1>13. /\ h9 \in Heads
       /\ \A x \in Key \cup {Root}, e \in 0..1 : Kid(h9, x, e) = Kid(h8, x, e)
       /\ \A x \in Key \cup {Root} :
            Siz(h9, x) = Siz(h8, x) /\ Bal(h9, x) = IF x = p THEN bp ELSE Bal(h8, x)
  <2>1. h8 \in Heads /\ p \in Key \cup {Root} /\ bp \in Int
    BY <1>1, <1>2, <1>3, <1>12 DEF Child
  <2>2. BalanceChanged(h8, h9, p, bp)
    BY ONLY <2>1, BalanceChanges DEF h9
  <2> QED
    BY ONLY <2>2 DEF BalanceChanged
<1>14. /\ h10 \in Heads
       /\ \A x \in Key \cup {Root}, e \in 0..1 : Kid(h10, x, e) = Kid(h9, x, e)
       /\ \A x \in Key \cup {Root} :
            Siz(h10, x) = Siz(h9, x) /\ Bal(h10, x) = IF x = r THEN 0 ELSE Bal(h9, x)
  <2>1. h9 \in Heads /\ r \in Key \cup {Root} /\ 0 \in Int
    BY <1>1, <1>2, <1>3, <1>13 DEF Child
  <2>2. BalanceChanged(h9, h10, r, 0)
    BY ONLY <2>1, BalanceChanges DEF h10
  <2> QED
    BY ONLY <2>2 DEF BalanceChanged
<1>15. /\ h \in Heads
       /\ \A x \in Key \cup {Root}, e \in 0..1 :
            Kid(h, x, e) = IF x = a /\ e = b THEN r ELSE Kid(h10, x, e)
       /\ \A x \in Key \cup {Root} : Bal(h, x) = Bal(h10, x) /\ Siz(h, x) = Siz(h10, x)
  <2> DEFINE o == SetKid(h10, a, b, r)
  <2>1. h10 \in Heads /\ a \in Key \cup {Root} /\ b \in 0..1 /\ r \in Child
    BY <1>1, <1>14 DEF Child
  <2>2. /\ o \in Heads
        /\ \A x \in Key \cup {Root}, e \in 0..1 :
             Kid(o, x, e) = IF x = a /\ e = b THEN r ELSE Kid(h10, x, e)
        /\ \A x \in Key \cup {Root} : Bal(o, x) = Bal(h10, x) /\ Siz(o, x) = Siz(h10, x)
    <3>1. KidChanged(h10, o, a, b, r)
      BY ONLY <2>1, KidChanges
    <3> QED
      BY ONLY <3>1 DEF KidChanged
  <2>3. h = o
    BY <1>4
  <2> HIDE DEF o
  <2> QED
    BY <2>2, <2>3
<1>16. ASSUME NEW x \in Key \cup {Root}, NEW e \in 0..1
       PROVE  Kid(h, x, e) = IF x = a /\ e = b THEN r
                             ELSE IF x = r /\ e = opp THEN q
                             ELSE IF x = q /\ e = dir THEN v
                             ELSE IF x = r /\ e = dir THEN p
                             ELSE IF x = p /\ e = opp THEN u
                             ELSE Kid(g, x, e)
  <2>1. Kid(h3, x, e) = Kid(g, x, e)
    BY <1>5, <1>6, <1>7
  <2>2. Kid(h4, x, e) = IF x = p /\ e = opp THEN u ELSE Kid(h3, x, e)
    BY <1>8
  <2>3. Kid(h5, x, e) = IF x = r /\ e = dir THEN p ELSE Kid(h4, x, e)
    BY <1>9
  <2>4. Kid(h6, x, e) = IF x = q /\ e = dir THEN v ELSE Kid(h5, x, e)
    BY <1>10
  <2>5. Kid(h7, x, e) = IF x = r /\ e = opp THEN q ELSE Kid(h6, x, e)
    BY <1>11
  <2>6. Kid(h10, x, e) = Kid(h7, x, e)
    BY <1>12, <1>13, <1>14
  <2>7. Kid(h, x, e) = IF x = a /\ e = b THEN r ELSE Kid(h10, x, e)
    BY <1>15
  <2> QED
    BY <2>1, <2>2, <2>3, <2>4, <2>5, <2>6, <2>7
<1>17. ASSUME NEW x \in Key \cup {Root}
       PROVE  /\ Siz(h, x) = IF x = q THEN n2 ELSE IF x = p THEN n ELSE IF x = r THEN Siz(g, p) ELSE Siz(g, x)
              /\ Bal(h, x) = IF x = r THEN 0 ELSE IF x = p THEN bp ELSE IF x = q THEN bq ELSE Bal(g, x)
  <2>1. Siz(h1, x) = (IF x = r THEN Siz(g, p) ELSE Siz(g, x)) /\ Bal(h1, x) = Bal(g, x)
    BY <1>5
  <2>2. Siz(h2, x) = (IF x = p THEN n ELSE Siz(h1, x)) /\ Bal(h2, x) = Bal(h1, x)
    BY <1>6
  <2>3. Siz(h3, x) = (IF x = q THEN n2 ELSE Siz(h2, x)) /\ Bal(h3, x) = Bal(h2, x)
    BY <1>7
  <2>4. Siz(h7, x) = Siz(h3, x) /\ Bal(h7, x) = Bal(h3, x)
    BY <1>8, <1>9, <1>10, <1>11
  <2>5. Siz(h8, x) = Siz(h7, x) /\ Bal(h8, x) = (IF x = q THEN bq ELSE Bal(h7, x))
    BY <1>12
  <2>6. Siz(h9, x) = Siz(h8, x) /\ Bal(h9, x) = (IF x = p THEN bp ELSE Bal(h8, x))
    BY <1>13
  <2>7. Siz(h10, x) = Siz(h9, x) /\ Bal(h10, x) = (IF x = r THEN 0 ELSE Bal(h9, x))
    BY <1>14
  <2>8. Siz(h, x) = Siz(h10, x) /\ Bal(h, x) = Bal(h10, x)
    BY <1>15
  <2> QED
    BY <1>1, <2>1, <2>2, <2>3, <2>4, <2>5, <2>6, <2>7, <2>8
<1> DEFINE half == [x |-> p, d |-> opp]
           k == RotatedOnce(g, q, opp, r, 0, 0, half)
<1>18. Turned(g, k, p, opp, q, opp)
  <2>1. half \in Steps /\ half.x = p /\ half.d = opp
    BY <1>2 DEF Steps
  <2> HIDE DEF half
  <2>2. Kid(g, half.x, half.d) = q /\ r = Kid(g, q, 1 - opp)
    BY <1>2, <2>1 DEF opp
  <2>3. Turned(g, k, half.x, half.d, q, opp)
    <3>1. q \in Key /\ opp \in 0..1 /\ half \in Steps /\ 0 \in Int
      BY <1>1, <1>2, <2>1
    <3>2. k = RotatedOnce(g, q, opp, r, 0, 0, half)
      OBVIOUS
    <3> HIDE DEF k, opp
    <3>3. r # Null
      OBVIOUS
    <3> QED
      BY ONLY <2>2, <3>1, <3>2, <3>3, Structure(g, up, sub), Rotate1Turns
  <2> QED
    BY <2>1, <2>3
<1> HIDE DEF k
<1>19. /\ \A x \in Key \cup {Root}, e \in 0..1 :
           Kid(k, x, e) = IF x = q /\ e = dir THEN v
                          ELSE IF x = r /\ e = opp THEN q
                          ELSE IF x = p /\ e = opp THEN r
                          ELSE Kid(g, x, e)
       /\ \A x \in Key :
           Siz(k, x) = IF x = q THEN Siz(g, q) - (Siz(g, r) - SizeOf(g, v))
                       ELSE IF x = r THEN Siz(g, q)
                       ELSE Siz(g, x)
  BY <1>2, <1>18 DEF Turned, v
<1>20. /\ Kid(k, p, opp) = r /\ Kid(k, r, dir) = u
       /\ Siz(k, p) = Siz(g, p) /\ Siz(k, r) = Siz(g, q) /\ Siz(k, q) = n2
       /\ SizeOf(k, u) = inner
  <2>1. Kid(k, p, opp) = r /\ Kid(k, r, dir) = u
    BY <1>1, <1>2, <1>19 DEF u
  <2>2. Siz(k, p) = Siz(g, p) /\ Siz(k, r) = Siz(g, q)
    BY <1>1, <1>19
  <2>3. Siz(k, q) = n2
    BY <1>1, <1>3, <1>19 DEF n2
  <2>4. u # q /\ u # r
    <3>1. u # Null => u \in sub[u]
      BY <1>2, KidsAre DEF Child
    <3>2. sub[u] \subseteq sub[r] /\ r \notin sub[u] /\ q \notin sub[r]
      BY <1>1, KidsAre DEF u
    <3> QED
      BY <1>1, <3>1, <3>2, KeysAre
  <2>5. SizeOf(k, u) = SizeOf(g, u)
    BY <1>2, <1>19, <2>4 DEF SizeOf, Siz, Child
  <2> QED
    BY <2>1, <2>2, <2>3, <2>5 DEF inner
<1>21. Turned(k, h, a, b, p, dir)
  <2>0. a # r
    <3>1. a = r => p \in sub[r]
      <4>1. p \in sub[p] /\ (a \in Key => sub[Kid(g, a, b)] \subseteq sub[a])
        BY <1>1, KidsAre
      <4> QED
        BY <1>1, <4>1 DEF a, b
    <3>2. sub[r] \subseteq sub[q] /\ p \notin sub[q]
      BY <1>1, <1>2, KidsAre DEF opp
    <3> QED
      BY <3>1, <3>2
  <2>1. ASSUME NEW x \in Key \cup {Root}, NEW e \in 0..1
        PROVE  Kid(h, x, e) = IF x = p /\ e = opp THEN u
                              ELSE IF x = r /\ e = dir THEN p
                              ELSE IF x = a /\ e = b THEN r
                              ELSE Kid(k, x, e)
    <3>1. Kid(k, x, e) = IF x = q /\ e = dir THEN v
                         ELSE IF x = r /\ e = opp THEN q
                         ELSE IF x = p /\ e = opp THEN r
                         ELSE Kid(g, x, e)
      BY <1>19
    <3> QED
      BY <1>1, <1>2, <1>16, <2>0, <3>1
  <2>2. ASSUME NEW x \in Key
        PROVE  Siz(h, x) = IF x = p THEN Siz(k, p) - (Siz(k, r) - SizeOf(k, u))
                           ELSE IF x = r THEN Siz(k, p)
                           ELSE Siz(k, x)
    <3>1. Siz(k, x) = IF x = q THEN n2 ELSE IF x = r THEN Siz(g, q) ELSE Siz(g, x)
      BY <1>19, <1>20
    <3>2. Siz(h, x) = IF x = q THEN n2 ELSE IF x = p THEN n ELSE IF x = r THEN Siz(g, p) ELSE Siz(g, x)
      BY <1>17
    <3> QED
      BY <1>1, <1>20, <3>1, <3>2 DEF n
  <2>3. h \in Heads /\ r = Kid(k, p, 1 - dir) /\ opp = 1 - dir /\ u = Kid(k, r, dir)
    BY <1>15, <1>20 DEF opp
  <2>4. \A x \in Key \cup {Root}, e \in 0..1 :
          Kid(h, x, e) = IF x = p /\ e = opp THEN Kid(k, r, dir)
                         ELSE IF x = r /\ e = dir THEN p
                         ELSE IF x = a /\ e = b THEN r
                         ELSE Kid(k, x, e)
    BY ONLY <2>1, <2>3, Zenon
  <2>5. \A x \in Key :
          Siz(h, x) = IF x = p THEN Siz(k, p) - (Siz(k, r) - SizeOf(k, Kid(k, r, dir)))
                      ELSE IF x = r THEN Siz(k, p)
                      ELSE Siz(k, x)
    BY ONLY <2>2, <2>3, Zenon
  <2> QED
    BY ONLY <2>3, <2>4, <2>5 DEF Turned
<1>22. /\ Bal(h, p) = bp /\ Bal(h, q) = bq /\ Bal(h, r) = 0
       /\ \A x \in Key \cup {Root} : x # p => (x # q => (x # r => Bal(h, x) = Bal(g, x)))
  BY <1>1, <1>17
<1>23. Siz(h, Root) = Siz(g, Root)
  BY <1>1, <1>17, KeysAre
<1> QED
  BY <1>18, <1>21, <1>22, <1>23 DEF a, b, opp

-----------------------------------------------------------------------------
(***************************************************************************)
(* What is on a path, and beside it.                                       *)
(***************************************************************************)
LEMMA OnPath ==
  ASSUME NEW g, NEW up, NEW sub, Structure(g, up, sub), NEW path, IsPath(g, path)
  PROVE  /\ Len(path) \in Nat
         /\ \A n \in 1..Len(path) :
              /\ path[n] \in Steps /\ path[n].x \in Key \cup {Root} /\ path[n].d \in 0..1
              /\ (path[n].x = Root) <=> (n = 1)
         /\ \A n \in 2..Len(path) : path[n].x \in Key /\ path[n].x \in sub[Kid(g, Root, 0)]
         /\ \A n \in 2..Len(path) : \A x \in Key \cup {Root}, e \in 0..1 :
              Kid(g, x, e) = path[n].x => x = path[n - 1].x /\ e = path[n - 1].d
         /\ \A n \in 1..(Len(path) - 1) : Kid(g, path[n].x, path[n].d) = path[n + 1].x
         /\ \A n \in 1..Len(path), m \in 2..Len(path) :
              Kid(g, path[n].x, 1 - path[n].d) # path[m].x
<1>1. path \in Seq(Steps) /\ Len(path) \in Nat /\ Len(path) >= 1
  BY DEF IsPath
<1>2. \A n \in 1..Len(path) :
        path[n] \in Steps /\ path[n].x \in Key \cup {Root} /\ path[n].d \in 0..1
  <2> SUFFICES ASSUME NEW n \in 1..Len(path) PROVE path[n] \in Steps
    BY DEF Steps
  <2> QED
    BY <1>1
<1>3. \A n \in 2..Len(path) :
        path[n].x \in Key /\ path[n].x = Kid(g, path[n - 1].x, path[n - 1].d)
  BY DEF IsPath
<1>4. \A n \in 1..Len(path) : path[n].x = Root <=> n = 1
  <2> SUFFICES ASSUME NEW n \in 1..Len(path) PROVE path[n].x = Root <=> n = 1
    OBVIOUS
  <2>1. path[1].x = Root
    BY DEF IsPath
  <2>2. CASE n = 1
    BY <2>1, <2>2
  <2>3. CASE n # 1
    <3>1. n \in 2..Len(path)
      BY <1>1, <2>3
    <3> QED
      BY <1>3, <2>3, <3>1, KeysAre
  <2> QED
    BY <2>2, <2>3
<1>5. ASSUME NEW n \in 2..Len(path)
      PROVE  /\ n - 1 \in 1..Len(path) /\ path[n].x \in sub[Kid(g, Root, 0)]
             /\ up[path[n].x] = <<path[n - 1].x, path[n - 1].d>>
             /\ path[n].x # Null
  <2>1. n - 1 \in 1..Len(path)
    BY <1>1
  <2>2. /\ path[n - 1].x \in Key \cup {Root} /\ path[n - 1].d \in 0..1
        /\ path[n].x \in Key /\ path[n].x = Kid(g, path[n - 1].x, path[n - 1].d)
    BY <1>2, <1>3, <2>1
  <2>3. path[n].x # Null
    BY <2>2, KeysAre
  <2>4. path[n].x \in sub[Kid(g, Root, 0)]
    BY <2>2, <2>3, TreeIs
  <2> QED
    BY <2>1, <2>2, <2>3, <2>4 DEF Structure
<1>6. ASSUME NEW n \in 2..Len(path), NEW x \in Key \cup {Root}, NEW e \in 0..1,
             Kid(g, x, e) = path[n].x
      PROVE  x = path[n - 1].x /\ e = path[n - 1].d
  <2>1. up[path[n].x] = <<x, e>>
    BY <1>5, <1>6 DEF Structure
  <2> QED
    BY <1>5, <2>1
<1>7. ASSUME NEW n \in 1..(Len(path) - 1)
      PROVE  Kid(g, path[n].x, path[n].d) = path[n + 1].x
  <2>1. n + 1 \in 2..Len(path) /\ (n + 1) - 1 = n
    BY <1>1
  <2> QED
    BY <1>3, <2>1
<1>8. ASSUME NEW n \in 1..Len(path), NEW m \in 2..Len(path),
             Kid(g, path[n].x, 1 - path[n].d) = path[m].x
      PROVE  FALSE
  <2>1. path[n].d \in 0..1 /\ path[n].x \in Key \cup {Root}
    BY <1>2
  <2>2. 1 - path[n].d \in 0..1 /\ 1 - path[n].d # path[n].d
    BY <2>1
  <2>3. path[n].x = path[m - 1].x /\ 1 - path[n].d = path[m - 1].d
    BY <1>6, <1>8, <2>1, <2>2
  <2>4. m - 1 = n
    BY <1>5, <2>3 DEF IsPath
  <2> QED
    BY <2>2, <2>3, <2>4
<1> QED
  BY <1>1, <1>2, <1>3, <1>4, <1>5, <1>6, <1>7, <1>8

\* The path of a key that is not there.
Misses(g, path, k) ==
  /\ IsPath(g, path) /\ End(g, path) = Null
  /\ \A n \in 2..Len(path) : path[n].d = Dir(k, path[n].x)

\* h is g with the leaf k at the end of the path, brought up to date.
LeafAt(g, h, path, k, b) ==
  /\ h \in Heads
  /\ \A x \in Key \cup {Root}, e \in 0..1 :
       Kid(h, x, e) = IF x = path[Len(path)].x /\ e = path[Len(path)].d THEN k
                      ELSE Kid(g, x, e)
  /\ \A x \in Key \cup {Root} :
       /\ Bal(h, x) = IF x \in Passed(path, b) THEN Bal(g, x) + Sign(Dir(k, x)) ELSE Bal(g, x)
       /\ Siz(h, x) = IF x \in Passed(path, 2) THEN Siz(g, x) + 1 ELSE Siz(g, x)

\* A leaf at the end of a path.
LEMMA LeafKeepsStructure ==
  ASSUME NEW g, NEW up, NEW sub, Structure(g, up, sub), NEW k \in Key,
         NEW path, Misses(g, path, k), NEW N, N = sub[Kid(g, Root, 0)], k \notin N,
         NEW c, NEW h, LeafAt(g, h, path, k, c)
  PROVE  \E up2, sub2 : Structure(h, up2, sub2) /\ sub2[Kid(h, Root, 0)] = N \cup {k}
<1> SUFFICES
      ASSUME IsPath(g, path), End(g, path) = Null,
             \A n \in 2..Len(path) : path[n].d = Dir(k, path[n].x),
             h \in Heads, NEW P, P = Passed(path, 2),
             NEW a, a = path[Len(path)].x, NEW b, b = path[Len(path)].d,
             \A x \in Key \cup {Root}, e \in 0..1 :
               Kid(h, x, e) = IF x = a /\ e = b THEN k ELSE Kid(g, x, e),
             \A x \in Key : Siz(h, x) = IF x \in P THEN Siz(g, x) + 1 ELSE Siz(g, x)
      PROVE  \E up2, sub2 : Structure(h, up2, sub2) /\ sub2[Kid(h, Root, 0)] = N \cup {k}
  BY DEF Misses, LeafAt
<1> DEFINE up2 == [up EXCEPT ![k] = <<a, b>>]
           sub2 == [x \in Child |-> IF x \in P THEN sub[x] \cup {k} ELSE sub[x]]
           L == Len(path)
<1>1. /\ L \in Nat /\ L >= 1 /\ a \in Key \cup {Root} /\ b \in 0..1 /\ Kid(g, a, b) = Null
      /\ (a = Root) <=> (L = 1)
  <2>1. L \in Nat /\ L >= 1
    BY DEF IsPath
  <2>2. L \in 1..L
    BY <2>1
  <2>3. a \in Key \cup {Root} /\ b \in 0..1 /\ ((a = Root) <=> (L = 1))
    <3>1. a = path[L].x /\ b = path[L].d /\ L \in 1..Len(path)
      BY <2>2
    <3> HIDE DEF L
    <3> QED
      BY <3>1, OnPath
  <2>4. Kid(g, a, b) = Null
    BY DEF End
  <2> QED
    BY <2>1, <2>3, <2>4
<1>2. P \in SUBSET N /\ N \in SUBSET Key /\ k \notin P /\ (a # Root => a \in P)
  <2>1. P = {path[n].x : n \in 2..L}
    BY DEF Passed
  <2>2. \A n \in 2..L : path[n].x \in N
    BY OnPath
  <2>3. a # Root => L \in 2..L
    <3> HIDE DEF L
    <3> QED
      BY <1>1
  <2> QED
    BY <2>1, <2>2, <2>3, TreeIs
<1>3. sub[k] = {k} /\ Kid(g, k, 0) = Null /\ Kid(g, k, 1) = Null /\ k # Null /\ k # Root
  BY TreeIs, KeysAre
<1>4. \A x \in Key \cup {Root}, e \in 0..1 : Kid(g, x, e) # k
  BY <1>3, TreeIs
<1>5. \A x \in Child : sub2[x] = IF x \in P THEN sub[x] \cup {k} ELSE sub[x]
  OBVIOUS
<1>6. up2 \in [Key -> Place] /\ sub2 \in [Child -> SUBSET Key]
  BY <1>1 DEF Structure, Place, Child
<1> HIDE DEF up2, sub2
\* what is below the children of a node
<1>7. ASSUME NEW x \in P
      PROVE  \E e \in 0..1 : /\ e = Dir(k, x) /\ x # k
                             /\ sub2[Kid(h, x, e)] = sub[Kid(g, x, e)] \cup {k}
                             /\ sub2[Kid(h, x, 1 - e)] = sub[Kid(g, x, 1 - e)]
  <2>1. PICK n \in 2..L : x = path[n].x
    BY DEF Passed
  <2> DEFINE e == path[n].d
  <2>2. e \in 0..1 /\ e = Dir(k, x) /\ x \in Key /\ 1 - e \in 0..1 /\ 1 - e # e /\ n \in 1..L
    BY <2>1, OnPath
  <2>3. sub2[Kid(h, x, e)] = sub[Kid(g, x, e)] \cup {k}
    <3>1. CASE n = L
      <4>1. Kid(h, x, e) = k /\ Kid(g, x, e) = Null
        BY <1>1, <2>1, <2>2, <3>1
      <4> QED
        BY <1>2, <1>3, <1>5, <4>1 DEF Structure, Child
    <3>2. CASE n # L
      <4>1. n \in 1..(L - 1) /\ n + 1 \in 2..L
        BY <1>1, <3>2
      <4>2. Kid(g, x, e) = path[n + 1].x
        BY <2>1, <4>1, OnPath
      <4>3. path[n + 1].x \in P /\ path[n + 1].x \in Key
        BY <4>1, OnPath DEF Passed
      <4>4. Kid(h, x, e) = Kid(g, x, e)
        <5>1. x # a
          BY <1>1, <2>1, <2>2, <3>2 DEF IsPath
        <5> QED
          BY <2>2, <5>1
      <4> QED
        BY <1>5, <4>2, <4>3, <4>4 DEF Child
    <3> QED
      BY <3>1, <3>2
  <2>4. sub2[Kid(h, x, 1 - e)] = sub[Kid(g, x, 1 - e)]
    <3>1. Kid(g, x, 1 - e) \in Child /\ Kid(g, x, 1 - e) \notin P
      <4>1. \A m \in 2..L : Kid(g, x, 1 - e) # path[m].x
        BY <2>1, <2>2, OnPath
      <4> QED
        BY <2>2, <4>1, KidsAre DEF Passed
    <3>2. Kid(h, x, 1 - e) = Kid(g, x, 1 - e)
      <4>1. ~ (x = a /\ 1 - e = b)
        <5>1. x = a => n = L
          <6>1. L \in 1..L /\ n \in 1..L
            BY <1>1, <2>2
          <6> QED
            BY <2>1, <6>1 DEF IsPath
        <5> QED
          BY <2>2, <5>1
      <4> QED
        BY <2>2, <4>1
    <3> QED
      BY <1>5, <3>1, <3>2
  <2>5. x # k
    BY <1>2
  <2> QED
    BY <2>2, <2>3, <2>4, <2>5
<1>8. ASSUME NEW x \in Key, x \notin P, NEW e \in 0..1
      PROVE  Kid(h, x, e) = Kid(g, x, e) /\ sub2[Kid(h, x, e)] = sub[Kid(g, x, e)]
  <2>1. x # a /\ x # Root
    BY <1>2, <1>8, KeysAre
  <2>2. Kid(h, x, e) = Kid(g, x, e) /\ Kid(g, x, e) \in Child
    BY <2>1, KidsAre
  <2>3. Kid(g, x, e) \notin P
    <3> SUFFICES ASSUME NEW n \in 2..L, Kid(g, x, e) = path[n].x PROVE FALSE
      BY DEF Passed
    <3>1. x = path[n - 1].x
      BY OnPath
    <3>2. n - 1 # 1
      BY <2>1, <3>1 DEF IsPath
    <3>3. n - 1 \in 2..L
      BY <1>1, <3>2
    <3> QED
      BY <1>8, <3>1, <3>3 DEF Passed
  <2> QED
    BY <1>5, <2>2, <2>3
<1>9. \A x \in Key : sub2[x] = {x} \cup sub2[Kid(h, x, 0)] \cup sub2[Kid(h, x, 1)]
  <2> SUFFICES ASSUME NEW x \in Key
               PROVE  sub2[x] = {x} \cup sub2[Kid(h, x, 0)] \cup sub2[Kid(h, x, 1)]
    OBVIOUS
  <2>1. sub[x] = {x} \cup sub[Kid(g, x, 0)] \cup sub[Kid(g, x, 1)]
    BY DEF Structure
  <2>2. CASE x \in P
    <3>1. PICK e \in 0..1 : /\ sub2[Kid(h, x, e)] = sub[Kid(g, x, e)] \cup {k}
                            /\ sub2[Kid(h, x, 1 - e)] = sub[Kid(g, x, 1 - e)]
      BY <1>7, <2>2
    <3>2. (e = 0 /\ 1 - e = 1) \/ (e = 1 /\ 1 - e = 0)
      OBVIOUS
    <3>3. sub2[x] = sub[x] \cup {k}
      BY <1>5, <2>2 DEF Child
    <3> QED
      BY <2>1, <3>1, <3>2, <3>3
  <2>3. CASE x \notin P
    <3>1. /\ sub2[Kid(h, x, 0)] = sub[Kid(g, x, 0)]
          /\ sub2[Kid(h, x, 1)] = sub[Kid(g, x, 1)]
      BY <1>8, <2>3
    <3>2. sub2[x] = sub[x]
      BY <1>5, <2>3 DEF Child
    <3> QED
      BY <2>1, <3>1, <3>2
  <2> QED
    BY <2>2, <2>3
<1>10. \A x \in Key, d \in 0..1 : \A y \in sub2[Kid(h, x, d)] : Beyond(x, y, d)
  <2> SUFFICES ASSUME NEW x \in Key, NEW d \in 0..1, NEW y \in sub2[Kid(h, x, d)]
               PROVE  Beyond(x, y, d)
    OBVIOUS
  <2>1. \A z \in sub[Kid(g, x, d)] : Beyond(x, z, d)
    BY DEF Structure
  <2>2. CASE x \in P
    <3>1. PICK e \in 0..1 : /\ e = Dir(k, x) /\ x # k
                            /\ sub2[Kid(h, x, e)] = sub[Kid(g, x, e)] \cup {k}
                            /\ sub2[Kid(h, x, 1 - e)] = sub[Kid(g, x, 1 - e)]
      BY <1>7, <2>2
    <3>2. d = e \/ d = 1 - e
      OBVIOUS
    <3>3. Beyond(x, k, e)
      BY <3>1, KeysAre DEF Beyond, Dir
    <3> QED
      BY <2>1, <3>1, <3>2, <3>3
  <2>3. CASE x \notin P
    BY <1>8, <2>1, <2>3
  <2> QED
    BY <2>2, <2>3
<1>11. \A x \in Key : Siz(h, x) = Cardinality(sub2[x])
  <2> SUFFICES ASSUME NEW x \in Key PROVE Siz(h, x) = Cardinality(sub2[x])
    OBVIOUS
  <2>1. Siz(g, x) = Cardinality(sub[x]) /\ IsFiniteSet(sub[x])
    BY KidsAre, KeysAre DEF Structure
  <2>2. CASE x \in P
    <3>1. sub[x] \subseteq N
      BY <1>2, <2>2, TreeIs
    <3>2. Cardinality(sub[x] \cup {k}) = Cardinality(sub[x]) + 1
      BY <2>1, <3>1, FS_AddElement
    <3> QED
      BY <1>5, <2>1, <2>2, <3>2 DEF Child
  <2>3. CASE x \notin P
    BY <1>5, <2>1, <2>3 DEF Child
  <2> QED
    BY <2>2, <2>3
<1>12. sub2[Kid(h, Root, 0)] = N \cup {k}
  <2>1. CASE L = 1
    <3>1. a = Root /\ b = 0
      BY <1>1, <2>1 DEF IsPath
    <3>2. Kid(h, Root, 0) = k /\ N = {}
      BY <1>1, <3>1 DEF Structure
    <3> QED
      BY <1>2, <1>3, <1>5, <3>2 DEF Child
  <2>2. CASE L # 1
    <3>a. L \in Nat /\ L >= 1
      BY <1>1
    <3>0. L >= 2
      <4> HIDE DEF L
      <4> QED
        BY <3>a, <2>2
    <3>1. 1 \in 1..(L - 1) /\ 2 \in 2..L
      BY <3>a, <3>0
    <3>2. path[1].x = Root /\ path[1].d = 0
      BY DEF IsPath
    <3>3. Kid(g, Root, 0) = path[2].x
      BY <3>1, <3>2, OnPath
    <3>4. Kid(g, Root, 0) \in P /\ Kid(g, Root, 0) \in Key
      BY <3>1, <3>3, OnPath DEF Passed
    <3>5. Kid(h, Root, 0) = Kid(g, Root, 0)
      BY <1>1, <2>2
    <3> QED
      BY <1>5, <3>4, <3>5 DEF Child
  <2> QED
    BY <2>1, <2>2
<1>13. Kid(h, Root, 1) = Null
  <2>1. ~ (a = Root /\ b = 1)
    BY <1>1 DEF IsPath
  <2> QED
    BY <2>1 DEF Structure
<1>14. \A x \in Key \cup {Root}, d \in 0..1 :
         Kid(h, x, d) # Null => up2[Kid(h, x, d)] = <<x, d>>
  <2> SUFFICES ASSUME NEW x \in Key \cup {Root}, NEW d \in 0..1, Kid(h, x, d) # Null
               PROVE  up2[Kid(h, x, d)] = <<x, d>>
    OBVIOUS
  <2>1. CASE x = a /\ d = b
    BY <2>1 DEF up2, Structure
  <2>2. CASE ~ (x = a /\ d = b)
    <3>1. Kid(h, x, d) = Kid(g, x, d) /\ Kid(g, x, d) # k /\ Kid(g, x, d) \in Key
      BY <1>4, <2>2, KidsAre DEF Child
    <3> QED
      BY <3>1 DEF up2, Structure
  <2> QED
    BY <2>1, <2>2
<1>15. \A x \in Key : x \notin sub2[Kid(h, Root, 0)] => Kid(h, x, 0) = Null /\ Kid(h, x, 1) = Null
  BY <1>2, <1>8, <1>12 DEF Structure
<1>16. sub2[Null] = {}
  BY <1>2, <1>5, KeysAre DEF Structure, Child
<1>17. Structure(h, up2, sub2)
  BY <1>6, <1>9, <1>10, <1>11, <1>13, <1>14, <1>15, <1>16 DEF Structure
<1> QED
  BY <1>12, <1>17

\* bp stays as high as it was, but its child in direction d is one higher.
RaisedBelow(g, ht, h, ht2, bp, d) ==
  /\ Balanced(h, ht2, {bp}) /\ ht2[bp] = ht[bp]
  /\ ht2[Kid(h, bp, d)] = ht[Kid(g, bp, d)] + 1
  /\ ht2[Kid(h, bp, 1 - d)] = ht[Kid(g, bp, 1 - d)]
  /\ Kid(h, bp, 1 - d) = Kid(g, bp, 1 - d)
  /\ \/ Kid(g, bp, d) = Null
     \/ Kid(h, bp, d) = Kid(g, bp, d) /\ Bal(h, Kid(h, bp, d)) \in {-1, 1}

\* The subtrees below bp that have the leaf in them are one higher.
LEMMA LeafRaises ==
  ASSUME NEW g, NEW up, NEW sub, Structure(g, up, sub), NEW k \in Key,
         NEW path, Misses(g, path, k), k \notin sub[Kid(g, Root, 0)],
         NEW b \in 2..Len(path), \A n \in (b + 1)..Len(path) : Bal(g, path[n].x) = 0,
         NEW h, LeafAt(g, h, path, k, b),
         NEW ht, Balanced(g, ht, {}),
         NEW bp, bp = path[b].x, NEW d, d = path[b].d
  PROVE  \E ht2 : RaisedBelow(g, ht, h, ht2, bp, d)
<1> SUFFICES
      ASSUME IsPath(g, path), End(g, path) = Null,
             \A n \in 2..Len(path) : path[n].d = Dir(k, path[n].x),
             h \in Heads,
             \A x \in Key \cup {Root}, e \in 0..1 :
               Kid(h, x, e) = IF x = path[Len(path)].x /\ e = path[Len(path)].d THEN k
                              ELSE Kid(g, x, e),
             \A x \in Key :
               Bal(h, x) = IF x \in Passed(path, b) THEN Bal(g, x) + Sign(Dir(k, x)) ELSE Bal(g, x)
      PROVE  \E ht2 : RaisedBelow(g, ht, h, ht2, bp, d)
  BY DEF Misses, LeafAt
<1> DEFINE L == Len(path)
           a == path[L].x
           P == Passed(path, b + 1)
           ht2 == [y \in Child |-> IF y \in P THEN ht[y] + 1 ELSE ht[y]]
<1>1. /\ L \in Nat /\ b \in Nat /\ b >= 2 /\ b <= L
      /\ ht \in [Child -> Nat] /\ ht[Null] = 0
      /\ \A x \in Key : BalancedAt(g, ht, x)
  BY DEF IsPath, Balanced
<1>2. /\ \A n \in 2..L : path[n] \in Steps /\ path[n].x \in Key /\ path[n].d \in 0..1
      /\ \A m, n \in 2..L : path[m].x = path[n].x => m = n
  <2>1. \A n \in 2..L : n \in 1..L
    BY <1>1
  <2> QED
    BY <2>1, OnPath DEF IsPath
<1>3. ht[k] = 1 /\ k # Null /\ \A x \in Key \cup {Root}, e \in 0..1 : Kid(g, x, e) # k
  <2>1. Kid(g, k, 0) = Null /\ Kid(g, k, 1) = Null /\ k # Null
    BY TreeIs, KeysAre
  <2>2. Above(ht[k], 0, 0)
    BY <1>1, <2>1 DEF BalancedAt
  <2>3. \A x \in Key \cup {Root}, e \in 0..1 : Kid(g, x, e) # k
    BY <2>1, TreeIs
  <2> QED
    BY <2>1, <2>2, <2>3 DEF Above
<1>4. \A y \in Child : ht2[y] = IF y \in P THEN ht[y] + 1 ELSE ht[y]
  OBVIOUS
<1>5. /\ P = {path[n].x : n \in (b + 1)..L} /\ Null \notin P /\ k \notin P /\ bp \notin P /\ bp \in Key
      /\ P \in SUBSET Key
  <2>1. P = {path[n].x : n \in (b + 1)..L}
    BY DEF Passed
  <2>2. \A n \in (b + 1)..L : n \in 2..L /\ n # b
    BY <1>1
  <2>3. \A n \in 2..L : path[n].x \in sub[Kid(g, Root, 0)]
    BY OnPath
  <2>4. b \in 2..L
    OBVIOUS
  <2>5. P \in SUBSET Key /\ k \notin P /\ bp \notin P /\ bp \in Key
    BY <1>2, <2>1, <2>2, <2>3, <2>4
  <2> QED
    BY <2>1, <2>5, KeysAre
<1>6. ht2 \in [Child -> Nat] /\ ht2[Null] = 0 /\ ht2[bp] = ht[bp] /\ ht2[k] = 1
  <2>1. Null \in Child /\ k \in Child /\ bp \in Child
    BY <1>5 DEF Child
  <2>2. ht2 \in [Child -> Nat]
    BY <1>1
  <2> QED
    BY <1>1, <1>3, <1>4, <1>5, <2>1, <2>2
<1> HIDE DEF ht2, P, L
<1>7. ASSUME NEW m \in b..L
      PROVE  LET x == path[m].x
                 e == path[m].d
             IN  /\ x \in Key /\ e \in 0..1 /\ e = Dir(k, x)
                 /\ ht2[Kid(h, x, e)] = ht[Kid(g, x, e)] + 1
                 /\ ht2[Kid(h, x, 1 - e)] = ht[Kid(g, x, 1 - e)]
                 /\ Kid(h, x, 1 - e) = Kid(g, x, 1 - e)
                 /\ m < L => Kid(h, x, e) = path[m + 1].x /\ Kid(g, x, e) = path[m + 1].x
                 /\ m = L => Kid(h, x, e) = k /\ Kid(g, x, e) = Null
  <2> DEFINE x == path[m].x
             e == path[m].d
  <2>1. m \in Nat /\ m \in 2..L /\ m \in 1..L /\ m <= L /\ b <= m
    BY <1>1
  <2>2. x \in Key /\ e \in 0..1 /\ 1 - e \in 0..1 /\ 1 - e # e /\ e = Dir(k, x)
    <3>1. x \in Key /\ e \in 0..1
      BY <1>2, <2>1
    <3>2. e = Dir(k, x)
      BY <2>1 DEF L
    <3> QED
      BY <3>1, <3>2
  <2>3. x = a => m = L
    <3>1. L \in 2..L
      BY <1>1
    <3> QED
      BY <1>2, <2>1, <3>1
  <2>4. Kid(h, x, 1 - e) = Kid(g, x, 1 - e)
    BY <2>2, <2>3 DEF L
  <2>5. ht2[Kid(h, x, 1 - e)] = ht[Kid(g, x, 1 - e)]
    <3>1. Kid(g, x, 1 - e) \in Child
      BY <2>2, KidsAre
    <3>2. Kid(g, x, 1 - e) \notin P
      <4> SUFFICES ASSUME NEW n \in (b + 1)..L, Kid(g, x, 1 - e) = path[n].x PROVE FALSE
        BY <1>5
      <4>1. n \in 2..L
        BY <1>1
      <4>2. n \in 2..Len(path) /\ m \in 1..Len(path)
        BY <2>1, <4>1 DEF L
      <4> QED
        BY <4>2, OnPath
    <3> QED
      BY <1>4, <2>4, <3>1, <3>2
  <2>6. CASE m = L
    <3>1. Kid(h, x, e) = k /\ Kid(g, x, e) = Null
      BY <2>2, <2>6 DEF End, L
    <3> QED
      BY <1>1, <1>6, <2>2, <2>4, <2>5, <2>6, <3>1
  <2>7. CASE m # L
    <3>1. m < L /\ m + 1 \in (b + 1)..L /\ m \in 1..(L - 1)
      BY <1>1, <2>1, <2>7
    <3>2. Kid(g, x, e) = path[m + 1].x
      BY <3>1, OnPath DEF L
    <3>3. path[m + 1].x \in P
      BY <1>5, <3>1
    <3>4. Kid(h, x, e) = Kid(g, x, e)
      BY <2>2, <2>3, <2>7 DEF L
    <3>5. ht2[Kid(h, x, e)] = ht[Kid(g, x, e)] + 1
      BY <1>4, <1>5, <3>2, <3>3, <3>4 DEF Child
    <3> QED
      BY <2>2, <2>4, <2>5, <2>7, <3>1, <3>2, <3>4, <3>5
  <2> QED
    BY <2>6, <2>7
<1>8. ASSUME NEW x \in Key, x \notin Passed(path, b), NEW e \in 0..1
      PROVE  ht2[Kid(h, x, e)] = ht[Kid(g, x, e)] /\ ht2[x] = ht[x]
  <2>0. \A n \in b..L : path[n].x # x
    BY <1>8 DEF Passed, L
  <2>1. x # a /\ x # Root
    BY <1>1, <2>0, KeysAre
  <2>2. Kid(h, x, e) = Kid(g, x, e) /\ Kid(g, x, e) \in Child
    BY <2>1, KidsAre DEF L
  <2>3. Kid(g, x, e) \notin P
    <3> SUFFICES ASSUME NEW n \in (b + 1)..L, Kid(g, x, e) = path[n].x PROVE FALSE
      BY <1>5
    <3>1. n \in 2..L /\ n - 1 \in b..L
      BY <1>1
    <3>2. x = path[n - 1].x
      BY <3>1, OnPath DEF L
    <3> QED
      BY <2>0, <3>1, <3>2
  <2>4. x \notin P
    <3>1. \A n \in (b + 1)..L : n \in b..L
      BY <1>1
    <3> QED
      BY <1>5, <2>0, <3>1
  <2> QED
    BY <1>4, <2>2, <2>3, <2>4 DEF Child
<1>9. ASSUME NEW x \in Key \ {bp} PROVE BalancedAt(h, ht2, x)
  <2>1. CASE x \in Passed(path, b)
    <3>1. PICK m \in b..L : x = path[m].x
      BY <2>1 DEF Passed, L
    <3>2. m # b /\ m \in (b + 1)..L /\ m \in (b + 1)..Len(path)
      BY <1>1, <1>9, <3>1 DEF L
    <3> DEFINE e == path[m].d
    <3>3. /\ e \in 0..1 /\ e = Dir(k, x)
          /\ ht2[Kid(h, x, e)] = ht[Kid(g, x, e)] + 1
          /\ ht2[Kid(h, x, 1 - e)] = ht[Kid(g, x, 1 - e)]
      BY <1>7, <3>1
    <3>4. Bal(g, x) = 0
      BY <3>1, <3>2
    <3>5. ht2[x] = ht[x] + 1
      BY <1>4, <1>5, <3>1, <3>2 DEF Child
    <3>6. Bal(h, x) = Sign(e)
      BY <2>1, <3>3, <3>4 DEF Sign
    <3> HIDE DEF e
    <3>7. /\ Above(ht[x], ht[Kid(g, x, e)], ht[Kid(g, x, 1 - e)])
          /\ Leans(Bal(g, x), e, ht[Kid(g, x, e)], ht[Kid(g, x, 1 - e)])
      BY <1>1, <3>3, BalancedAtIs
    <3>8. ht[Kid(g, x, e)] \in Nat /\ ht[Kid(g, x, 1 - e)] \in Nat /\ ht[x] \in Nat
      <4>1. Kid(g, x, e) \in Child /\ Kid(g, x, 1 - e) \in Child /\ x \in Child
        BY <3>3, KidsAre DEF Child
      <4> QED
        BY <1>1, <4>1
    <3>9. ht[Kid(g, x, e)] = ht[Kid(g, x, 1 - e)] /\ ht[x] = ht[Kid(g, x, 1 - e)] + 1
      BY <3>4, <3>7, <3>8 DEF Above, Leans
    <3>10. PICK n \in Nat : /\ ht2[x] = n + 2 /\ ht2[Kid(h, x, e)] = n + 1
                            /\ ht2[Kid(h, x, 1 - e)] = n
      BY <3>3, <3>5, <3>8, <3>9
    <3>11. (e = 0 /\ Bal(h, x) = -1) \/ (e = 1 /\ Bal(h, x) = 1)
      BY <3>3, <3>6 DEF Sign
    <3>12. Above(n + 2, n + 1, n) /\ Leans(Bal(h, x), e, n + 1, n) /\ Bal(h, x) \in -1..1
      BY <3>11 DEF Above, Leans
    <3> QED
      BY ONLY <3>3, <3>10, <3>12, BalancedAtIs
  <2>2. CASE x \notin Passed(path, b)
    <3>1. /\ ht2[Kid(h, x, 0)] = ht[Kid(g, x, 0)] /\ ht2[Kid(h, x, 1)] = ht[Kid(g, x, 1)]
          /\ ht2[x] = ht[x] /\ Bal(h, x) = Bal(g, x)
      BY <1>8, <2>2
    <3> QED
      BY <1>1, <3>1, StaysBalanced
  <2> QED
    BY <2>1, <2>2
<1>10. Balanced(h, ht2, {bp})
  BY <1>6, <1>9 DEF Balanced
<1>11. /\ ht2[Kid(h, bp, d)] = ht[Kid(g, bp, d)] + 1
       /\ ht2[Kid(h, bp, 1 - d)] = ht[Kid(g, bp, 1 - d)]
       /\ Kid(h, bp, 1 - d) = Kid(g, bp, 1 - d)
       /\ b < L => Kid(h, bp, d) = path[b + 1].x /\ Kid(g, bp, d) = path[b + 1].x
       /\ b = L => Kid(g, bp, d) = Null
  <2>1. b \in b..L
    BY <1>1
  <2> QED
    BY <1>7, <2>1
<1>12. \/ Kid(g, bp, d) = Null
       \/ Kid(h, bp, d) = Kid(g, bp, d) /\ Bal(h, Kid(h, bp, d)) \in {-1, 1}
  <2>1. CASE b = L
    BY <1>11, <2>1
  <2>2. CASE b # L
    <3>1. b < L /\ b + 1 \in (b + 1)..L /\ b + 1 \in b..L /\ b + 1 \in 2..L
      BY <1>1, <2>2
    <3>2. Bal(g, path[b + 1].x) = 0 /\ path[b + 1].x \in Passed(path, b) /\ path[b + 1].x \in Key
      BY <1>2, <3>1 DEF Passed, L
    <3>3. Bal(h, path[b + 1].x) \in {-1, 1}
      BY <3>2 DEF Sign
    <3> QED
      BY <1>11, <3>1, <3>3
  <2> QED
    BY <2>1, <2>2
<1>13. RaisedBelow(g, ht, h, ht2, bp, d)
  BY <1>6, <1>10, <1>11, <1>12 DEF RaisedBelow
<1> QED
  BY <1>13

-----------------------------------------------------------------------------
(***************************************************************************)
(* The subtree in a place is turned: what it is, and what is not changed.  *)
(***************************************************************************)
\* The subtree of p in the place "at" is rebuilt to height n; beside it nothing
\* is changed.
Regrown(g, ht, sub, h, ht2, at, p, n) ==
  /\ ht2[Kid(h, at.x, at.d)] = n
  /\ \A x \in Key \cup {Root} : x \notin sub[p] =>
       /\ Bal(h, x) = Bal(g, x)
       /\ \A e \in 0..1 : x # at.x \/ e # at.d => Kid(h, x, e) = Kid(g, x, e)
  /\ \A x \in Child : x \notin sub[p] => ht2[x] = ht[x]
  /\ Siz(h, Root) = Siz(g, Root)

\* x is as balanced as it says, but for its child e, which is one lower.
Sunk(g, ht, x, e) ==
  /\ Above(ht[x], ht[Kid(g, x, e)] + 1, ht[Kid(g, x, 1 - e)])
  /\ Leans(Bal(g, x), e, ht[Kid(g, x, e)] + 1, ht[Kid(g, x, 1 - e)])
  /\ Bal(g, x) \in -1..1

LEMMA BesidePlace ==
  ASSUME NEW g, NEW up, NEW sub, Structure(g, up, sub), NEW at \in Steps,
         NEW p \in Key, Kid(g, at.x, at.d) = p
  PROVE  /\ at.x \in Key \cup {Root} /\ at.d \in 0..1 /\ 1 - at.d \in 0..1 /\ 1 - at.d # at.d
         /\ at.x \notin sub[p] /\ p \in sub[p] /\ Null \notin sub[p] /\ Root \notin sub[p]
         /\ at.x \in Key => Kid(g, at.x, 1 - at.d) \in Child \ sub[p]
<1>1. at.x \in Key \cup {Root} /\ at.d \in 0..1
  BY DEF Steps
<1>2. 1 - at.d \in 0..1 /\ 1 - at.d # at.d
  BY <1>1
<1>3. p \in sub[p] /\ sub[p] \subseteq Key
  BY KidsAre
<1>4. at.x \notin sub[p] /\ Null \notin sub[p] /\ Root \notin sub[p]
  BY <1>1, <1>3, KidsAre, KeysAre
<1>5. ASSUME at.x \in Key, Kid(g, at.x, 1 - at.d) \in sub[p]
      PROVE  FALSE
  <2> DEFINE c == Kid(g, at.x, 1 - at.d)
  <2>1. c \in Key /\ c \in sub[c]
    BY <1>3, <1>5, KidsAre
  <2>2. Beyond(at.x, c, at.d) /\ Beyond(at.x, c, 1 - at.d)
    BY <1>1, <1>2, <1>5, <2>1 DEF Structure
  <2>3. at.x \in Int /\ c \in Int
    BY <1>5, <2>1, KeysAre
  <2>4. (at.d = 0 /\ 1 - at.d = 1) \/ (at.d = 1 /\ 1 - at.d = 0)
    BY <1>1
  <2> HIDE DEF c
  <2> QED
    BY <2>2, <2>3, <2>4 DEF Beyond
<1> QED
  BY <1>1, <1>2, <1>3, <1>4, <1>5, KidsAre

LEMMA PlaceTaken ==
  ASSUME NEW g, NEW up, NEW sub, Structure(g, up, sub), NEW at \in Steps,
         NEW p \in Key, Kid(g, at.x, at.d) = p, at.x # Root,
         NEW ht \in [Child -> Nat], BalancedAt(g, ht, at.x),
         NEW h, NEW ht2, NEW n, Regrown(g, ht, sub, h, ht2, at, p, n)
  PROVE  /\ n = ht[p] => BalancedAt(h, ht2, at.x)
         /\ n + 1 = ht[p] => Sunk(h, ht2, at.x, at.d)
<1>1. /\ at.x \in Key /\ at.d \in 0..1 /\ 1 - at.d \in 0..1 /\ 1 - at.d # at.d
      /\ at.x \notin sub[p] /\ Kid(g, at.x, 1 - at.d) \in Child \ sub[p]
  BY BesidePlace
<1>2. /\ Kid(h, at.x, 1 - at.d) = Kid(g, at.x, 1 - at.d) /\ Bal(h, at.x) = Bal(g, at.x)
      /\ ht2[at.x] = ht[at.x] /\ ht2[Kid(h, at.x, at.d)] = n
      /\ ht2[Kid(h, at.x, 1 - at.d)] = ht[Kid(g, at.x, 1 - at.d)]
  BY <1>1 DEF Regrown, Child
<1>3. /\ Above(ht[at.x], ht[p], ht[Kid(g, at.x, 1 - at.d)])
      /\ Leans(Bal(g, at.x), at.d, ht[p], ht[Kid(g, at.x, 1 - at.d)])
      /\ Bal(g, at.x) \in -1..1
  BY <1>1, BalancedAtIs
<1>4. n = ht[p] => BalancedAt(h, ht2, at.x)
  BY <1>1, <1>2, <1>3, BalancedAtIs
<1>5. n + 1 = ht[p] => Sunk(h, ht2, at.x, at.d)
  BY <1>2, <1>3 DEF Sunk
<1> QED
  BY <1>4, <1>5

\* how a rotation leaves p and q balanced, whose child q was balanced as bal
SingleTurn(bal, dir, bq, bp, l, n) ==
  \/ bal = -Sign(dir) /\ bp = 0 /\ bq = 0 /\ n = l + 2
  \/ bal = 0 /\ bp = -Sign(dir) /\ bq = Sign(dir) /\ n = l + 3

LEMMA TurnRegrows ==
  ASSUME NEW g, NEW up, NEW sub, Structure(g, up, sub),
         NEW p \in Key, NEW dir \in 0..1, NEW at \in Steps, Kid(g, at.x, at.d) = p,
         NEW q, q = Kid(g, p, 1 - dir), q # Null,
         NEW ht, Balanced(g, ht, {p}), NEW l, l = ht[Kid(g, p, dir)], ht[q] = l + 2,
         NEW bq \in Int, NEW bp \in Int, NEW n \in Nat, SingleTurn(Bal(g, q), dir, bq, bp, l, n),
         NEW h, h = RotatedOnce(g, p, dir, q, bq, bp, at)
  PROVE  \E up2, sub2, ht2 :
           /\ Structure(h, up2, sub2) /\ sub2[Kid(h, Root, 0)] = sub[Kid(g, Root, 0)]
           /\ Balanced(h, ht2, {at.x}) /\ Regrown(g, ht, sub, h, ht2, at, p, n)
<1>1. /\ Turned(g, h, at.x, at.d, p, dir)
      /\ Bal(h, p) = bp /\ Bal(h, q) = bq
      /\ \A x \in Key \cup {Root} : x # p => (x # q => Bal(h, x) = Bal(g, x))
      /\ Siz(h, Root) = Siz(g, Root)
  BY Rotate1Turns
<1>2. at.x \in Key \cup {Root} /\ at.d \in 0..1 /\ 1 - dir \in 0..1
  BY DEF Steps
<1>3. l \in Nat
  BY KidsAre DEF Balanced
<1>4. PICK up2, sub2 : /\ Structure(h, up2, sub2)
                       /\ sub2[Kid(h, Root, 0)] = sub[Kid(g, Root, 0)]
  BY <1>1, <1>2, TurnKeepsStructure
<1>5. PICK m \in Nat : \/ Bal(g, q) = -Sign(dir) /\ bp = 0 /\ bq = 0 /\ m = l + 1 /\ n = l + 2
                       \/ Bal(g, q) = 0 /\ bp = -Sign(dir) /\ bq = Sign(dir) /\ m = l + 2 /\ n = l + 3
  <2>1. l + 1 \in Nat /\ l + 2 \in Nat
    BY <1>3
  <2> QED
    BY <2>1 DEF SingleTurn
<1> DEFINE ht2 == TurnedHeights(ht, p, m, q, n)
<1>6. Balanced(h, ht2, {at.x})
  <2>1. PICK a \in Key \cup {Root}, b \in 0..1 : a = at.x /\ b = at.d
    BY <1>2
  <2>2. Kid(g, a, b) = p /\ Turned(g, h, a, b, p, dir)
    BY <1>1, <2>1
  <2>3. \A x \in Key : x # p => (x # q => Bal(h, x) = Bal(g, x))
    BY <1>1
  <2>4. \/ /\ Bal(g, q) = -Sign(dir) /\ Bal(h, p) = 0 /\ Bal(h, q) = 0
           /\ m = l + 1 /\ n = l + 2
        \/ /\ Bal(g, q) = 0 /\ Bal(h, p) = -Sign(dir) /\ Bal(h, q) = Sign(dir)
           /\ m = l + 2 /\ n = l + 3
    BY <1>1, <1>5
  <2>5. Balanced(h, TurnedHeights(ht, p, m, q, n), {a})
    BY <2>2, <2>3, <2>4, TurnBalances
  <2> QED
    BY <2>1, <2>5
<1>7. q \in Key /\ p # q /\ at.x # p /\ at.x # q
  BY <1>2, TurnHasThree
<1>8. p \in sub[p] /\ q \in sub[p]
  <2>1. q \in sub[q] /\ sub[q] \subseteq sub[p] /\ p \in sub[p]
    BY <1>2, <1>7, KidsAre
  <2> QED
    BY <2>1
<1>9. ht \in [Child -> Nat]
  BY DEF Balanced
<1>10. ht2[q] = n /\ \A x \in Child : x # p => (x # q => ht2[x] = ht[x])
  BY <1>7, <1>9 DEF Child, TurnedHeights
<1> HIDE DEF ht2
<1>11. Kid(h, at.x, at.d) = q
  BY <1>1, <1>2, <1>7 DEF Turned
<1>12. ASSUME NEW x \in Key \cup {Root}, x \notin sub[p]
       PROVE  /\ Bal(h, x) = Bal(g, x)
              /\ \A e \in 0..1 : x # at.x \/ e # at.d => Kid(h, x, e) = Kid(g, x, e)
  <2>1. x # p /\ x # q
    BY <1>8, <1>12
  <2> QED
    BY <1>1, <2>1 DEF Turned
<1>13. \A x \in Child : x \notin sub[p] => ht2[x] = ht[x]
  BY <1>8, <1>10
<1>14. Regrown(g, ht, sub, h, ht2, at, p, n)
  BY <1>1, <1>10, <1>11, <1>12, <1>13 DEF Regrown
<1> QED
  BY <1>4, <1>6, <1>14

LEMMA DoubleTurnRegrows ==
  ASSUME NEW g, NEW up, NEW sub, Structure(g, up, sub),
         NEW p \in Key, NEW dir \in 0..1, NEW at \in Steps, Kid(g, at.x, at.d) = p,
         NEW q, q = Kid(g, p, 1 - dir), q # Null,
         NEW ht, Balanced(g, ht, {p}), NEW l, l = ht[Kid(g, p, dir)], ht[q] = l + 2,
         Bal(g, q) = Sign(dir),
         NEW h, h = Link(Rotate2(g, p, dir), at, Kid(g, q, dir))
  PROVE  \E up2, sub2, ht2 :
           /\ Structure(h, up2, sub2) /\ sub2[Kid(h, Root, 0)] = sub[Kid(g, Root, 0)]
           /\ Balanced(h, ht2, {at.x}) /\ Regrown(g, ht, sub, h, ht2, at, p, l + 2)
<1> DEFINE r == Kid(g, q, dir)
           side == IF dir = 0 THEN 1 ELSE -1
<1>1. at.x \in Key \cup {Root} /\ at.d \in 0..1 /\ 1 - dir \in 0..1
  BY DEF Steps
<1>2. q \in Key /\ p # q /\ at.x # p /\ at.x # q /\ r \in Child
  BY <1>1, TurnHasThree
<1>3. ht \in [Child -> Nat] /\ ht[Null] = 0 /\ BalancedAt(g, ht, q) /\ l \in Nat
  BY <1>2, KidsAre DEF Balanced
<1>4. ht[r] = l + 1 /\ r \in Key
  <2>1. /\ Above(ht[q], ht[r], ht[Kid(g, q, 1 - dir)])
        /\ Leans(Bal(g, q), dir, ht[r], ht[Kid(g, q, 1 - dir)])
    BY <1>3, BalancedAtIs
  <2>2. ht[r] \in Nat /\ ht[Kid(g, q, 1 - dir)] \in Nat
    BY <1>1, <1>2, <1>3, KidsAre
  <2> HIDE DEF r
  <2>3. ht[r] = ht[Kid(g, q, 1 - dir)] + 1
    BY <2>1, <2>2 DEF Leans, Sign
  <2>4. ht[r] = l + 1
    BY <1>3, <2>1, <2>2, <2>3 DEF Above
  <2>5. r # Null
    BY <1>3, <2>4
  <2> QED
    BY <1>2, <2>4, <2>5 DEF Child, r
<1>5. r # Null
  BY <1>4, KeysAre
<1>6. PICK bq \in Int, bp \in Int :
        /\ Balance2(Bal(g, r), side) = <<bq, bp>>
        /\ \/ Bal(g, r) = 0 /\ bq = 0 /\ bp = 0
           \/ Bal(g, r) = -Sign(dir) /\ bq = 0 /\ bp = Sign(dir)
           \/ Bal(g, r) = Sign(dir) /\ bq = -Sign(dir) /\ bp = 0
  <2>1. Bal(g, r) \in -1..1
    <3>1. r # p
      BY <1>1, TurnHasThree
    <3> QED
      BY <1>4, <3>1 DEF Balanced, BalancedAt
  <2>2. (side = 1 /\ Sign(dir) = -1) \/ (side = -1 /\ Sign(dir) = 1)
    BY DEF Sign
  <2> HIDE DEF side, r
  <2>3. \/ Bal(g, r) = 0 /\ Balance2(Bal(g, r), side) = <<0, 0>>
        \/ Bal(g, r) = -Sign(dir) /\ Balance2(Bal(g, r), side) = <<0, Sign(dir)>>
        \/ Bal(g, r) = Sign(dir) /\ Balance2(Bal(g, r), side) = <<-Sign(dir), 0>>
    BY <2>1, <2>2 DEF Balance2
  <2>4. Sign(dir) \in Int /\ -Sign(dir) \in Int /\ 0 \in Int
    BY <2>2
  <2> HIDE DEF Sign
  <2> QED
    BY <2>3, <2>4
<1> HIDE DEF r, side
<1>7. PICK k : /\ Turned(g, k, p, 1 - dir, q, 1 - dir) /\ Turned(k, h, at.x, at.d, p, dir)
               /\ Bal(h, p) = bp /\ Bal(h, q) = bq /\ Bal(h, r) = 0
               /\ \A x \in Key \cup {Root} : x # p => (x # q => (x # r => Bal(h, x) = Bal(g, x)))
               /\ Siz(h, Root) = Siz(g, Root)
  BY <1>5, <1>6, Rotate2Turns DEF r, side
<1>8. /\ p # r /\ q # r /\ at.x # r
      /\ Kid(k, at.x, at.d) = p /\ Kid(k, p, 1 - dir) = r
      /\ Kid(h, r, dir) = p /\ Kid(h, r, 1 - dir) = q
      /\ \A x \in Key \cup {Root}, e \in 0..1 :
           x # p => (x # q => (x # r => (x # at.x \/ e # at.d => Kid(h, x, e) = Kid(g, x, e))))
  BY <1>1, <1>5, <1>7, DoubleTurnKids DEF r
<1>9. PICK up1, sub1 : /\ Structure(k, up1, sub1)
                       /\ sub1[Kid(k, Root, 0)] = sub[Kid(g, Root, 0)]
  <2>1. Kid(g, p, 1 - dir) = q /\ Kid(g, q, 1 - (1 - dir)) # Null /\ p \in Key \cup {Root}
    <3>1. 1 - (1 - dir) = dir
      OBVIOUS
    <3> QED
      BY <1>5, <3>1 DEF r
  <2> QED
    BY <1>1, <1>2, <1>7, <2>1, TurnKeepsStructure
<1>10. PICK up2, sub2 : /\ Structure(h, up2, sub2)
                        /\ sub2[Kid(h, Root, 0)] = sub1[Kid(k, Root, 0)]
  BY <1>1, <1>5, <1>7, <1>8, <1>9, TurnKeepsStructure
<1> DEFINE ht2 == Turned2Heights(ht, p, q, r, l + 1)
<1>11. Balanced(h, ht2, {at.x})
  <2>1. PICK a \in Key \cup {Root}, b \in 0..1 : a = at.x /\ b = at.d
    BY <1>1
  <2>2. Kid(g, a, b) = p /\ Turned(k, h, a, b, p, dir)
    BY <1>7, <2>1
  <2>3. \A x \in Key : x # p => (x # q => (x # r => Bal(h, x) = Bal(g, x)))
    BY <1>7
  <2>4. \/ Bal(g, r) = 0 /\ Bal(h, q) = 0 /\ Bal(h, p) = 0
        \/ Bal(g, r) = -Sign(dir) /\ Bal(h, q) = 0 /\ Bal(h, p) = Sign(dir)
        \/ Bal(g, r) = Sign(dir) /\ Bal(h, q) = -Sign(dir) /\ Bal(h, p) = 0
    BY <1>6, <1>7
  <2>5. r = Kid(g, q, dir) /\ Bal(h, r) = 0 /\ Turned(g, k, p, 1 - dir, q, 1 - dir)
    BY <1>7 DEF r
  <2>6. Balanced(h, Turned2Heights(ht, p, q, r, l + 1), {a})
    BY <1>5, <2>2, <2>3, <2>4, <2>5, DoubleTurnBalances
  <2> QED
    BY <2>1, <2>6
<1>12. p \in sub[p] /\ q \in sub[p] /\ r \in sub[p]
  <2>1. q \in sub[q] /\ sub[q] \subseteq sub[p] /\ p \in sub[p] /\ r \in sub[r] /\ sub[r] \subseteq sub[q]
    BY <1>1, <1>2, <1>4, KidsAre DEF r
  <2> QED
    BY <2>1
<1>13. ht2[r] = l + 2 /\ \A x \in Child : x # p => (x # q => (x # r => ht2[x] = ht[x]))
  BY <1>2, <1>3, <1>4, <1>8 DEF Child, Turned2Heights
<1> HIDE DEF ht2
<1>14. Kid(h, at.x, at.d) = r
  BY <1>1, <1>2, <1>7, <1>8 DEF Turned
<1>15. ASSUME NEW x \in Key \cup {Root}, x \notin sub[p]
       PROVE  /\ Bal(h, x) = Bal(g, x)
              /\ \A e \in 0..1 : x # at.x \/ e # at.d => Kid(h, x, e) = Kid(g, x, e)
  <2>1. x # p /\ x # q /\ x # r
    BY <1>12, <1>15
  <2> QED
    BY <1>7, <1>8, <2>1
<1>16. \A x \in Child : x \notin sub[p] => ht2[x] = ht[x]
  BY <1>12, <1>13
<1>17. Regrown(g, ht, sub, h, ht2, at, p, l + 2)
  BY <1>7, <1>13, <1>14, <1>15, <1>16 DEF Regrown
<1> QED
  BY <1>9, <1>10, <1>11, <1>17

-----------------------------------------------------------------------------
(***************************************************************************)
(* Insertion.                                                              *)
(***************************************************************************)
LEMMA OutsideIsBare ==
  ASSUME NEW g, NEW up, NEW sub, Structure(g, up, sub), NEW ht, Balanced(g, ht, {}),
         NEW k \in Key, k \notin sub[Kid(g, Root, 0)]
  PROVE  [g EXCEPT ![k] = Bare] = g /\ g[k] = Bare
<1>1. sub[k] = {k} /\ Kid(g, k, 0) = Null /\ Kid(g, k, 1) = Null
  BY TreeIs
<1>2. g \in [Key \cup {Root} -> [p : [0..1 -> Child], balance : Int, size : Int]]
  BY DEF Structure, Heads
<1>3. g[k] \in [p : [0..1 -> Child], balance : Int, size : Int] /\ g[k].p \in [0..1 -> Child]
  BY <1>2
<1>4. g[k].size = 1
  <2>1. Cardinality({k}) = 1
    BY FS_Singleton
  <2> QED
    BY <1>1, <2>1 DEF Structure, Siz
<1>5. g[k].balance = 0
  <2>1. BalancedAt(g, ht, k) /\ ht[Null] = 0
    BY DEF Balanced
  <2> QED
    BY <1>1, <2>1 DEF BalancedAt, Bal
<1>6. g[k].p = [d \in 0..1 |-> Null]
  <2>1. \A d \in 0..1 : g[k].p[d] = Null
    BY <1>1 DEF Kid
  <2> QED
    BY <1>3, <2>1
<1>7. g[k] = Bare
  BY <1>3, <1>4, <1>5, <1>6 DEF Bare
<1> QED
  BY <1>2, <1>7

\* the fields of the nodes after the leaf is linked and the path is brought up
\* to date
LEMMA InsertedIs ==
  ASSUME NEW g \in Heads, NEW k \in Key, [g EXCEPT ![k] = Bare] = g,
         NEW path, NEW at \in Steps, at = Last(path), NEW b
  PROVE  LET h == Inserted(g, path, b, k)
         IN  /\ h \in Heads
             /\ \A x \in Key \cup {Root}, e \in 0..1 :
                  Kid(h, x, e) = IF x = at.x /\ e = at.d THEN k ELSE Kid(g, x, e)
             /\ \A x \in Key \cup {Root} :
                  /\ Bal(h, x) = IF x \in Passed(path, b) THEN Bal(g, x) + Sign(Dir(k, x)) ELSE Bal(g, x)
                  /\ Siz(h, x) = IF x \in Passed(path, 2) THEN Siz(g, x) + 1 ELSE Siz(g, x)
<1> DEFINE l == SetKid(g, at.x, at.d, k)
           bal(x) == IF x \in Passed(path, b) THEN l[x].balance + Sign(Dir(k, x)) ELSE l[x].balance
           siz(x) == IF x \in Passed(path, 2) THEN l[x].size + 1 ELSE l[x].size
           h == [x \in Key \cup {Root} |-> [p |-> l[x].p, balance |-> bal(x), size |-> siz(x)]]
<1>1. at.x \in Key \cup {Root} /\ at.d \in 0..1 /\ k \in Child
  BY DEF Steps, Child
<1>2. KidChanged(g, l, at.x, at.d, k)
  BY <1>1, KidChanges
<1>3. Link([g EXCEPT ![k] = Bare], Last(path), k) = l
  BY DEF Link, SetKid
<1>4. DOMAIN g = Key \cup {Root}
  BY DEF Heads
<1>5. Inserted(g, path, b, k) = h
  BY <1>3, <1>4, Zenon DEF Inserted
<1>6. l \in [Key \cup {Root} -> [p : [0..1 -> Child], balance : Int, size : Int]]
  BY <1>2 DEF KidChanged, Heads
<1>7. /\ \A x \in Key \cup {Root}, e \in 0..1 :
           Kid(l, x, e) = IF x = at.x /\ e = at.d THEN k ELSE Kid(g, x, e)
      /\ \A x \in Key \cup {Root} : Bal(l, x) = Bal(g, x) /\ Siz(l, x) = Siz(g, x)
  BY <1>2 DEF KidChanged
<1> HIDE DEF l
<1>8. \A x \in Key \cup {Root} : Sign(Dir(k, x)) \in Int
  BY DEF Sign
<1>9. \A x \in Key \cup {Root} : l[x].p \in [0..1 -> Child] /\ bal(x) \in Int /\ siz(x) \in Int
  BY <1>6, <1>8
<1>10. \A x \in Key \cup {Root} :
         bal(x) = (IF x \in Passed(path, b) THEN Bal(g, x) + Sign(Dir(k, x)) ELSE Bal(g, x))
         /\ siz(x) = (IF x \in Passed(path, 2) THEN Siz(g, x) + 1 ELSE Siz(g, x))
  BY <1>7 DEF Bal, Siz
<1> HIDE DEF bal, siz
<1>11. h \in Heads
  BY <1>9 DEF Heads
<1>12. \A x \in Key \cup {Root}, e \in 0..1 : Kid(h, x, e) = Kid(l, x, e)
  BY DEF Kid
<1>13. \A x \in Key \cup {Root} : Bal(h, x) = bal(x) /\ Siz(h, x) = siz(x)
  BY DEF Bal, Siz
<1> HIDE DEF h
<1> QED
  BY <1>5, <1>7, <1>10, <1>11, <1>12, <1>13

\* the place of the lowest unbalanced node, or of the root
LEMMA LowestUnbalancedIs ==
  ASSUME NEW g, NEW path, IsPath(g, path), Len(path) # 1
  PROVE  LET b == LowestUnbalanced(g, path)
         IN  /\ b \in 2..Len(path)
             /\ b = 2 \/ Bal(g, path[b].x) # 0
             /\ \A n \in (b + 1)..Len(path) : Bal(g, path[n].x) = 0
<1> DEFINE L == Len(path)
           S == {n \in 2..L : n = 2 \/ g[path[n].x].balance # 0}
           T == {m \in Nat : \E n \in S : m = L - n}
           b == LowestUnbalanced(g, path)
<1>1. L \in Nat /\ L >= 1 /\ L # 1
  BY DEF IsPath
<1> HIDE DEF L
<1>2. L >= 2
  BY <1>1
<1>3. 2 \in S /\ \A n \in S : n \in 2..L
  BY <1>1, <1>2
<1>4. L - 2 \in T
  BY <1>1, <1>2, <1>3
<1>5. PICK t \in T : \A s \in T : t <= s
  <2> HIDE DEF T
  <2>1. T \in SUBSET Nat
    BY DEF T
  <2> QED
    BY <1>4, <2>1, LeastNatural
<1>6. PICK n \in S : t = L - n
  OBVIOUS
<1>7. \A m \in S : m <= n
  <2> SUFFICES ASSUME NEW m \in S PROVE m <= n
    OBVIOUS
  <2>1. L - m \in T
    BY <1>1, <1>3
  <2> QED
    BY <1>1, <1>3, <1>5, <1>6, <2>1
<1>8. b = CHOOSE c \in S : \A m \in S : m <= c
  BY DEF LowestUnbalanced, L
<1> HIDE DEF S, b
<1>9. b \in S /\ \A m \in S : m <= b
  BY <1>7, <1>8
<1>10. b \in 2..L /\ (b = 2 \/ Bal(g, path[b].x) # 0)
  BY <1>9 DEF S, Bal
<1>11. ASSUME NEW n2 \in (b + 1)..L
       PROVE  Bal(g, path[n2].x) = 0
  <2>1. n2 \in 2..L /\ ~ (n2 <= b)
    BY <1>1, <1>10
  <2>2. n2 \notin S
    BY <1>9, <2>1
  <2> QED
    BY <2>1, <2>2 DEF S, Bal
<1> QED
  BY <1>10, <1>11 DEF L, b

-----------------------------------------------------------------------------
\* g is an AVL tree of the nodes N.
IsTree(g, N) ==
  \E up, sub, ht :
    /\ Structure(g, up, sub) /\ N = sub[Kid(g, Root, 0)]
    /\ Balanced(g, ht, {})
    /\ Bal(g, Root) = 0 /\ Siz(g, Root) = 1

\* A place whose subtree is as high as before.
LEMMA RegrownIsTree ==
  ASSUME NEW g, NEW up, NEW sub, Structure(g, up, sub), NEW N, N = sub[Kid(g, Root, 0)],
         Bal(g, Root) = 0, Siz(g, Root) = 1,
         NEW at \in Steps, NEW p \in Key, Kid(g, at.x, at.d) = p,
         NEW ht, Balanced(g, ht, {p}),
         NEW h, NEW up2, NEW sub2, Structure(h, up2, sub2), N = sub2[Kid(h, Root, 0)],
         NEW ht2, Balanced(h, ht2, {at.x}), Regrown(g, ht, sub, h, ht2, at, p, ht[p])
  PROVE  IsTree(h, N)
<1>1. at.x \in Key \cup {Root} /\ at.x \notin sub[p] /\ p \in sub[p] /\ Root \notin sub[p]
  BY BesidePlace
<1>2. Bal(h, Root) = 0 /\ Siz(h, Root) = 1
  BY <1>1 DEF Regrown
<1>3. Balanced(h, ht2, {})
  <2>1. CASE at.x = Root
    BY <2>1, KeysAre DEF Balanced
  <2>2. CASE at.x # Root
    <3>1. BalancedAt(g, ht, at.x) /\ ht \in [Child -> Nat]
      BY <1>1, <2>2 DEF Balanced
    <3>2. BalancedAt(h, ht2, at.x)
      BY <2>2, <3>1, PlaceTaken
    <3> QED
      BY <3>2 DEF Balanced
  <2> QED
    BY <2>1, <2>2
<1> QED
  BY <1>2, <1>3 DEF IsTree

\* A node whose children are balanced, given its height.
LEMMA HeightRegrows ==
  ASSUME NEW g, NEW up, NEW sub, Structure(g, up, sub),
         NEW at \in Steps, NEW p \in Key, Kid(g, at.x, at.d) = p,
         NEW ht, Balanced(g, ht, {p}), NEW dir \in 0..1, NEW n \in Nat,
         Above(n, ht[Kid(g, p, dir)], ht[Kid(g, p, 1 - dir)]),
         Leans(Bal(g, p), dir, ht[Kid(g, p, dir)], ht[Kid(g, p, 1 - dir)]),
         Bal(g, p) \in -1..1
  PROVE  \E ht2 : Balanced(g, ht2, {at.x}) /\ Regrown(g, ht, sub, g, ht2, at, p, n)
<1> DEFINE ht2 == [ht EXCEPT ![p] = n]
<1>1. at.x \in Key \cup {Root} /\ at.d \in 0..1 /\ p \in sub[p] /\ at.x # p /\ p # Null
  BY BesidePlace
<1>2. ht \in [Child -> Nat] /\ ht[Null] = 0 /\ p \in Child
  BY DEF Balanced, Child
<1>3. ht2 \in [Child -> Nat] /\ ht2[p] = n /\ \A x \in Child : x # p => ht2[x] = ht[x]
  BY <1>2
<1> HIDE DEF ht2
<1>4. ASSUME NEW x \in Key, NEW e \in 0..1, x # at.x
      PROVE  ht2[Kid(g, x, e)] = ht[Kid(g, x, e)]
  <2>1. Kid(g, x, e) # p
    BY <1>1, <1>4 DEF Structure
  <2> QED
    BY <1>3, <2>1, KidsAre
<1>5. BalancedAt(g, ht2, p)
  <2>1. 1 - dir \in 0..1
    OBVIOUS
  <2>2. /\ ht2[p] = n /\ ht2[Kid(g, p, dir)] = ht[Kid(g, p, dir)]
        /\ ht2[Kid(g, p, 1 - dir)] = ht[Kid(g, p, 1 - dir)]
    BY <1>1, <1>3, <1>4, <2>1
  <2> QED
    BY <2>2, BalancedAtIs
<1>6. ASSUME NEW x \in Key, x # at.x, x # p
      PROVE  BalancedAt(g, ht2, x)
  <2>1. BalancedAt(g, ht, x) /\ ht2[x] = ht[x]
    BY <1>3, <1>6 DEF Balanced, Child
  <2>2. ht2[Kid(g, x, 0)] = ht[Kid(g, x, 0)] /\ ht2[Kid(g, x, 1)] = ht[Kid(g, x, 1)]
    BY <1>4, <1>6
  <2> QED
    BY <2>1, <2>2, StaysBalanced
<1>7. ht2[Null] = 0
  BY <1>1, <1>2, <1>3 DEF Child
<1>8. Balanced(g, ht2, {at.x})
  BY <1>3, <1>5, <1>6, <1>7 DEF Balanced
<1>9. Regrown(g, ht, sub, g, ht2, at, p, n)
  BY <1>1, <1>3 DEF Regrown
<1> QED
  BY <1>8, <1>9

\* A leaf made p too high: one rotation, single or double, is enough.
TurnedBack(g, p, dir, q, at) ==
  IF Bal(g, q) = -Sign(dir) THEN RotatedOnce(g, p, dir, q, 0, 0, at)
  ELSE Link(Rotate2(g, p, dir), at, Kid(g, q, dir))

LEMMA TurnedBackIsTree ==
  ASSUME NEW g, NEW up, NEW sub, Structure(g, up, sub), NEW N, N = sub[Kid(g, Root, 0)],
         Bal(g, Root) = 0, Siz(g, Root) = 1,
         NEW at \in Steps, NEW p \in Key, Kid(g, at.x, at.d) = p,
         NEW dir \in 0..1, NEW q, q = Kid(g, p, 1 - dir), q # Null,
         NEW ht, Balanced(g, ht, {p}), NEW l, l = ht[Kid(g, p, dir)], ht[q] = l + 2,
         ht[p] = l + 2, Bal(g, q) \in {-1, 1}
  PROVE  IsTree(TurnedBack(g, p, dir, q, at), N)
<1> DEFINE h == TurnedBack(g, p, dir, q, at)
<1>1. l \in Nat /\ l + 2 \in Nat
  BY KidsAre DEF Balanced
<1>2. PICK up2, sub2, ht2 :
        /\ Structure(h, up2, sub2) /\ sub2[Kid(h, Root, 0)] = sub[Kid(g, Root, 0)]
        /\ Balanced(h, ht2, {at.x}) /\ Regrown(g, ht, sub, h, ht2, at, p, l + 2)
  <2>1. CASE Bal(g, q) = -Sign(dir)
    <3>1. h = RotatedOnce(g, p, dir, q, 0, 0, at)
      BY <2>1 DEF TurnedBack
    <3> HIDE DEF h
    <3>2. PICK bq \in Int, bp \in Int, n \in Nat : bq = 0 /\ bp = 0 /\ n = l + 2
      BY <1>1
    <3>3. h = RotatedOnce(g, p, dir, q, bq, bp, at)
      BY <3>1, <3>2
    <3>4. SingleTurn(Bal(g, q), dir, bq, bp, l, n)
      BY <2>1, <3>2 DEF SingleTurn
    <3>5. \E up2, sub2, ht2 :
            /\ Structure(h, up2, sub2) /\ sub2[Kid(h, Root, 0)] = sub[Kid(g, Root, 0)]
            /\ Balanced(h, ht2, {at.x}) /\ Regrown(g, ht, sub, h, ht2, at, p, n)
      BY <3>3, <3>4, TurnRegrows
    <3> QED
      BY <3>2, <3>5
  <2>2. CASE Bal(g, q) # -Sign(dir)
    <3>1. h = Link(Rotate2(g, p, dir), at, Kid(g, q, dir))
      BY <2>2 DEF TurnedBack
    <3>2. Bal(g, q) = Sign(dir)
      BY <2>2 DEF Sign
    <3> HIDE DEF h
    <3> QED
      BY <3>1, <3>2, DoubleTurnRegrows
  <2> QED
    BY <2>1, <2>2
<1> HIDE DEF h
<1>3. IsTree(h, N)
  BY <1>2, RegrownIsTree
<1> QED
  BY <1>3 DEF h

\* The search for a key that is not there.
LEMMA PathMisses ==
  ASSUME NEW g, NEW up, NEW sub, Structure(g, up, sub), NEW k \in Key,
         k \notin sub[Kid(g, Root, 0)]
  PROVE  Misses(g, PathTo(g, k), k)
<1>1. Find(g, k) = Null /\ LeadsTo(g, sub, k, PathTo(g, k), Find(g, k))
  BY SearchIs
<1> QED
  BY <1>1 DEF Misses, LeadsTo

\* The first node.
LEMMA FirstInsertKeepsTree ==
  ASSUME NEW g, NEW N, IsTree(g, N), NEW k \in Key, k \notin N, Len(PathTo(g, k)) = 1
  PROVE  IsTree(InsertAbsent(g, k), N \cup {k})
<1> DEFINE path == PathTo(g, k)
           at == path[1]
           h == SetKid(g, Root, 0, k)
<1>1. PICK up, sub, ht : /\ Structure(g, up, sub) /\ N = sub[Kid(g, Root, 0)]
                         /\ Balanced(g, ht, {}) /\ Bal(g, Root) = 0 /\ Siz(g, Root) = 1
  BY DEF IsTree
<1>2. Misses(g, path, k) /\ IsPath(g, path)
  BY <1>1, PathMisses DEF Misses
<1>3. path[1] = [x |-> Root, d |-> 0] /\ path[1].x = Root /\ path[1].d = 0
  BY <1>2 DEF IsPath
<1>4. [g EXCEPT ![k] = Bare] = g /\ g \in Heads
  BY <1>1, OutsideIsBare DEF Structure
<1>5. InsertAbsent(g, k) = h
  <2>1. InsertAbsent(g, k) = Link([g EXCEPT ![k] = Bare], path[1], k)
    BY Zenon DEF InsertAbsent
  <2> HIDE DEF path
  <2>2. InsertAbsent(g, k) = Link(g, path[1], k)
    BY <1>4, <2>1
  <2> QED
    BY <1>3, <2>2 DEF Link, SetKid
<1>6. KidChanged(g, h, Root, 0, k)
  BY <1>4, KidChanges DEF Child
<1> HIDE DEF h
<1>7. Passed(path, 2) = {}
  <2>1. Passed(path, 2) = {path[n].x : n \in 2..Len(path)} /\ Len(path) = 1
    BY DEF Passed
  <2> HIDE DEF path
  <2> QED
    BY <2>1
<1>8. PICK up2, sub2 : Structure(h, up2, sub2) /\ sub2[Kid(h, Root, 0)] = N \cup {k}
  <2>1. LeafAt(g, h, path, k, 2)
    BY <1>3, <1>6, <1>7 DEF KidChanged, LeafAt
  <2> HIDE DEF path
  <2> QED
    BY <1>1, <1>2, <2>1, LeafKeepsStructure
<1>9. Balanced(h, ht, {})
  <2>1. \A x \in Key, e \in 0..1 : Kid(h, x, e) = Kid(g, x, e)
    BY <1>6, KeysAre DEF KidChanged
  <2>2. \A x \in Key : Bal(h, x) = Bal(g, x)
    BY <1>6 DEF KidChanged
  <2>3. \A x \in Key : BalancedAt(g, ht, x) => BalancedAt(h, ht, x)
    BY <2>1, <2>2, StaysBalanced
  <2> QED
    BY <1>1, <2>3 DEF Balanced
<1>10. Bal(h, Root) = 0 /\ Siz(h, Root) = 1
  BY <1>1, <1>6 DEF KidChanged
<1> QED
  BY <1>5, <1>8, <1>9, <1>10 DEF IsTree

\* The others.
LEMMA NextInsertKeepsTree ==
  ASSUME NEW g, NEW N, IsTree(g, N), NEW k \in Key, k \notin N, Len(PathTo(g, k)) # 1
  PROVE  IsTree(InsertAbsent(g, k), N \cup {k})
<1> DEFINE path == PathTo(g, k)
           L == Len(path)
           at == path[L]
           b == LowestUnbalanced(g, path)
           bp == path[b].x
           d == path[b].d
           h == Inserted(g, path, b, k)
           place == path[b - 1]
           M == N \cup {k}
<1>1. PICK up, sub, ht : /\ Structure(g, up, sub) /\ N = sub[Kid(g, Root, 0)]
                         /\ Balanced(g, ht, {}) /\ Bal(g, Root) = 0 /\ Siz(g, Root) = 1
  BY DEF IsTree
<1>2. /\ Misses(g, path, k) /\ IsPath(g, path) /\ End(g, path) = Null
      /\ \A n \in 2..L : path[n].d = Dir(k, path[n].x)
  BY <1>1, PathMisses DEF Misses
<1>3. /\ b \in 2..L
      /\ b = 2 \/ Bal(g, bp) # 0
      /\ \A n \in (b + 1)..L : Bal(g, path[n].x) = 0
  BY <1>2, LowestUnbalancedIs
<1>4. [g EXCEPT ![k] = Bare] = g /\ g \in Heads
  BY <1>1, OutsideIsBare DEF Structure
<1>5. L \in Nat /\ L # 1 /\ L >= 1 /\ path \in Seq(Steps) /\ Last(path) = at
  BY <1>2 DEF IsPath, Last
<1> HIDE DEF path, L, b
<1>6. at \in Steps
  BY <1>5 DEF L
<1>7. /\ h \in Heads
      /\ \A x \in Key \cup {Root}, e \in 0..1 :
           Kid(h, x, e) = IF x = at.x /\ e = at.d THEN k ELSE Kid(g, x, e)
      /\ \A x \in Key \cup {Root} :
           /\ Bal(h, x) = IF x \in Passed(path, b) THEN Bal(g, x) + Sign(Dir(k, x)) ELSE Bal(g, x)
           /\ Siz(h, x) = IF x \in Passed(path, 2) THEN Siz(g, x) + 1 ELSE Siz(g, x)
  BY <1>4, <1>5, <1>6, InsertedIs
<1>a. LeafAt(g, h, path, k, b)
  BY <1>7 DEF LeafAt, L
<1>8. /\ b - 1 \in 1..L /\ b \in 1..L /\ place \in Steps /\ place.x \in Key \cup {Root}
      /\ bp \in Key /\ d \in 0..1 /\ d = Dir(k, bp) /\ bp \in N
      /\ Kid(g, place.x, place.d) = bp
      /\ place.x = Root <=> b = 2
      /\ bp # at.x \/ b = L
  <2>1. b - 1 \in 1..L /\ b \in 1..L /\ L \in 1..L /\ b - 1 \in 1..(L - 1) /\ (b - 1) + 1 = b /\ (b - 1 = 1 <=> b = 2)
    BY <1>3, <1>5
  <2>2. /\ place \in Steps /\ place.x \in Key \cup {Root}
        /\ bp \in Key /\ d \in 0..1 /\ bp \in N
        /\ Kid(g, place.x, place.d) = bp
        /\ place.x = Root <=> b = 2
    BY <1>1, <1>2, <1>3, <2>1, OnPath DEF L
  <2>3. bp # at.x \/ b = L
    BY <1>2, <2>1 DEF IsPath, L
  <2> QED
    BY <1>2, <1>3, <2>1, <2>2, <2>3
<1> HIDE DEF h
<1>9. Bal(h, bp) = Bal(g, bp) + Sign(d) /\ Bal(h, Root) = 0 /\ Siz(h, Root) = 1
  <2>1. bp \in Passed(path, b)
    BY <1>3, <1>5 DEF Passed, L
  <2>2. Root \notin Passed(path, b) /\ Root \notin Passed(path, 2)
    <3>1. \A n \in 2..L : path[n].x # Root
      BY <1>2, KeysAre DEF IsPath, L
    <3>2. \A n \in b..L : n \in 2..L
      BY <1>3, <1>5
    <3> QED
      BY <3>1, <3>2 DEF Passed, L
  <2> QED
    BY <1>1, <1>7, <1>8, <2>1, <2>2
<1>10. PICK up2, sub2 : Structure(h, up2, sub2) /\ sub2[Kid(h, Root, 0)] = M
  BY <1>1, <1>2, <1>a, LeafKeepsStructure
<1>b. PICK ht2 : RaisedBelow(g, ht, h, ht2, bp, d)
  <2>1. b \in 2..Len(path) /\ \A n \in (b + 1)..Len(path) : Bal(g, path[n].x) = 0
    BY <1>3 DEF L
  <2> QED
    BY <1>1, <1>2, <1>a, <2>1, LeafRaises
<1>11. /\ Balanced(h, ht2, {bp}) /\ ht2[bp] = ht[bp]
       /\ ht2[Kid(h, bp, d)] = ht[Kid(g, bp, d)] + 1
       /\ ht2[Kid(h, bp, 1 - d)] = ht[Kid(g, bp, 1 - d)]
       /\ Kid(h, bp, 1 - d) = Kid(g, bp, 1 - d)
       /\ \/ Kid(g, bp, d) = Null
          \/ Kid(h, bp, d) = Kid(g, bp, d) /\ Bal(h, Kid(h, bp, d)) \in {-1, 1}
  BY <1>b DEF RaisedBelow
<1>12. /\ Above(ht[bp], ht[Kid(g, bp, d)], ht[Kid(g, bp, 1 - d)])
       /\ Leans(Bal(g, bp), d, ht[Kid(g, bp, d)], ht[Kid(g, bp, 1 - d)])
       /\ Bal(g, bp) \in -1..1
       /\ ht[Kid(g, bp, d)] \in Nat /\ ht[Kid(g, bp, 1 - d)] \in Nat /\ ht[bp] \in Nat
  <2>1. BalancedAt(g, ht, bp) /\ ht \in [Child -> Nat]
    BY <1>1, <1>8 DEF Balanced
  <2>2. Kid(g, bp, d) \in Child /\ Kid(g, bp, 1 - d) \in Child /\ bp \in Child
    <3>1. 1 - d \in 0..1
      BY <1>8
    <3> QED
      BY <1>1, <1>8, <3>1, KidsAre DEF Child
  <2> QED
    BY <1>8, <2>1, <2>2, BalancedAtIs
<1>13. Kid(h, place.x, place.d) = bp
  <2>1. ~ (place.x = at.x /\ place.d = at.d)
    <3>1. Kid(g, at.x, at.d) = Null /\ bp # Null
      BY <1>2, <1>8, KeysAre DEF End, L
    <3> QED
      BY <1>8, <3>1
  <2>2. place.d \in 0..1
    BY <1>8 DEF Steps
  <2> QED
    BY <1>7, <1>8, <2>1, <2>2
<1>14. CASE Bal(h, bp) \in -1..1
  <2>1. InsertAbsent(g, k) = h
    BY <1>5, <1>14, Zenon DEF InsertAbsent, h, b, L, path, Bal
  <2>2. CASE Bal(g, bp) = 0
    <3>1. ht2[Kid(h, bp, 1 - d)] \in Nat
      BY <1>11, <1>12
    <3>2. PICK n \in Nat : /\ n = ht2[Kid(h, bp, d)] + 1
                           /\ Above(n, ht2[Kid(h, bp, d)], ht2[Kid(h, bp, 1 - d)])
                           /\ Leans(Bal(h, bp), d, ht2[Kid(h, bp, d)], ht2[Kid(h, bp, 1 - d)])
      <4>1. ht[Kid(g, bp, d)] = ht[Kid(g, bp, 1 - d)]
        BY <1>12, <2>2 DEF Leans
      <4>2. (d = 0 /\ Sign(d) = -1) \/ (d = 1 /\ Sign(d) = 1)
        BY <1>8 DEF Sign
      <4> QED
        BY <1>9, <1>11, <1>12, <2>2, <4>1, <4>2 DEF Above, Leans
    <3>3. PICK ht3 : Balanced(h, ht3, {place.x}) /\ Regrown(h, ht2, sub2, h, ht3, place, bp, n)
      BY <1>8, <1>10, <1>11, <1>13, <1>14, <3>2, HeightRegrows
    <3>4. place.x = Root
      BY <1>3, <1>8, <2>2
    <3>5. Balanced(h, ht3, {})
      BY <3>3, <3>4, KeysAre DEF Balanced
    <3> QED
      BY <1>9, <1>10, <2>1, <3>5 DEF IsTree
  <2>3. CASE Bal(g, bp) # 0
    <3>1. BalancedAt(h, ht2, bp)
      <4>1. (d = 0 /\ Sign(d) = -1) \/ (d = 1 /\ Sign(d) = 1)
        BY <1>8 DEF Sign
      <4>2. ht[Kid(g, bp, d)] + 1 = ht[Kid(g, bp, 1 - d)]
        BY <1>9, <1>12, <1>14, <2>3, <4>1 DEF Leans
      <4>3. ht[bp] = ht[Kid(g, bp, 1 - d)] + 1
        BY <1>12, <4>2 DEF Above
      <4>4. Above(ht2[bp], ht2[Kid(h, bp, d)], ht2[Kid(h, bp, 1 - d)])
        BY <1>11, <1>12, <4>2, <4>3 DEF Above
      <4>5. Leans(Bal(h, bp), d, ht2[Kid(h, bp, d)], ht2[Kid(h, bp, 1 - d)])
        BY <1>9, <1>11, <1>12, <1>14, <2>3, <4>1, <4>2 DEF Leans
      <4> QED
        BY <1>8, <1>14, <4>4, <4>5, BalancedAtIs
    <3>2. Balanced(h, ht2, {})
      BY <1>11, <3>1 DEF Balanced
    <3> QED
      BY <1>9, <1>10, <2>1, <3>2 DEF IsTree
  <2> QED
    BY <2>2, <2>3
<1>15. CASE Bal(h, bp) \notin -1..1
  <2> DEFINE dir == 1 - d
             q == Kid(h, bp, 1 - dir)
             l == ht2[Kid(h, bp, dir)]
  <2>1. /\ dir \in 0..1 /\ 1 - dir = d /\ Sign(dir) = -Sign(d)
        /\ (d = 0 /\ Sign(d) = -1) \/ (d = 1 /\ Sign(d) = 1)
    BY <1>8 DEF Sign
  <2>2. Bal(g, bp) = Sign(d) /\ Bal(h, bp) = 2 * Sign(d)
    BY <1>9, <1>12, <1>15, <2>1
  <2>3. ht[Kid(g, bp, d)] = ht[Kid(g, bp, 1 - d)] + 1
    BY <1>12, <2>1, <2>2 DEF Leans
  <2>4. ht[bp] = ht[Kid(g, bp, 1 - d)] + 2
    BY <1>12, <2>3 DEF Above
  <2>5. ht2[q] = l + 2 /\ ht2[bp] = l + 2
    BY <1>11, <1>12, <2>1, <2>3, <2>4
  <2>6. Kid(g, bp, d) # Null
    BY <1>1, <1>12, <2>3 DEF Balanced
  <2>7. q = Kid(g, bp, d) /\ Bal(h, q) \in {-1, 1} /\ q # Null
    BY <1>11, <2>1, <2>6
  <2>8. (IF Bal(h, bp) < 0 THEN 1 ELSE 0) = dir
    BY <2>1, <2>2
  <2>9. InsertAbsent(g, k) = TurnedBack(h, bp, dir, q, place)
    <3> DEFINE which == IF h[bp].balance < 0 THEN 1 ELSE 0
               q1 == h[bp].p[1 - which]
               r1 == h[q1].p[which]
    <3>1. InsertAbsent(g, k) =
            IF h[q1].balance = -Sign(which)
            THEN Link([Rotate1(h, bp, which) EXCEPT ![q1].balance = 0, ![bp].balance = 0],
                      path[b - 1], q1)
            ELSE Link(Rotate2(h, bp, which), path[b - 1], r1)
      BY <1>5, <1>15, Zenon DEF InsertAbsent, h, b, L, path, Bal
    <3>2. which = dir
      BY <2>8 DEF Bal
    <3>3. q1 = q
      BY <3>2 DEF Kid
    <3> HIDE DEF dir, q, which, q1
    <3> QED
      BY <3>1, <3>2, <3>3 DEF TurnedBack, RotatedOnce, Bal, Kid
  <2> HIDE DEF dir
  <2>10. IsTree(TurnedBack(h, bp, dir, q, place), M)
    <3> HIDE DEF q, l, place, bp
    <3>1. q = Kid(h, bp, 1 - dir) /\ l = ht2[Kid(h, bp, dir)]
      BY DEF q, l
    <3> QED
      BY <1>8, <1>9, <1>10, <1>11, <1>13, <2>1, <2>5, <2>7, <3>1, TurnedBackIsTree
  <2> QED
    BY <2>9, <2>10
<1> QED
  BY <1>14, <1>15

LEMMA InsertKeepsTree ==
  ASSUME NEW g, NEW N, IsTree(g, N), NEW k \in Key, k \notin N
  PROVE  IsTree(InsertAbsent(g, k), N \cup {k})
BY FirstInsertKeepsTree, NextInsertKeepsTree

-----------------------------------------------------------------------------
(***************************************************************************)
(* The way down to the outermost node.                                     *)
(***************************************************************************)
\* What of p's subtree is not below w.p lies on the other side of the last node
\* on the stack.
Descended(g, sub, stack, p, d, w) ==
  LET l == Len(stack)
      m == Len(w.stack)
  IN  /\ m >= l /\ \A n \in 1..l : w.stack[n] = stack[n]
      /\ sub[w.p] \subseteq sub[p]
      /\ Cardinality(sub[w.p]) + (m - l) <= Cardinality(Key)
      /\ m = l => w.p = p
      /\ m > l => /\ w.stack[l + 1] = p /\ w.p = Kid(g, w.stack[m], d)
                  /\ \A y \in sub[p] :
                       y \in sub[w.p] \/ y = w.stack[m] \/ Beyond(w.stack[m], y, 1 - d)
      /\ \A n \in (l + 1)..m : w.stack[n] \in sub[p]
      /\ \A n \in (l + 1)..(m - 1) : w.stack[n + 1] = Kid(g, w.stack[n], d)

Descents(g, sub, stack, p, d) ==
  {w \in [p : Child, stack : Seq(Key)] : Descended(g, sub, stack, p, d, w)}

Descend(g, d, w) ==
  IF w.p = Null THEN w ELSE [p |-> g[w.p].p[d], stack |-> Append(w.stack, w.p)]

LEMMA DescendGoesOn ==
  ASSUME NEW g, NEW up, NEW sub, Structure(g, up, sub), NEW d \in 0..1,
         NEW p \in Child, NEW stack \in Seq(Key), NEW w \in Descents(g, sub, stack, p, d)
  PROVE  /\ Descend(g, d, w) \in Descents(g, sub, stack, p, d)
         /\ w.p = Null => Descend(g, d, w) = w
         /\ w.p # Null => Len(Descend(g, d, w).stack) = Len(w.stack) + 1
<1>1. CASE w.p = Null
  BY <1>1 DEF Descend
<1>2. CASE w.p # Null
  <2> DEFINE x == w.p
             l == Len(stack)
             m == Len(w.stack)
             v == Descend(g, d, w)
  <2>1. x \in Key /\ w.stack \in Seq(Key) /\ Descended(g, sub, stack, p, d, w) /\ l \in Nat /\ m \in Nat
    BY <1>2 DEF Descents, Child
  <2>2. v = [p |-> Kid(g, x, d), stack |-> Append(w.stack, x)]
    BY <1>2 DEF Descend, Kid
  <2>3. v.p = Kid(g, x, d) /\ v.stack = Append(w.stack, x) /\ v.p \in Child
    BY <2>1, <2>2, KidsAre
  <2>4. /\ v.stack \in Seq(Key) /\ Len(v.stack) = m + 1 /\ v.stack[m + 1] = x
        /\ \A n \in 1..m : v.stack[n] = w.stack[n]
    BY <2>1, <2>3
  <2>5. v \in [p : Child, stack : Seq(Key)]
    BY <2>2, <2>3, <2>4
  <2> HIDE DEF v
  <2>6. /\ m >= l /\ \A n \in 1..l : w.stack[n] = stack[n]
        /\ sub[x] \subseteq sub[p]
        /\ Cardinality(sub[x]) + (m - l) <= Cardinality(Key)
        /\ m = l => x = p
        /\ m > l => /\ w.stack[l + 1] = p /\ x = Kid(g, w.stack[m], d)
                    /\ \A y \in sub[p] :
                         y \in sub[x] \/ y = w.stack[m] \/ Beyond(w.stack[m], y, 1 - d)
        /\ \A n \in (l + 1)..m : w.stack[n] \in sub[p]
        /\ \A n \in (l + 1)..(m - 1) : w.stack[n + 1] = Kid(g, w.stack[n], d)
    BY <2>1 DEF Descended
  <2> HIDE DEF l, m
  <2>7. /\ 1 - d \in 0..1 /\ x \in sub[x] /\ sub[Kid(g, x, d)] \subseteq sub[x]
        /\ sub[x] = {x} \cup sub[Kid(g, x, d)] \cup sub[Kid(g, x, 1 - d)]
        /\ sub[p] \subseteq Key
        /\ (d = 0 /\ 1 - d = 1) \/ (d = 1 /\ 1 - d = 0)
    BY <2>1, KidsAre
  <2>8. sub[v.p] \subseteq sub[p]
    BY <2>3, <2>6, <2>7
  <2>9. Cardinality(sub[v.p]) + ((m + 1) - l) <= Cardinality(Key)
    <3>1. Cardinality(sub[x]) = 1 + Cardinality(sub[Kid(g, x, 0)]) + Cardinality(sub[Kid(g, x, 1)])
      BY <2>1, SizeIs
    <3>2. /\ Cardinality(sub[Kid(g, x, 0)]) \in Nat /\ Cardinality(sub[Kid(g, x, 1)]) \in Nat
          /\ Cardinality(Key) \in Nat
      BY <2>1, KidsAre, KeysAre
    <3> QED
      BY <2>1, <2>3, <2>6, <2>7, <3>1, <3>2
  <2>10. m + 1 > l
    BY <2>1, <2>6
  <2>11. v.stack[l + 1] = p
    <3>1. CASE m = l
      BY <2>4, <2>6, <3>1
    <3>2. CASE m # l
      <4>1. m > l /\ l + 1 \in 1..m
        BY <2>1, <2>6, <3>2
      <4> QED
        BY <2>4, <2>6, <4>1
    <3> QED
      BY <3>1, <3>2
  <2>12. ASSUME NEW y \in sub[p], y \notin sub[v.p], y # x
         PROVE  Beyond(x, y, 1 - d)
    <3>1. CASE y \in sub[x]
      <4>1. y \in sub[Kid(g, x, 1 - d)]
        BY <2>3, <2>7, <2>12, <3>1
      <4> QED
        BY <2>1, <2>7, <4>1 DEF Structure
    <3>2. CASE y \notin sub[x]
      <4> DEFINE z == w.stack[m]
      <4>1. m > l
        BY <2>1, <2>6, <3>2
      <4>2. m \in (l + 1)..m
        BY <2>1, <4>1
      <4>3. z \in sub[p] /\ x = Kid(g, z, d) /\ (y = z \/ Beyond(z, y, 1 - d))
        BY <2>6, <3>2, <4>1, <4>2
      <4>4. z \in Key
        BY <2>7, <4>3
      <4>5. Beyond(z, x, d)
        BY <2>7, <4>3, <4>4 DEF Structure
      <4>6. z \in Int /\ x \in Int /\ y \in Int
        BY <2>1, <2>7, <4>4, KeysAre
      <4> HIDE DEF z
      <4> QED
        BY <2>7, <4>3, <4>5, <4>6 DEF Beyond
    <3> QED
      BY <3>1, <3>2
  <2>13. \A n \in (l + 1)..(m + 1) : v.stack[n] \in sub[p]
    <3> SUFFICES ASSUME NEW n \in (l + 1)..(m + 1) PROVE v.stack[n] \in sub[p]
      OBVIOUS
    <3>1. n = m + 1 \/ (n \in (l + 1)..m /\ n \in 1..m)
      BY <2>1
    <3> QED
      BY <2>4, <2>6, <2>7, <3>1
  <2>14. ASSUME NEW n \in (l + 1)..m PROVE v.stack[n + 1] = Kid(g, v.stack[n], d)
    <3>1. CASE n = m
      <4>1. m \in 1..m /\ m > l
        BY <2>1, <3>1
      <4> QED
        BY <2>4, <2>6, <3>1, <4>1
    <3>2. CASE n # m
      <4>1. n \in (l + 1)..(m - 1) /\ n \in 1..m /\ n + 1 \in 1..m
        BY <2>1, <3>2
      <4> QED
        BY <2>4, <2>6, <4>1
    <3> QED
      BY <3>1, <3>2
  <2>15. \A n \in 1..l : v.stack[n] = stack[n]
    <3>1. \A n \in 1..l : n \in 1..m
      BY <2>1, <2>6
    <3> QED
      BY <2>4, <2>6, <3>1
  <2>16. m + 1 >= l /\ m + 1 # l /\ (m + 1) - 1 = m
    BY <2>1, <2>6
  <2>17. Descended(g, sub, stack, p, d, v)
    BY <2>3, <2>4, <2>8, <2>9, <2>10, <2>11, <2>12, <2>13, <2>14, <2>15, <2>16 DEF Descended, l
  <2>18. v \in Descents(g, sub, stack, p, d)
    BY <2>5, <2>17 DEF Descents
  <2> QED
    BY <1>2, <2>4, <2>18 DEF v, m
<1> QED
  BY <1>1, <1>2

LEMMA OutermostEnds ==
  ASSUME NEW g, NEW up, NEW sub, Structure(g, up, sub), NEW d \in 0..1,
         NEW p \in Child, NEW stack \in Seq(Key)
  PROVE  \E w \in Descents(g, sub, stack, p, d) : w.p = Null /\ Outermost(g, stack, p, d) = w.stack
<1> DEFINE first == [p |-> p, stack |-> stack]
           V == Descents(g, sub, stack, p, d)
           step == [n \in Nat |-> [w \in V |-> Descend(g, d, w)]]
           body(t) == [n \in Nat |->
                         IF n = 0 THEN first
                         ELSE LET w == t[n - 1]
                              IN  IF w.p = Null THEN w
                                  ELSE [p |-> g[w.p].p[d], stack |-> Append(w.stack, w.p)]]
           turn == CHOOSE t : t = body(t)
           max == Cardinality(Key)
           l == Len(stack)
<1>1. Outermost(g, stack, p, d) = turn[max].stack
  BY DEF Outermost
<1>2. first \in V /\ Len(first.stack) = l + 0 /\ l \in Nat
  <2>1. first \in [p : Child, stack : Seq(Key)] /\ first.p = p /\ first.stack = stack /\ l \in Nat
    OBVIOUS
  <2> HIDE DEF first
  <2>2. Cardinality(sub[p]) <= Cardinality(Key) /\ Cardinality(sub[p]) \in Nat /\ Cardinality(Key) \in Nat
    BY KidsAre, KeysAre
  <2>3. (\A n \in (l + 1)..l : FALSE) /\ (\A n \in (l + 1)..(l - 1) : FALSE)
    <3> HIDE DEF l
    <3> QED
      BY <2>1
  <2>4. l >= l /\ ~ (l > l) /\ Cardinality(sub[p]) + (l - l) <= Cardinality(Key)
    <3> HIDE DEF l
    <3> QED
      BY <2>1, <2>2
  <2>5. Descended(g, sub, stack, p, d, first)
    BY <2>1, <2>3, <2>4 DEF Descended
  <2> QED
    BY <2>1, <2>5 DEF Descents
<1> HIDE DEF first
<1>4. \A w \in V : Descend(g, d, w) \in V
  BY DescendGoesOn
<1>5. Loop(V, first, step)
  <2>1. step \in [Nat -> [V -> V]]
    BY <1>4
  <2> HIDE DEF step, V
  <2> QED
    BY <1>2, <2>1 DEF Loop
<1> HIDE DEF V, step
<1>6. PICK f : History(V, first, step, f)
  BY ONLY <1>5, LoopHasHistory
<1>7. f \in [Nat -> V] /\ f[0] = first /\ \A n \in Nat : f[n + 1] = step[n][f[n]]
  BY ONLY <1>6 DEF History
<1>8. f = body(f)
  <2>1. ASSUME NEW n \in Nat PROVE f[n] = body(f)[n]
    <3>1. CASE n = 0
      BY <1>7, <3>1
    <3>2. CASE n # 0
      <4>1. n - 1 \in Nat /\ (n - 1) + 1 = n
        BY <3>2
      <4>2. f[n] = step[n - 1][f[n - 1]] /\ f[n - 1] \in V
        BY <1>7, <4>1
      <4>3. f[n] = Descend(g, d, f[n - 1])
        BY <4>1, <4>2 DEF step
      <4> QED
        BY <3>2, <4>3 DEF Descend
    <3> QED
      BY <3>1, <3>2
  <2> QED
    BY <1>7, <2>1
<1>9. turn = body(turn)
  <2> HIDE DEF body
  <2> QED
    BY <1>8, Zenon
<1> HIDE DEF turn
<1>10. turn[0] = first
  BY <1>9
<1>11. ASSUME NEW n \in Nat PROVE turn[n + 1] = Descend(g, d, turn[n])
  <2>1. n + 1 \in Nat /\ n + 1 # 0 /\ (n + 1) - 1 = n
    OBVIOUS
  <2>2. turn[n + 1] = body(turn)[n + 1]
    BY <1>9
  <2> QED
    BY <2>1, <2>2 DEF Descend
<1> HIDE DEF body, l
<1> DEFINE S == {n \in Nat : turn[n] \in V /\ (turn[n].p = Null \/ Len(turn[n].stack) = l + n)}
<1>12. 0 \in S
  BY <1>2, <1>10
<1>13. ASSUME NEW n \in S PROVE n + 1 \in S
  <2>1. n \in Nat /\ turn[n] \in V /\ (turn[n].p = Null \/ Len(turn[n].stack) = l + n)
    OBVIOUS
  <2>2. turn[n + 1] = Descend(g, d, turn[n]) /\ turn[n + 1] \in V
    BY <1>4, <1>11, <2>1
  <2>3. /\ turn[n].p = Null => turn[n + 1] = turn[n]
        /\ turn[n].p # Null => Len(turn[n + 1].stack) = Len(turn[n].stack) + 1
    BY <2>1, <2>2, DescendGoesOn DEF V
  <2>4. turn[n + 1].p = Null \/ Len(turn[n + 1].stack) = l + (n + 1)
    <3>1. CASE turn[n].p = Null
      BY <2>3, <3>1
    <3>2. CASE turn[n].p # Null
      <4>1. Len(turn[n + 1].stack) = (l + n) + 1
        BY <2>1, <2>3, <3>2
      <4> QED
        BY <1>2, <2>1, <4>1
    <3> QED
      BY <3>1, <3>2
  <2> QED
    BY <2>1, <2>2, <2>4
<1>14. S \in SUBSET Nat
  OBVIOUS
<1> HIDE DEF S
<1>15. S = Nat
  BY <1>12, <1>13, <1>14, InductionOnNat
<1>16. max \in Nat
  BY KeysAre
<1>17. max \in S
  BY <1>15, <1>16
<1>18. turn[max] \in V /\ (turn[max].p = Null \/ Len(turn[max].stack) = l + max)
  BY <1>17 DEF S
<1>19. turn[max].p = Null
  <2> SUFFICES ASSUME Len(turn[max].stack) = l + max, turn[max].p # Null PROVE FALSE
    BY <1>18
  <2>1. /\ turn[max].p \in Key
        /\ Cardinality(sub[turn[max].p]) + ((l + max) - l) <= max
    BY <1>18 DEF V, Descents, Descended, Child, max, l
  <2>2. Cardinality(sub[turn[max].p]) \in Nat
    BY <2>1, KidsAre, KeysAre
  <2>3. Cardinality(sub[turn[max].p]) = 1 + Cardinality(sub[Kid(g, turn[max].p, 0)])
                                        + Cardinality(sub[Kid(g, turn[max].p, 1)])
    BY <2>1, SizeIs
  <2>4. /\ Cardinality(sub[Kid(g, turn[max].p, 0)]) \in Nat
        /\ Cardinality(sub[Kid(g, turn[max].p, 1)]) \in Nat
    BY <2>1, KidsAre, KeysAre
  <2> HIDE DEF max
  <2> QED
    BY <1>2, <1>16, <2>1, <2>2, <2>3, <2>4
<1> QED
  BY <1>1, <1>18, <1>19 DEF V

-----------------------------------------------------------------------------
(***************************************************************************)
(* The way up.                                                             *)
(***************************************************************************)
\* the first d steps of a path
Upto(path, d) == [n \in 1..d |-> path[n]]

LEMMA UptoIs ==
  ASSUME NEW path \in Seq(Steps), NEW d \in 1..Len(path)
  PROVE  /\ Upto(path, d) \in Seq(Steps) /\ Len(Upto(path, d)) = d
         /\ \A n \in 1..d : Upto(path, d)[n] = path[n]
<1>1. d \in Nat /\ Len(path) \in Nat
  OBVIOUS
<1>2. \A n \in 1..d : path[n] \in Steps
  BY <1>1
<1> QED
  BY <1>1, <1>2 DEF Upto

\* The nodes of a path are above its end.
LEMMA PathIsAbove ==
  ASSUME NEW g, NEW up, NEW sub, Structure(g, up, sub), NEW path, IsPath(g, path),
         NEW p \in Key, p = End(g, path)
  PROVE  /\ \A n \in 1..Len(path) : path[n].x \notin sub[p]
         /\ \A n \in 2..Len(path) : sub[p] \subseteq sub[path[n].x]
<1> DEFINE L == Len(path)
           A(n) == sub[p] \subseteq sub[path[n].x] /\ path[n].x \notin sub[p]
           S == {m \in Nat : L - m >= 2 => A(L - m)}
<1>1. L \in Nat /\ L >= 1
  BY DEF IsPath
<1>2. p = Kid(g, path[L].x, path[L].d)
  BY DEF End
<1>3. /\ \A n \in 2..L : path[n].x \in Key /\ path[n].d \in 0..1
      /\ \A n \in 1..(L - 1) : Kid(g, path[n].x, path[n].d) = path[n + 1].x
  <2>1. \A n \in 2..L : n \in 1..Len(path)
    BY <1>1
  <2> QED
    BY <2>1, OnPath
<1> HIDE DEF L
<1>4. ASSUME NEW n \in 2..L, NEW q \in Key, q = Kid(g, path[n].x, path[n].d),
             sub[p] \subseteq sub[q]
      PROVE  A(n)
  <2>1. path[n].x \in Key /\ path[n].d \in 0..1
    BY <1>3
  <2>2. sub[q] \subseteq sub[path[n].x] /\ path[n].x \notin sub[q]
    BY <1>4, <2>1, KidsAre
  <2> QED
    BY <1>4, <2>2
<1>5. 0 \in S
  <2> SUFFICES ASSUME L >= 2 PROVE A(L)
    BY <1>1
  <2>1. L \in 2..L
    BY <1>1
  <2> QED
    BY <1>2, <1>4, <2>1
<1>6. ASSUME NEW m \in S PROVE m + 1 \in S
  <2> SUFFICES ASSUME L - (m + 1) >= 2 PROVE A(L - (m + 1))
    OBVIOUS
  <2> DEFINE n == L - (m + 1)
  <2>1. m \in Nat /\ n \in 2..L /\ n + 1 = L - m /\ L - m >= 2 /\ n \in 1..(L - 1) /\ n + 1 \in 2..L
    BY <1>1
  <2>2. A(n + 1)
    BY <2>1
  <2>3. path[n + 1].x \in Key /\ path[n + 1].x = Kid(g, path[n].x, path[n].d)
    BY <1>3, <2>1
  <2> HIDE DEF n, S
  <2>4. A(n)
    BY <1>4, <2>1, <2>2, <2>3
  <2> QED
    BY <2>4 DEF n
<1>7. S \in SUBSET Nat
  OBVIOUS
<1> HIDE DEF S
<1>8. S = Nat
  BY <1>5, <1>6, <1>7, InductionOnNat
<1>9. ASSUME NEW n \in 2..L PROVE A(n)
  <2>1. L - n \in Nat /\ L - (L - n) = n /\ n >= 2
    BY <1>1
  <2>2. L - n \in S
    BY <1>8, <2>1
  <2> HIDE DEF A
  <2> QED
    BY <2>1, <2>2 DEF S
<1>10. ASSUME NEW n \in 1..L PROVE path[n].x \notin sub[p]
  <2>1. CASE n = 1
    BY <2>1, KidsAre, KeysAre DEF IsPath
  <2>2. CASE n # 1
    <3>1. n \in 2..L
      BY <1>1, <2>2
    <3> QED
      BY <1>9, <3>1
  <2> QED
    BY <2>1, <2>2
<1> QED
  BY <1>9, <1>10 DEF L

\* What is on a path stays on it if its nodes keep their children there.
LEMMA PathStays ==
  ASSUME NEW g, NEW path, IsPath(g, path), NEW h,
         \A n \in 1..(Len(path) - 1) :
           Kid(h, path[n].x, path[n].d) = Kid(g, path[n].x, path[n].d)
  PROVE  IsPath(h, path)
<1>1. Len(path) \in Nat
  BY DEF IsPath
<1>2. \A n \in 2..Len(path) : n - 1 \in 1..(Len(path) - 1)
  BY <1>1
<1> QED
  BY <1>2 DEF IsPath

\* The balance factors are no matter of structure.
LEMMA SameStructure ==
  ASSUME NEW g, NEW up, NEW sub, Structure(g, up, sub), NEW h \in Heads,
         \A x \in Key \cup {Root}, e \in 0..1 : Kid(h, x, e) = Kid(g, x, e),
         \A x \in Key : Siz(h, x) = Siz(g, x)
  PROVE  Structure(h, up, sub)
<1>1. \A x \in Key : Kid(h, x, 0) = Kid(g, x, 0) /\ Kid(h, x, 1) = Kid(g, x, 1)
  OBVIOUS
<1>2. Kid(h, Root, 0) = Kid(g, Root, 0) /\ Kid(h, Root, 1) = Kid(g, Root, 1)
  OBVIOUS
<1> QED
  BY <1>1, <1>2 DEF Structure

\* All above the d-th node of the path is right, if that is one lower than it
\* says in the path's direction; after a stop, and at the root, all is.
Rising(g, N, path, d, stop) ==
  \E up, sub, ht :
    /\ Structure(g, up, sub) /\ N = sub[Kid(g, Root, 0)]
    /\ Bal(g, Root) = 0 /\ Siz(g, Root) = 1
    /\ IsPath(g, Upto(path, d))
    /\ d = 1 \/ stop => Balanced(g, ht, {})
    /\ ~ (d = 1 \/ stop) =>
         Balanced(g, ht, {path[d].x}) /\ Sunk(g, ht, path[d].x, path[d].d)

\* the height n that the way ends with, or goes on
Lowered(stop, n, old) == IF stop THEN n = old ELSE n + 1 = old

\* What a step of the way leaves behind: the place is as high as it was, and
\* all is right, or it is one lower.
LEMMA RegrownRises ==
  ASSUME NEW g, NEW up, NEW sub, Structure(g, up, sub), NEW N, N = sub[Kid(g, Root, 0)],
         Bal(g, Root) = 0, Siz(g, Root) = 1,
         NEW path \in Seq(Steps), NEW d \in 2..Len(path), IsPath(g, Upto(path, d)),
         NEW p \in Key, p = path[d].x, NEW ht, Balanced(g, ht, {p}),
         NEW h, NEW up2, NEW sub2, Structure(h, up2, sub2), N = sub2[Kid(h, Root, 0)],
         NEW ht2, Balanced(h, ht2, {path[d - 1].x}), NEW n,
         Regrown(g, ht, sub, h, ht2, path[d - 1], p, n),
         NEW stop \in BOOLEAN, Lowered(stop, n, ht[p])
  PROVE  Rising(h, N, path, d - 1, stop)
<1> DEFINE at == path[d - 1]
           way == Upto(path, d)
           rest == Upto(path, d - 1)
<1>1. /\ d \in Nat /\ d \in 1..Len(path) /\ d - 1 \in 1..Len(path) /\ d - 1 \in 1..(d - 1) /\ d \in 2..d
      /\ (d - 1) + 1 = d /\ d - 1 \in 1..d
  OBVIOUS
<1>2. /\ way \in Seq(Steps) /\ Len(way) = d /\ \A i \in 1..d : way[i] = path[i]
      /\ rest \in Seq(Steps) /\ Len(rest) = d - 1 /\ \A i \in 1..(d - 1) : rest[i] = path[i]
  BY <1>1, UptoIs
<1> HIDE DEF way, rest
<1>3. IsPath(g, way)
  BY DEF way
<1>4. at \in Steps /\ Kid(g, at.x, at.d) = p /\ (at.x = Root <=> d - 1 = 1)
  <2>1. Kid(g, way[d - 1].x, way[d - 1].d) = way[d].x
    BY <1>1, <1>2, <1>3, OnPath
  <2>2. way[d - 1].x = Root <=> d - 1 = 1
    BY <1>1, <1>2, <1>3, OnPath
  <2>3. way[d - 1] = at /\ way[d] = path[d]
    BY <1>1, <1>2
  <2>4. at \in Steps
    BY <1>1
  <2> HIDE DEF at
  <2> QED
    BY <2>1, <2>2, <2>3, <2>4
<1>5. IsPath(g, rest) /\ End(g, rest) = p
  <2>1. \A i \in 1..(d - 1) : rest[i] = way[i] /\ i \in 1..d
    BY <1>1, <1>2
  <2>2. /\ way[1] = [x |-> Root, d |-> 0]
        /\ \A i \in 2..d : way[i].x \in Key /\ way[i].x = Kid(g, way[i - 1].x, way[i - 1].d)
        /\ \A i, j \in 1..d : way[i].x = way[j].x => i = j
    BY <1>2, <1>3 DEF IsPath
  <2>3. \A i \in 2..(d - 1) : i \in 2..d /\ i \in 1..(d - 1) /\ i - 1 \in 1..(d - 1)
    BY <1>1
  <2>4. IsPath(g, rest)
    <3>1. rest \in Seq(Steps) /\ Len(rest) >= 1 /\ rest[1] = [x |-> Root, d |-> 0]
      <4>1. 1 \in 1..(d - 1) /\ d - 1 >= 1
        BY <1>1
      <4> QED
        BY <1>2, <2>1, <2>2, <4>1
    <3>2. ASSUME NEW i \in 2..(d - 1)
          PROVE  rest[i].x \in Key /\ rest[i].x = Kid(g, rest[i - 1].x, rest[i - 1].d)
      <4>1. rest[i] = way[i] /\ rest[i - 1] = way[i - 1]
        BY <2>1, <2>3
      <4> QED
        BY <2>2, <2>3, <4>1
    <3>3. ASSUME NEW i \in 1..(d - 1), NEW j \in 1..(d - 1), rest[i].x = rest[j].x PROVE i = j
      BY <2>1, <2>2, <3>3
    <3> QED
      BY <1>2, <3>1, <3>2, <3>3 DEF IsPath
  <2>5. End(g, rest) = p
    BY <1>1, <1>2, <1>4 DEF End
  <2> QED
    BY <2>4, <2>5
<1>6. IsPath(h, rest)
  <2>1. ASSUME NEW i \in 1..(Len(rest) - 1)
        PROVE  Kid(h, rest[i].x, rest[i].d) = Kid(g, rest[i].x, rest[i].d)
    <3>1. i \in 1..(d - 1) /\ i # d - 1 /\ i \in 1..Len(rest) /\ d - 1 \in 1..Len(rest)
      BY <1>1, <1>2
    <3>2. rest[i].x \notin sub[p]
      BY <1>5, <3>1, PathIsAbove
    <3>3. rest[i].x # at.x
      <4>1. rest[d - 1] = at
        BY <1>1, <1>2
      <4> HIDE DEF at
      <4> QED
        BY <1>5, <3>1, <4>1 DEF IsPath
    <3>4. rest[i].x \in Key \cup {Root} /\ rest[i].d \in 0..1
      BY <1>5, <3>1, OnPath
    <3> QED
      BY <3>2, <3>3, <3>4 DEF Regrown
  <2> QED
    BY <1>5, <2>1, PathStays
<1>7. Bal(h, Root) = 0 /\ Siz(h, Root) = 1
  <2>1. Root \notin sub[p]
    BY KidsAre, KeysAre
  <2> QED
    BY <2>1 DEF Regrown
<1>8. ht \in [Child -> Nat]
  BY DEF Balanced
<1>9. CASE at.x = Root
  <2>1. d - 1 = 1
    BY <1>4, <1>9
  <2>2. Balanced(h, ht2, {})
    BY <1>9, KeysAre DEF Balanced
  <2> QED
    BY <1>6, <1>7, <2>1, <2>2 DEF Rising, rest
<1>10. CASE at.x # Root
  <2>1. d - 1 # 1
    BY <1>4, <1>10
  <2>2. at.x \in Key /\ at.x # p
    <3>1. at.x \in Key \cup {Root} /\ at.x \notin sub[p] /\ p \in sub[p]
      BY <1>4, BesidePlace
    <3> QED
      BY <1>10, <3>1
  <2>3. BalancedAt(g, ht, at.x)
    BY <2>2 DEF Balanced
  <2>4. /\ n = ht[p] => BalancedAt(h, ht2, at.x)
        /\ n + 1 = ht[p] => Sunk(h, ht2, at.x, at.d)
    BY <1>4, <1>8, <1>10, <2>3, PlaceTaken
  <2>5. stop => Balanced(h, ht2, {})
    BY <2>4 DEF Balanced, Lowered
  <2>6. ~ stop => Balanced(h, ht2, {at.x}) /\ Sunk(h, ht2, at.x, at.d)
    BY <2>4 DEF Lowered
  <2> QED
    BY <1>6, <1>7, <2>1, <2>5, <2>6 DEF Rising, rest
<1> QED
  BY <1>9, <1>10

\* Settled, once the balance factor of p has been changed
Righted(h, at, p, dir) ==
  LET q == Kid(h, p, 1 - dir)
  IN  IF Bal(h, p) # -2 * Sign(dir) THEN [g |-> h, stop |-> Bal(h, p) = -Sign(dir)]
      ELSE IF Bal(h, q) = Sign(dir)
        THEN [g |-> Link(Rotate2(h, p, dir), at, Kid(h, q, dir)), stop |-> FALSE]
      ELSE IF Bal(h, q) = 0
        THEN [g |-> RotatedOnce(h, p, dir, q, Sign(dir), -Sign(dir), at), stop |-> TRUE]
        ELSE [g |-> RotatedOnce(h, p, dir, q, 0, 0, at), stop |-> FALSE]

LEMMA SettledIs ==
  ASSUME NEW g, NEW at, NEW p, NEW dir \in 0..1, Bal(g, p) \in Int
  PROVE  Settled(g, at, p, dir) = Righted(SetBalance(g, p, Bal(g, p) - Sign(dir)), at, p, dir)
<1>1. /\ Bal(g, p) + (-Sign(dir)) = Bal(g, p) - Sign(dir) /\ -(-Sign(dir)) = Sign(dir)
      /\ 2 * (-Sign(dir)) = -2 * Sign(dir)
  <2>1. PICK s \in {-1, 1} : s = Sign(dir)
    BY DEF Sign
  <2> QED
    BY <2>1
<1>2. [g EXCEPT ![p].balance = @ + (-Sign(dir))] = SetBalance(g, p, Bal(g, p) - Sign(dir))
  BY <1>1 DEF SetBalance, Bal
<1> QED
  BY <1>1, <1>2 DEF Settled, Righted, Bal, Kid, RotatedOnce

\* p's height is right for what its child e was, its balance factor for what it is.
Tilted(g, ht, p, e) ==
  /\ Above(ht[p], ht[Kid(g, p, e)] + 1, ht[Kid(g, p, 1 - e)])
  /\ Leans(Bal(g, p), e, ht[Kid(g, p, e)], ht[Kid(g, p, 1 - e)])
  /\ Bal(g, p) + Sign(e) \in -1..1

LEMMA RightedRises ==
  ASSUME NEW g, NEW up, NEW sub, Structure(g, up, sub), NEW N, N = sub[Kid(g, Root, 0)],
         Bal(g, Root) = 0, Siz(g, Root) = 1,
         NEW path \in Seq(Steps), NEW d \in 2..Len(path), IsPath(g, Upto(path, d)),
         NEW p \in Key, p = path[d].x, NEW dir \in 0..1, NEW ht, Balanced(g, ht, {p}),
         Tilted(g, ht, p, dir),
         NEW at \in Steps, at = path[d - 1], Kid(g, at.x, at.d) = p,
         NEW s, s = Righted(g, at, p, dir)
  PROVE  s.stop \in BOOLEAN /\ Rising(s.g, N, path, d - 1, s.stop)
<1> DEFINE q == Kid(g, p, 1 - dir)
           l == ht[Kid(g, p, dir)]
           o == ht[q]
<1>1. /\ 1 - dir \in 0..1 /\ Kid(g, p, dir) \in Child /\ q \in Child /\ p \in Child
      /\ ht \in [Child -> Nat] /\ ht[Null] = 0
  BY KidsAre DEF Child, Balanced
<1>2. l \in Nat /\ o \in Nat /\ ht[p] \in Nat
  BY <1>1
<1>3. /\ Above(ht[p], l + 1, o) /\ Leans(Bal(g, p), dir, l, o) /\ Bal(g, p) + Sign(dir) \in -1..1
  BY DEF Tilted
<1> HIDE DEF l, o
<1>4. (dir = 0 /\ Sign(dir) = -1) \/ (dir = 1 /\ Sign(dir) = 1)
  BY DEF Sign
<1>5. Bal(g, p) \in Int
  BY <1>1, <1>2, <1>3, <1>4 DEF Leans
<1>0. PICK h, stop : h = s.g /\ stop = s.stop
  OBVIOUS
<1> SUFFICES stop \in BOOLEAN /\ Rising(h, N, path, d - 1, stop)
  BY <1>0
<1>6. CASE Bal(g, p) # -2 * Sign(dir)
  <2>1. h = g /\ stop = (Bal(g, p) = -Sign(dir)) /\ stop \in BOOLEAN
    BY <1>0, <1>6 DEF Righted
  <2>2. PICK n \in Nat : /\ Above(n, l, o) /\ Lowered(stop, n, ht[p])
                         /\ Bal(g, p) \in -1..1
    <3>1. CASE Bal(g, p) = -Sign(dir)
      <4>1. Above(ht[p], l, o) /\ Bal(g, p) \in -1..1
        BY <1>2, <1>3, <1>4, <3>1 DEF Above, Leans
      <4> QED
        BY <1>2, <2>1, <3>1, <4>1 DEF Lowered
    <3>2. CASE Bal(g, p) # -Sign(dir)
      <4>1. Above(l + 1, l, o) /\ (l + 1) + 1 = ht[p] /\ Bal(g, p) \in -1..1 /\ l + 1 \in Nat
        BY <1>2, <1>3, <1>4, <1>5, <1>6, <3>2 DEF Above, Leans
      <4> QED
        BY <2>1, <3>2, <4>1 DEF Lowered
    <3> QED
      BY <3>1, <3>2
  <2>3. PICK ht2 : Balanced(g, ht2, {at.x}) /\ Regrown(g, ht, sub, g, ht2, at, p, n)
    BY <1>3, <2>2, HeightRegrows DEF l, o
  <2>4. Rising(g, N, path, d - 1, stop)
    BY <2>1, <2>2, <2>3, RegrownRises
  <2> QED
    BY <2>1, <2>4
<1>7. CASE Bal(g, p) = -2 * Sign(dir)
  <2>1. o = l + 2 /\ ht[p] = l + 3 /\ l + 2 \in Nat /\ l + 3 \in Nat
    BY <1>2, <1>3, <1>4, <1>7 DEF Above, Leans
  <2>2. q # Null
    BY <1>1, <1>2, <2>1 DEF o
  <2>3. q \in Key /\ q # p
    BY <1>1, <2>2, KidsAre DEF Child
  <2>4. Bal(g, q) \in -1..1
    BY <2>3 DEF Balanced, BalancedAt
  <2> HIDE DEF q
  <2>5. q = Kid(g, p, 1 - dir) /\ l = ht[Kid(g, p, dir)] /\ ht[q] = l + 2
    BY <2>1 DEF q, l, o
  <2>6. CASE Bal(g, q) = Sign(dir)
    <3>1. h = Link(Rotate2(g, p, dir), at, Kid(g, q, dir)) /\ stop = FALSE
      BY <1>0, <1>7, <2>6 DEF Righted, q
    <3>2. PICK up2, sub2, ht2 :
            /\ Structure(h, up2, sub2) /\ sub2[Kid(h, Root, 0)] = sub[Kid(g, Root, 0)]
            /\ Balanced(h, ht2, {at.x}) /\ Regrown(g, ht, sub, h, ht2, at, p, l + 2)
      <4>1. /\ Structure(g, up, sub) /\ p \in Key /\ dir \in 0..1 /\ at \in Steps
            /\ Kid(g, at.x, at.d) = p /\ Balanced(g, ht, {p})
        OBVIOUS
      <4>2. /\ q = Kid(g, p, 1 - dir) /\ q # Null /\ l = ht[Kid(g, p, dir)] /\ ht[q] = l + 2
            /\ Bal(g, q) = Sign(dir) /\ h = Link(Rotate2(g, p, dir), at, Kid(g, q, dir))
        BY <2>2, <2>5, <2>6, <3>1
      <4> QED
        BY ONLY <4>1, <4>2, DoubleTurnRegrows
    <3>3. Lowered(stop, l + 2, ht[p]) /\ stop \in BOOLEAN
      <4>1. (l + 2) + 1 = ht[p]
        BY <1>2, <2>1
      <4> QED
        BY <3>1, <4>1 DEF Lowered
    <3>4. Rising(h, N, path, d - 1, stop)
      BY <3>1, <3>2, <3>3, RegrownRises
    <3> QED
      BY <3>1, <3>4
  <2>7. CASE Bal(g, q) # Sign(dir)
    <3>1. PICK bq \in Int, bp \in Int, n \in Nat :
            /\ h = RotatedOnce(g, p, dir, q, bq, bp, at) /\ stop \in BOOLEAN
            /\ SingleTurn(Bal(g, q), dir, bq, bp, l, n)
            /\ Lowered(stop, n, ht[p])
      <4>1. CASE Bal(g, q) = 0
        <5>1. /\ h = RotatedOnce(g, p, dir, q, Sign(dir), -Sign(dir), at) /\ stop = TRUE
          <6>1. 0 # Sign(dir)
            BY <1>4
          <6> QED
            BY <1>0, <1>7, <2>7, <4>1, <6>1 DEF Righted, q
        <5>2. Sign(dir) \in Int /\ -Sign(dir) \in Int
          BY <1>4
        <5>3. SingleTurn(Bal(g, q), dir, Sign(dir), -Sign(dir), l, l + 3)
          BY <4>1 DEF SingleTurn
        <5>4. Lowered(stop, l + 3, ht[p]) /\ stop \in BOOLEAN
          BY <2>1, <5>1 DEF Lowered
        <5> QED
          BY <2>1, <5>1, <5>2, <5>3, <5>4
      <4>2. CASE Bal(g, q) # 0
        <5>1. /\ h = RotatedOnce(g, p, dir, q, 0, 0, at) /\ stop = FALSE
          BY <1>0, <1>7, <2>7, <4>2 DEF Righted, q
        <5>2. Bal(g, q) = -Sign(dir)
          BY <1>4, <2>4, <2>7, <4>2
        <5>3. SingleTurn(Bal(g, q), dir, 0, 0, l, l + 2) /\ (l + 2) + 1 = ht[p]
          BY <1>2, <2>1, <5>2 DEF SingleTurn
        <5>4. Lowered(stop, l + 2, ht[p]) /\ stop \in BOOLEAN
          BY <5>1, <5>3 DEF Lowered
        <5> QED
          BY <2>1, <5>1, <5>3, <5>4
      <4> QED
        BY <4>1, <4>2
    <3>2. PICK up2, sub2, ht2 :
            /\ Structure(h, up2, sub2) /\ N = sub2[Kid(h, Root, 0)]
            /\ Balanced(h, ht2, {at.x}) /\ Regrown(g, ht, sub, h, ht2, at, p, n)
      BY <2>2, <2>5, <3>1, TurnRegrows
    <3>3. stop \in BOOLEAN /\ Lowered(stop, n, ht[p])
      BY <3>1
    <3>4. Rising(h, N, path, d - 1, stop)
      BY <3>2, <3>3, RegrownRises
    <3> QED
      BY <3>1, <3>4
  <2> QED
    BY <2>6, <2>7
<1> QED
  BY <1>6, <1>7

LEMMA SettledRises ==
  ASSUME NEW N, NEW path \in Seq(Steps), NEW d \in 2..Len(path), NEW g,
         Rising(g, N, path, d, FALSE),
         NEW s, s = Settled(g, path[d - 1], path[d].x, path[d].d)
  PROVE  s.stop \in BOOLEAN /\ s.g \in Heads /\ Rising(s.g, N, path, d - 1, s.stop)
<1>1. d \in Nat /\ d # 1 /\ d \in 1..Len(path) /\ d - 1 \in 1..Len(path)
      /\ d \in 2..d /\ d - 1 \in 1..(d - 1) /\ d - 1 \in 1..d /\ (d - 1) + 1 = d
  OBVIOUS
<1>2. PICK up, sub, ht :
        /\ Structure(g, up, sub) /\ N = sub[Kid(g, Root, 0)]
        /\ Bal(g, Root) = 0 /\ Siz(g, Root) = 1
        /\ IsPath(g, Upto(path, d))
        /\ Balanced(g, ht, {path[d].x}) /\ Sunk(g, ht, path[d].x, path[d].d)
  BY <1>1 DEF Rising
<1> DEFINE at == path[d - 1]
           p == path[d].x
           dir == path[d].d
           h == SetBalance(g, p, Bal(g, p) - Sign(dir))
           way == Upto(path, d)
<1>3. way \in Seq(Steps) /\ Len(way) = d /\ \A i \in 1..d : way[i] = path[i]
  BY <1>1, UptoIs
<1>4. at \in Steps /\ p \in Key /\ dir \in 0..1 /\ Kid(g, at.x, at.d) = p
  <2> HIDE DEF way
  <2>1. /\ way[d].x \in Key /\ way[d].d \in 0..1 /\ way[d - 1] \in Steps
        /\ Kid(g, way[d - 1].x, way[d - 1].d) = way[d].x
    <3>1. IsPath(g, way)
      BY <1>2 DEF way
    <3> QED
      BY <1>1, <1>2, <1>3, <3>1, OnPath
  <2> QED
    BY <1>1, <1>3, <2>1
<1> HIDE DEF at, p, dir, way
<1>5. Bal(g, p) \in -1..1 /\ Sign(dir) \in {-1, 1} /\ Bal(g, p) - Sign(dir) \in Int
  BY <1>2, <1>4 DEF Sunk, p, Sign
<1>6. g \in Heads
  BY <1>2 DEF Structure
<1>7. BalanceChanged(g, h, p, Bal(g, p) - Sign(dir))
  BY <1>4, <1>5, <1>6, BalanceChanges
<1>8. s = Righted(h, at, p, dir)
  BY <1>4, <1>5, SettledIs DEF at, p, dir
<1> HIDE DEF h
<1>9. /\ h \in Heads /\ \A x \in Key \cup {Root}, e \in 0..1 : Kid(h, x, e) = Kid(g, x, e)
      /\ \A x \in Key \cup {Root} :
           Siz(h, x) = Siz(g, x) /\ Bal(h, x) = IF x = p THEN Bal(g, p) - Sign(dir) ELSE Bal(g, x)
  BY <1>7 DEF BalanceChanged
<1>10. Structure(h, up, sub)
  BY <1>2, <1>9, SameStructure
<1>11. N = sub[Kid(h, Root, 0)] /\ Bal(h, Root) = 0 /\ Siz(h, Root) = 1
  BY <1>2, <1>4, <1>9, KeysAre
<1>12. IsPath(h, way)
  <2>1. IsPath(g, way)
    BY <1>2 DEF way
  <2>2. \A i \in 1..(Len(way) - 1) : Kid(h, way[i].x, way[i].d) = Kid(g, way[i].x, way[i].d)
    <3>1. \A i \in 1..Len(way) : way[i].x \in Key \cup {Root} /\ way[i].d \in 0..1
      BY <1>2, <2>1, OnPath
    <3>2. \A i \in 1..(Len(way) - 1) : i \in 1..Len(way)
      BY <1>1, <1>3
    <3> QED
      BY <1>9, <3>1, <3>2
  <2> QED
    BY <2>1, <2>2, PathStays
<1>13. Balanced(h, ht, {p})
  <2>1. ht \in [Child -> Nat] /\ ht[Null] = 0
    BY <1>2 DEF Balanced
  <2>2. ASSUME NEW x \in Key \ {p} PROVE BalancedAt(h, ht, x)
    <3>1. BalancedAt(g, ht, x)
      BY <1>2 DEF Balanced, p
    <3>2. /\ Kid(h, x, 0) = Kid(g, x, 0) /\ Kid(h, x, 1) = Kid(g, x, 1) /\ Bal(h, x) = Bal(g, x)
      BY <1>9
    <3> QED
      BY <3>1, <3>2, StaysBalanced
  <2> QED
    BY <2>1, <2>2 DEF Balanced
<1>14. Tilted(h, ht, p, dir)
  <2>1. /\ Above(ht[p], ht[Kid(g, p, dir)] + 1, ht[Kid(g, p, 1 - dir)])
        /\ Leans(Bal(g, p), dir, ht[Kid(g, p, dir)] + 1, ht[Kid(g, p, 1 - dir)])
    BY <1>2 DEF Sunk, p, dir
  <2>2. /\ 1 - dir \in 0..1 /\ Kid(h, p, dir) = Kid(g, p, dir) /\ Kid(h, p, 1 - dir) = Kid(g, p, 1 - dir)
        /\ Bal(h, p) = Bal(g, p) - Sign(dir)
    BY <1>4, <1>9
  <2>3. PICK l \in Nat, o \in Nat : l = ht[Kid(g, p, dir)] /\ o = ht[Kid(g, p, 1 - dir)]
    <3>1. Kid(g, p, dir) \in Child /\ Kid(g, p, 1 - dir) \in Child
      BY <1>2, <1>4, <2>2, KidsAre
    <3> QED
      BY <1>2, <3>1 DEF Balanced
  <2>4. Leans(Bal(g, p) - Sign(dir), dir, l, o)
    <3>1. (dir = 0 /\ Sign(dir) = -1) \/ (dir = 1 /\ Sign(dir) = 1)
      BY <1>4 DEF Sign
    <3>2. Leans(Bal(g, p), dir, l + 1, o)
      BY <2>1, <2>3
    <3> QED
      BY <1>5, <3>1, <3>2 DEF Leans
  <2>5. (Bal(g, p) - Sign(dir)) + Sign(dir) \in -1..1
    BY <1>5
  <2> QED
    BY <2>1, <2>2, <2>3, <2>4, <2>5 DEF Tilted
<1>15. Kid(h, at.x, at.d) = p
  BY <1>4, <1>9 DEF Steps
<1>16. s.stop \in BOOLEAN /\ Rising(s.g, N, path, d - 1, s.stop)
  <2>1. at = path[d - 1] /\ p = path[d].x /\ IsPath(h, Upto(path, d))
    BY <1>12 DEF at, p, way
  <2> QED
    BY <1>4, <1>8, <1>10, <1>11, <1>13, <1>14, <1>15, <2>1, RightedRises
<1>17. s.g \in Heads
  BY <1>16 DEF Rising, Structure
<1> QED
  BY <1>16, <1>17

\* A turn of the way up.
Rise(path, w) ==
  IF w.d = 1 \/ w.stop THEN w
  ELSE [g |-> Settled(w.g, path[w.d - 1], path[w.d].x, path[w.d].d).g, d |-> w.d - 1,
        stop |-> Settled(w.g, path[w.d - 1], path[w.d].x, path[w.d].d).stop]

Rises(N, path) ==
  {w \in [g : Heads, d : 1..Len(path), stop : BOOLEAN] : Rising(w.g, N, path, w.d, w.stop)}

LEMMA RiseGoesOn ==
  ASSUME NEW N, NEW path \in Seq(Steps), NEW w \in Rises(N, path)
  PROVE  /\ Rise(path, w) \in Rises(N, path)
         /\ w.d = 1 \/ w.stop => Rise(path, w) = w
         /\ ~ (w.d = 1 \/ w.stop) => Rise(path, w).d = w.d - 1
<1>1. CASE w.d = 1 \/ w.stop
  BY <1>1 DEF Rise
<1>2. CASE ~ (w.d = 1 \/ w.stop)
  <2> DEFINE s == Settled(w.g, path[w.d - 1], path[w.d].x, path[w.d].d)
             v == [g |-> s.g, d |-> w.d - 1, stop |-> s.stop]
  <2>1. PICK g \in Heads, d \in 1..Len(path), stop \in BOOLEAN :
          g = w.g /\ d = w.d /\ stop = w.stop
    BY DEF Rises
  <2>2. Rising(w.g, N, path, w.d, w.stop)
    BY DEF Rises
  <2>3. Len(path) \in Nat /\ d # 1 /\ stop = FALSE
    BY <1>2, <2>1
  <2>4. Rising(g, N, path, d, FALSE) /\ d \in 2..Len(path) /\ d - 1 \in 1..Len(path)
    <3>1. Rising(g, N, path, d, stop)
      BY <2>1, <2>2
    <3>2. d \in 2..Len(path) /\ d - 1 \in 1..Len(path)
      BY <2>1, <2>3
    <3> QED
      BY <2>3, <3>1, <3>2
  <2>5. s = Settled(g, path[d - 1], path[d].x, path[d].d)
    BY <2>1
  <2> HIDE DEF s
  <2>6. s.stop \in BOOLEAN /\ s.g \in Heads /\ Rising(s.g, N, path, d - 1, s.stop)
    BY <2>4, <2>5, SettledRises
  <2>7. v \in Rises(N, path) /\ v.d = w.d - 1
    BY <2>1, <2>4, <2>6 DEF Rises
  <2>8. Rise(path, w) = v
    BY <1>2 DEF Rise, s
  <2> QED
    BY <1>2, <2>7, <2>8
<1> QED
  BY <1>1, <1>2

\* The way up ends with a tree.
LEMMA RebalanceIsTree ==
  ASSUME NEW g, NEW N, NEW path \in Seq(Steps), Len(path) >= 1,
         Rising(g, N, path, Len(path), FALSE)
  PROVE  IsTree(Rebalance(g, path), N)
<1> DEFINE max == Len(path)
           first == [g |-> g, d |-> max, stop |-> FALSE]
           V == Rises(N, path)
           step == [n \in Nat |-> [w \in V |-> Rise(path, w)]]
           body(t) == [n \in Nat |->
                         IF n = 0 THEN first
                         ELSE LET w == t[n - 1]
                                  s == Settled(w.g, path[w.d - 1], path[w.d].x, path[w.d].d)
                              IN  IF w.d = 1 \/ w.stop THEN w
                                  ELSE [g |-> s.g, d |-> w.d - 1, stop |-> s.stop]]
           turn == CHOOSE t : t = body(t)
<1>1. Rebalance(g, path) = turn[max].g
  BY DEF Rebalance
<1>2. max \in Nat /\ max \in 1..max /\ max >= 1
  OBVIOUS
<1>3. first \in V /\ first.d = max
  <2>1. g \in Heads
    BY DEF Rising, Structure
  <2> QED
    BY <1>2, <2>1 DEF Rises
<1> HIDE DEF first, max
<1>4. \A w \in V : Rise(path, w) \in V
  BY RiseGoesOn
<1>5. Loop(V, first, step)
  <2>1. step \in [Nat -> [V -> V]]
    BY <1>4
  <2> HIDE DEF step, V
  <2> QED
    BY <1>3, <2>1 DEF Loop
<1> HIDE DEF V, step
<1>6. PICK f : History(V, first, step, f)
  BY ONLY <1>5, LoopHasHistory
<1>7. f \in [Nat -> V] /\ f[0] = first /\ \A n \in Nat : f[n + 1] = step[n][f[n]]
  BY ONLY <1>6 DEF History
<1>8. f = body(f)
  <2>1. ASSUME NEW n \in Nat PROVE f[n] = body(f)[n]
    <3>1. CASE n = 0
      BY <1>7, <3>1
    <3>2. CASE n # 0
      <4>1. n - 1 \in Nat /\ (n - 1) + 1 = n
        BY <3>2
      <4>2. f[n] = step[n - 1][f[n - 1]] /\ f[n - 1] \in V
        BY <1>7, <4>1
      <4>3. f[n] = Rise(path, f[n - 1])
        BY <4>1, <4>2 DEF step
      <4> QED
        BY <3>2, <4>3 DEF Rise
    <3> QED
      BY <3>1, <3>2
  <2> QED
    BY <1>7, <2>1
<1>9. turn = body(turn)
  <2> HIDE DEF body
  <2> QED
    BY <1>8, Zenon
<1> HIDE DEF turn
<1>10. turn[0] = first
  BY <1>9
<1>11. ASSUME NEW n \in Nat PROVE turn[n + 1] = Rise(path, turn[n])
  <2>1. n + 1 \in Nat /\ n + 1 # 0 /\ (n + 1) - 1 = n
    OBVIOUS
  <2>2. turn[n + 1] = body(turn)[n + 1]
    BY <1>9
  <2> QED
    BY <2>1, <2>2 DEF Rise
<1> HIDE DEF body
<1> DEFINE S == {n \in Nat : /\ turn[n] \in V
                             /\ turn[n].d = 1 \/ turn[n].stop \/ turn[n].d = max - n}
<1>12. 0 \in S
  BY <1>2, <1>3, <1>10
<1>13. ASSUME NEW n \in S PROVE n + 1 \in S
  <2>1. /\ n \in Nat /\ turn[n] \in V
        /\ turn[n].d = 1 \/ turn[n].stop \/ turn[n].d = max - n
    OBVIOUS
  <2>2. turn[n + 1] = Rise(path, turn[n]) /\ turn[n + 1] \in V
    BY <1>4, <1>11, <2>1
  <2>3. /\ turn[n].d = 1 \/ turn[n].stop => turn[n + 1] = turn[n]
        /\ ~ (turn[n].d = 1 \/ turn[n].stop) => turn[n + 1].d = turn[n].d - 1
    BY <2>1, <2>2, RiseGoesOn DEF V
  <2>4. turn[n + 1].d = 1 \/ turn[n + 1].stop \/ turn[n + 1].d = max - (n + 1)
    <3>1. CASE turn[n].d = 1 \/ turn[n].stop
      BY <2>3, <3>1
    <3>2. CASE ~ (turn[n].d = 1 \/ turn[n].stop)
      <4>1. turn[n + 1].d = (max - n) - 1
        BY <2>1, <2>3, <3>2
      <4> QED
        BY <1>2, <2>1, <4>1
    <3> QED
      BY <3>1, <3>2
  <2> QED
    BY <2>1, <2>2, <2>4
<1>14. S \in SUBSET Nat
  OBVIOUS
<1> HIDE DEF S
<1>15. S = Nat
  BY <1>12, <1>13, <1>14, InductionOnNat
<1>16. max \in S
  BY <1>2, <1>15
<1>17. turn[max] \in V /\ (turn[max].d = 1 \/ turn[max].stop \/ turn[max].d = max - max)
  BY <1>16 DEF S
<1>18. PICK h, d, stop : /\ h = turn[max].g /\ Rising(h, N, path, d, stop) /\ (d = 1 \/ stop)
  <2>1. turn[max].d # max - max /\ Rising(turn[max].g, N, path, turn[max].d, turn[max].stop)
    BY <1>2, <1>17 DEF V, Rises
  <2> QED
    BY <1>17, <2>1
<1>19. IsTree(h, N)
  BY <1>18 DEF Rising, IsTree
<1> QED
  BY <1>1, <1>18, <1>19
=============================================================================
