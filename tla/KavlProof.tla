------------------------------ MODULE KavlProof ------------------------------
(***************************************************************************)
(* The tree of Kavl is an AVL tree and a set with ranks, for every finite  *)
(* set of keys and every session.                                          *)
(***************************************************************************)
EXTENDS KavlShape

-----------------------------------------------------------------------------
(***************************************************************************)
(* A node with one child at most is taken out.                             *)
(***************************************************************************)
\* The nodes on the path to r are those above r.
LEMMA AboveIsPassed ==
  ASSUME NEW g, NEW up, NEW sub, Structure(g, up, sub), NEW path, IsPath(g, path),
         NEW r \in Key, r = End(g, path), NEW x \in Key, x # r
  PROVE  r \in sub[x] <=> x \in Passed(path, 2)
<1> DEFINE L == Len(path)
<1>1. /\ L \in Nat /\ L >= 1 /\ r = Kid(g, path[L].x, path[L].d)
      /\ path[1].x = Root /\ path[1].d = 0
  BY DEF IsPath, End
<1>2. /\ \A n \in 2..L : path[n].x \in Key /\ path[n].d \in 0..1
      /\ \A n \in 1..(L - 1) : Kid(g, path[n].x, path[n].d) = path[n + 1].x
  <2>1. \A n \in 2..L : n \in 1..Len(path)
    BY <1>1
  <2> QED
    BY <2>1, OnPath
<1>3. x \in Passed(path, 2) => r \in sub[x]
  <2> SUFFICES ASSUME NEW n \in 2..L, x = path[n].x PROVE r \in sub[x]
    BY DEF Passed, L
  <2>1. sub[r] \subseteq sub[path[n].x] /\ r \in sub[r]
    BY KidsAre, PathIsAbove DEF L
  <2> QED
    BY <2>1
<1>4. ASSUME r \in sub[x], x \notin Passed(path, 2) PROVE FALSE
  <2> HIDE DEF L
  <2> DEFINE S == {n \in Nat : n + 1 <= L => x \in sub[Kid(g, path[n + 1].x, path[n + 1].d)]}
  <2>1. \A n \in 2..L : x # path[n].x
    BY <1>4 DEF Passed, L
  <2>2. x \in sub[Kid(g, Root, 0)]
    <3> SUFFICES ASSUME x \notin sub[Kid(g, Root, 0)] PROVE FALSE
      OBVIOUS
    <3>1. sub[x] = {x}
      BY TreeIs
    <3> QED
      BY <1>4, <3>1
  <2>3. 0 \in S
    <3>1. 0 + 1 = 1 /\ 0 \in Nat
      OBVIOUS
    <3> QED
      BY <1>1, <2>2, <3>1
  <2>4. ASSUME NEW n \in S PROVE n + 1 \in S
    <3> SUFFICES ASSUME (n + 1) + 1 <= L
                 PROVE  x \in sub[Kid(g, path[(n + 1) + 1].x, path[(n + 1) + 1].d)]
      OBVIOUS
    <3>1. n \in Nat /\ n + 1 <= L /\ n + 1 \in 1..(L - 1) /\ (n + 1) + 1 \in 2..L
      BY <1>1
    <3> DEFINE y == path[(n + 1) + 1].x
               e == path[(n + 1) + 1].d
    <3>2. x \in sub[y] /\ x # y /\ y \in Key /\ e \in 0..1 /\ 1 - e \in 0..1
      BY <1>2, <2>1, <3>1
    <3>3. r \in sub[Kid(g, y, e)]
      <4>1. r \in sub[r] /\ Len(path) \in Nat
        BY <1>1, KidsAre DEF L
      <4>2. CASE (n + 1) + 1 = L
        BY <1>1, <4>1, <4>2
      <4>3. CASE (n + 1) + 1 # L
        <5>1. /\ (n + 1) + 1 \in 1..(L - 1) /\ ((n + 1) + 1) + 1 \in 2..L
          BY <1>1, <3>1, <4>3
        <5>2. Kid(g, y, e) = path[((n + 1) + 1) + 1].x
          BY <1>2, <5>1
        <5>3. sub[r] \subseteq sub[path[((n + 1) + 1) + 1].x]
          BY <5>1, PathIsAbove DEF L
        <5> QED
          BY <4>1, <5>2, <5>3
      <4> QED
        BY <4>2, <4>3
    <3> HIDE DEF y, e, S
    <3>4. x \in sub[Kid(g, y, e)] \/ x \in sub[Kid(g, y, 1 - e)]
      BY <3>2, KidsAre
    <3>5. CASE x \in sub[Kid(g, y, 1 - e)]
      <4>1. Kid(g, y, 1 - e) \in Key
        <5>1. Kid(g, y, 1 - e) \in Child
          BY <3>2, KidsAre
        <5>2. sub[Null] = {}
          BY DEF Structure
        <5> QED
          BY <3>5, <5>1, <5>2 DEF Child
      <4>2. sub[x] \subseteq sub[Kid(g, y, 1 - e)]
        BY <3>5, <4>1, BelowIsTransitive
      <4>3. Beyond(y, r, e) /\ Beyond(y, r, 1 - e)
        BY <1>4, <3>2, <3>3, <4>2 DEF Structure
      <4>4. y \in Int /\ r \in Int
        BY <3>2, KeysAre
      <4> QED
        BY <3>2, <4>3, <4>4 DEF Beyond
    <3> QED
      BY <3>4, <3>5 DEF y, e
  <2>5. S \in SUBSET Nat
    OBVIOUS
  <2> HIDE DEF S
  <2>6. S = Nat
    BY <2>3, <2>4, <2>5, InductionOnNat
  <2>7. L - 1 \in S /\ (L - 1) + 1 = L /\ L <= L
    BY <1>1, <2>6
  <2>8. x \in sub[r]
    BY <1>1, <2>7 DEF S
  <2>9. x \in sub[Kid(g, r, 0)] \/ x \in sub[Kid(g, r, 1)]
    BY <2>8 DEF Structure
  <2>10. ASSUME NEW d \in 0..1, x \in sub[Kid(g, r, d)] PROVE FALSE
    <3>1. Kid(g, r, d) \in Key
      <4>1. Kid(g, r, d) \in Child
        BY KidsAre
      <4>2. sub[Null] = {}
        BY DEF Structure
      <4> QED
        BY <2>10, <4>1, <4>2 DEF Child
    <3>2. sub[x] \subseteq sub[Kid(g, r, d)]
      BY <2>10, <3>1, BelowIsTransitive
    <3> QED
      BY <1>4, <3>2, KidsAre
  <2> QED
    BY <2>9, <2>10
<1> QED
  BY <1>3, <1>4

\* h is g without r, whose child c takes its place.
CutOut(g, h, path, r, c) ==
  /\ h \in Heads
  /\ \A x \in Key \cup {Root}, e \in 0..1 :
       Kid(h, x, e) = IF x = path[Len(path)].x /\ e = path[Len(path)].d THEN c
                      ELSE IF x = r THEN Null
                      ELSE Kid(g, x, e)
  /\ \A x \in Key \cup {Root} :
       /\ Bal(h, x) = IF x = r THEN 0 ELSE Bal(g, x)
       /\ Siz(h, x) = IF x = r THEN 1
                      ELSE IF x \in Passed(path, 2) THEN Siz(g, x) - 1
                      ELSE Siz(g, x)

CutUp(up, c, at) == [y \in Key |-> IF y = c THEN <<at.x, at.d>> ELSE up[y]]

CutSub(sub, r) == [y \in Child |-> IF y = r THEN {r} ELSE sub[y] \ {r}]

CutHeights(ht, r) == [y \in Child |-> IF y = r THEN 1 ELSE ht[y]]

\* One with r taken away.
LEMMA OneLess ==
  ASSUME NEW A \in SUBSET Key, NEW r \in A
  PROVE  Cardinality(A \ {r}) = Cardinality(A) - 1
<1>1. IsFiniteSet(A)
  BY KeysAre
<1> QED
  BY <1>1, FS_RemoveElement

LEMMA CutRises ==
  ASSUME NEW g, NEW up, NEW sub, Structure(g, up, sub), NEW N, N = sub[Kid(g, Root, 0)],
         Bal(g, Root) = 0, Siz(g, Root) = 1, NEW ht, Balanced(g, ht, {}),
         NEW path, IsPath(g, path), NEW r \in Key, r = End(g, path),
         NEW d \in 0..1, Kid(g, r, d) = Null, NEW c, c = Kid(g, r, 1 - d),
         NEW h, CutOut(g, h, path, r, c)
  PROVE  Rising(h, N \ {r}, path, Len(path), FALSE)
<1> DEFINE L == Len(path)
           at == path[L]
           up2 == CutUp(up, c, at)
           sub2 == CutSub(sub, r)
           ht2 == CutHeights(ht, r)
<1>1. /\ L \in Nat /\ L >= 1 /\ L \in 1..L /\ at \in Steps /\ Kid(g, at.x, at.d) = r
      /\ at.x \in Key \cup {Root} /\ at.d \in 0..1 /\ 1 - at.d \in 0..1 /\ 1 - at.d # at.d
      /\ at.x = Root <=> L = 1
  <2>1. L \in Nat /\ L >= 1
    BY DEF IsPath
  <2>2. L \in 1..L
    BY <2>1
  <2>3. Kid(g, at.x, at.d) = r
    BY DEF End
  <2>4. at \in Steps /\ at.x \in Key \cup {Root} /\ at.d \in 0..1 /\ (at.x = Root <=> L = 1)
    <3>1. \A n \in 1..L : /\ path[n] \in Steps /\ path[n].x \in Key \cup {Root} /\ path[n].d \in 0..1
                          /\ (path[n].x = Root) <=> (n = 1)
      BY OnPath
    <3> HIDE DEF L
    <3> QED
      BY <2>2, <3>1
  <2>5. 1 - at.d \in 0..1 /\ 1 - at.d # at.d
    BY <2>4
  <2> QED
    BY <2>1, <2>2, <2>3, <2>4, <2>5
<1>2. PICK a \in Key \cup {Root}, b \in 0..1 : a = at.x /\ b = at.d
  BY <1>1
<1>3. /\ Kid(g, a, b) = r /\ (a = Root => b = 0)
      /\ 1 - d \in 0..1 /\ c \in Child /\ r # Null /\ r # Root
  <2>1. a = Root => b = 0
    <3>1. path[1].d = 0
      BY DEF IsPath
    <3>2. CASE L = 1
      BY <1>2, <3>1, <3>2
    <3>3. CASE L # 1
      BY <1>1, <1>2, <3>3
    <3> QED
      BY <3>2, <3>3
  <2> QED
    BY <1>1, <1>2, <2>1, KidsAre, KeysAre
<1>4. /\ h \in Heads
      /\ \A x \in Key \cup {Root}, e \in 0..1 :
           Kid(h, x, e) = IF x = a /\ e = b THEN c ELSE IF x = r THEN Null ELSE Kid(g, x, e)
      /\ \A x \in Key \cup {Root} :
           /\ Bal(h, x) = IF x = r THEN 0 ELSE Bal(g, x)
           /\ Siz(h, x) = IF x = r THEN 1 ELSE IF x \in Passed(path, 2) THEN Siz(g, x) - 1 ELSE Siz(g, x)
  BY <1>2 DEF CutOut
<1>5. /\ \A y \in Child : sub2[y] = IF y = r THEN {r} ELSE sub[y] \ {r}
      /\ \A y \in Key : up2[y] = IF y = c THEN <<a, b>> ELSE up[y]
      /\ \A y \in Child : ht2[y] = IF y = r THEN 1 ELSE ht[y]
  BY <1>2 DEF CutUp, CutSub, CutHeights
<1>6. /\ up2 \in [Key -> Place] /\ sub2 \in [Child -> SUBSET Key] /\ ht2 \in [Child -> Nat]
  <2>1. <<at.x, at.d>> \in Place
    BY <1>1 DEF Place
  <2>2. ht \in [Child -> Nat] /\ up \in [Key -> Place] /\ sub \in [Child -> SUBSET Key]
    BY DEF Balanced, Structure
  <2> HIDE DEF at
  <2> QED
    BY <2>1, <2>2 DEF CutUp, CutSub, CutHeights
<1> HIDE DEF up2, sub2, ht2
<1>7. /\ r \in sub[r] /\ a \notin sub[r] /\ a # r /\ c # r /\ sub[r] = {r} \cup sub[c]
      /\ r \notin sub[c] /\ c # a
  <2>1. a \notin sub[r] /\ r \in sub[r]
    BY <1>1, <1>2, BesidePlace
  <2>2. sub[Kid(g, r, d)] = {}
    BY DEF Structure
  <2>3. sub[r] = {r} \cup sub[Kid(g, r, d)] \cup sub[c] /\ r \notin sub[c] /\ sub[c] \subseteq sub[r]
    BY <1>3, KidsAre
  <2>4. c # Null => c \in sub[c]
    BY <1>3, KidsAre DEF Child
  <2>5. c # r /\ c # a
    <3>1. Null # r /\ Null # a
      BY <1>3, KeysAre
    <3> QED
      BY <2>1, <2>3, <2>4, <3>1
  <2> QED
    BY <2>1, <2>2, <2>3, <2>5
<1>8. \A x \in Key \cup {Root}, e \in 0..1 : (x # a \/ e # b) => Kid(g, x, e) # r
  BY <1>3 DEF Structure
<1>9. \A x \in Key \cup {Root}, e \in 0..1 : (x # r /\ c # Null) => Kid(g, x, e) # c
  <2>1. c # Null => up[c] = <<r, 1 - d>>
    BY <1>3 DEF Structure
  <2> QED
    BY <2>1 DEF Structure
<1>10. ASSUME NEW x \in Key \cup {Root}, NEW e \in 0..1, x # a \/ e # b, x # r
       PROVE  /\ Kid(h, x, e) = Kid(g, x, e) /\ Kid(h, x, e) # r /\ Kid(h, x, e) \in Child
              /\ sub2[Kid(h, x, e)] = sub[Kid(g, x, e)] \ {r} /\ ht2[Kid(h, x, e)] = ht[Kid(g, x, e)]
  <2>1. Kid(h, x, e) = Kid(g, x, e) /\ Kid(g, x, e) # r /\ Kid(g, x, e) \in Child
    BY <1>4, <1>8, <1>10, KidsAre
  <2> QED
    BY <1>5, <2>1
<1>11. /\ Kid(h, a, b) = c /\ sub2[c] = sub[c] /\ ht2[c] = ht[c]
  BY <1>3, <1>4, <1>5, <1>7
<1>12. Kid(h, r, 0) = Null /\ Kid(h, r, 1) = Null
  BY <1>4, <1>7
<1>13. sub2[Null] = {} /\ ht2[Null] = 0
  <2>1. Null \in Child /\ Null # r
    BY <1>3 DEF Child
  <2> QED
    BY <1>5, <2>1 DEF Structure, Balanced
<1>14. Kid(h, Root, 1) = Null
  BY <1>3, <1>10 DEF Structure
<1>15. ASSUME NEW x \in Key \cup {Root}, NEW e \in 0..1, Kid(h, x, e) # Null
       PROVE  up2[Kid(h, x, e)] = <<x, e>>
  <2>1. CASE x = a /\ e = b
    <3>1. c \in Key
      BY <1>3, <1>11, <1>15, <2>1 DEF Child
    <3> QED
      BY <1>5, <1>11, <2>1, <3>1
  <2>2. CASE x # a \/ e # b
    <3>1. x # r
      BY <1>12, <1>15
    <3>2. Kid(h, x, e) = Kid(g, x, e) /\ Kid(h, x, e) \in Key
      BY <1>10, <1>15, <2>2, <3>1 DEF Child
    <3>3. Kid(g, x, e) # c
      BY <1>9, <1>15, <3>1, <3>2
    <3>4. up[Kid(g, x, e)] = <<x, e>>
      BY <1>15, <3>2 DEF Structure
    <3> QED
      BY <1>5, <3>2, <3>3, <3>4
  <2> QED
    BY <2>1, <2>2
<1>16. ASSUME NEW x \in Key
       PROVE  sub2[x] = {x} \cup sub2[Kid(h, x, 0)] \cup sub2[Kid(h, x, 1)]
  <2>1. CASE x = r
    BY <1>5, <1>12, <1>13, <2>1 DEF Child
  <2>2. CASE x # r /\ x = a
    <3>1. Kid(h, x, b) = c /\ sub2[c] = sub[r] \ {r} /\ Kid(g, x, b) = r
      BY <1>3, <1>7, <1>11, <2>2
    <3>2. sub2[Kid(h, x, 1 - b)] = sub[Kid(g, x, 1 - b)] \ {r}
      BY <1>10, <2>2
    <3>3. sub[x] = {x} \cup sub[r] \cup sub[Kid(g, x, 1 - b)]
      BY <3>1, KidsAre
    <3>4. sub2[x] = sub[x] \ {r}
      BY <1>5, <2>2 DEF Child
    <3>5. sub2[x] = {x} \cup sub2[Kid(h, x, b)] \cup sub2[Kid(h, x, 1 - b)]
      BY <2>2, <3>1, <3>2, <3>3, <3>4
    <3>6. (b = 0 /\ 1 - b = 1) \/ (b = 1 /\ 1 - b = 0)
      OBVIOUS
    <3> QED
      BY <3>5, <3>6
  <2>3. CASE x # r /\ x # a
    <3>1. sub2[Kid(h, x, 0)] = sub[Kid(g, x, 0)] \ {r} /\ sub2[Kid(h, x, 1)] = sub[Kid(g, x, 1)] \ {r}
      BY <1>10, <2>3
    <3>2. sub2[x] = sub[x] \ {r}
      BY <1>5, <2>3 DEF Child
    <3>3. sub[x] = {x} \cup sub[Kid(g, x, 0)] \cup sub[Kid(g, x, 1)]
      BY DEF Structure
    <3> QED
      BY <2>3, <3>1, <3>2, <3>3
  <2> QED
    BY <2>1, <2>2, <2>3
<1>17. ASSUME NEW x \in Key, NEW e \in 0..1, NEW y \in sub2[Kid(h, x, e)]
       PROVE  Beyond(x, y, e)
  <2>1. x # r
    BY <1>12, <1>13, <1>17
  <2>2. y \in sub[Kid(g, x, e)]
    <3>1. CASE x = a /\ e = b
      BY <1>3, <1>7, <1>11, <1>17, <3>1
    <3>2. CASE x # a \/ e # b
      BY <1>10, <1>17, <2>1, <3>2
    <3> QED
      BY <3>1, <3>2
  <2> QED
    BY <2>2 DEF Structure
<1>18. ASSUME NEW x \in Key PROVE Siz(h, x) = Cardinality(sub2[x])
  <2>1. CASE x = r
    <3>1. sub2[x] = {r} /\ Siz(h, x) = 1
      BY <1>4, <1>5, <2>1 DEF Child
    <3> QED
      BY <3>1, FS_Singleton
  <2>2. CASE x # r
    <3>1. sub2[x] = sub[x] \ {r} /\ sub[x] \in SUBSET Key /\ Siz(g, x) = Cardinality(sub[x])
      BY <1>5, <2>2, KidsAre DEF Child, Structure
    <3>2. r \in sub[x] <=> x \in Passed(path, 2)
      BY <2>2, AboveIsPassed
    <3>3. CASE r \in sub[x]
      BY <1>4, <2>2, <3>1, <3>2, <3>3, OneLess
    <3>4. CASE r \notin sub[x]
      <4>1. sub[x] \ {r} = sub[x]
        BY <3>4
      <4> QED
        BY <1>4, <2>2, <3>1, <3>2, <3>4, <4>1
    <3> QED
      BY <3>3, <3>4
  <2> QED
    BY <2>1, <2>2
<1>19. sub2[Kid(h, Root, 0)] = N \ {r}
  <2>1. CASE a = Root
    BY <1>3, <1>7, <1>11, <2>1
  <2>2. CASE a # Root
    BY <1>3, <1>10, <2>2
  <2> QED
    BY <2>1, <2>2
<1>20. ASSUME NEW x \in Key, x \notin sub2[Kid(h, Root, 0)]
       PROVE  Kid(h, x, 0) = Null /\ Kid(h, x, 1) = Null
  <2>1. CASE x = r
    BY <1>12, <2>1
  <2>2. CASE x # r
    <3>1. x \notin N /\ Kid(g, x, 0) = Null /\ Kid(g, x, 1) = Null
      BY <1>19, <1>20, <2>2 DEF Structure
    <3>2. x # a
      BY <1>2, <1>3, <3>1, TreeIs
    <3> QED
      BY <1>10, <2>2, <3>1, <3>2
  <2> QED
    BY <2>1, <2>2
<1>21. Structure(h, up2, sub2)
  BY <1>4, <1>6, <1>13, <1>14, <1>15, <1>16, <1>17, <1>18, <1>20 DEF Structure
<1>22. ASSUME NEW x \in Key, x # a PROVE BalancedAt(h, ht2, x)
  <2>1. CASE x = r
    <3>1. ht2[r] = 1 /\ Bal(h, r) = 0
      BY <1>4, <1>5, <1>7 DEF Child
    <3> QED
      BY <1>12, <1>13, <2>1, <3>1 DEF BalancedAt, Above
  <2>2. CASE x # r
    <3>1. BalancedAt(g, ht, x) /\ ht2[x] = ht[x] /\ Bal(h, x) = Bal(g, x)
      BY <1>4, <1>5, <2>2 DEF Balanced, Child
    <3>2. ht2[Kid(h, x, 0)] = ht[Kid(g, x, 0)] /\ ht2[Kid(h, x, 1)] = ht[Kid(g, x, 1)]
      BY <1>10, <1>22, <2>2
    <3> QED
      BY <3>1, <3>2, StaysBalanced
  <2> QED
    BY <2>1, <2>2
<1>23. Balanced(h, ht2, {a})
  BY <1>6, <1>13, <1>22 DEF Balanced
<1>24. a # Root => Sunk(h, ht2, a, b)
  <2> SUFFICES ASSUME a # Root PROVE Sunk(h, ht2, a, b)
    OBVIOUS
  <2>1. a \in Key
    OBVIOUS
  <2>2. BalancedAt(g, ht, a) /\ BalancedAt(g, ht, r)
    BY <2>1 DEF Balanced
  <2>3. /\ Above(ht[a], ht[r], ht[Kid(g, a, 1 - b)])
        /\ Leans(Bal(g, a), b, ht[r], ht[Kid(g, a, 1 - b)])
        /\ Bal(g, a) \in -1..1
    BY <1>3, <2>2, BalancedAtIs
  <2>4. Above(ht[r], ht[Kid(g, r, d)], ht[c])
    BY <2>2, BalancedAtIs
  <2>5. ht[Null] = 0 /\ ht[c] \in Nat /\ ht[r] \in Nat
    BY <1>3 DEF Balanced, Child
  <2>6. ht[r] = ht[c] + 1
    BY <2>4, <2>5 DEF Above
  <2>7. /\ ht2[a] = ht[a] /\ Bal(h, a) = Bal(g, a) /\ 1 - b \in 0..1 /\ 1 - b # b
        /\ ht2[Kid(h, a, b)] = ht[c]
    BY <1>4, <1>5, <1>7, <1>11, <2>1 DEF Child
  <2>8. ht2[Kid(h, a, 1 - b)] = ht[Kid(g, a, 1 - b)]
    BY <1>7, <1>10, <2>7
  <2> QED
    BY <2>3, <2>6, <2>7, <2>8 DEF Sunk
<1>25. Bal(h, Root) = 0 /\ Siz(h, Root) = 1
  <2>1. Root \notin Passed(path, 2)
    <3>1. \A n \in 2..L : path[n].x \in Key
      BY OnPath
    <3> QED
      BY <3>1, KeysAre DEF Passed, L
  <2> QED
    BY <1>3, <1>4, <2>1
<1>26. path \in Seq(Steps) /\ Upto(path, L) = path
  <2>1. path \in Seq(Steps)
    BY DEF IsPath
  <2> QED
    BY <2>1 DEF Upto
<1>27. IsPath(h, path)
  <2>1. ASSUME NEW i \in 1..(L - 1)
        PROVE  Kid(h, path[i].x, path[i].d) = Kid(g, path[i].x, path[i].d)
    <3>1. i \in 1..L /\ i # L
      BY <1>1
    <3>2. path[i].x \notin sub[r] /\ path[i].x # a
      <4>1. path[i].x \notin sub[r]
        BY <3>1, PathIsAbove DEF L
      <4>2. path[i].x # path[L].x
        BY <1>1, <3>1 DEF IsPath, L
      <4> QED
        BY <1>2, <4>1, <4>2
    <3>3. path[i].x \in Key \cup {Root} /\ path[i].d \in 0..1
      BY <3>1, OnPath DEF L
    <3> QED
      BY <1>7, <1>10, <3>2, <3>3
  <2> QED
    BY <2>1, PathStays
<1> HIDE DEF at
<1>28. CASE L = 1
  <2>1. Balanced(h, ht2, {})
    BY <1>1, <1>2, <1>23, <1>28, KeysAre DEF Balanced
  <2> QED
    BY <1>19, <1>21, <1>25, <1>26, <1>27, <1>28, <2>1 DEF Rising, L
<1>29. CASE L # 1
  <2>1. a # Root /\ path[L].x = a /\ path[L].d = b
    BY <1>1, <1>2, <1>29 DEF at
  <2> QED
    BY <1>19, <1>21, <1>23, <1>24, <1>25, <1>26, <1>27, <1>29, <2>1 DEF Rising, L
<1> QED
  BY <1>28, <1>29

-----------------------------------------------------------------------------
(***************************************************************************)
(* A node takes the place of another.                                      *)
(***************************************************************************)
\* p and r change names.
Swap(p, r, x) == IF x = p THEN r ELSE IF x = r THEN p ELSE x

\* h is g with r in p's place, and p out of the tree as r was.
Swapped(g, h, p, r) ==
  /\ h \in Heads
  /\ \A x \in Key \cup {Root} :
       /\ \A e \in 0..1 : Kid(h, Swap(p, r, x), e) = Swap(p, r, Kid(g, x, e))
       /\ Bal(h, Swap(p, r, x)) = Bal(g, x) /\ Siz(h, Swap(p, r, x)) = Siz(g, x)

\* Nothing in N is between them.
Neighbours(N, p, r) == \A y \in N : y # p => ((y < p) <=> (y < r))

SwappedSub(sub, p, r) == [y \in Child |-> {z \in Key : Swap(p, r, z) \in sub[Swap(p, r, y)]}]

SwappedUp(up, p, r) ==
  [y \in Key |-> <<Swap(p, r, up[Swap(p, r, y)][1]), up[Swap(p, r, y)][2]>>]

SwappedHeights(ht, p, r) == [y \in Child |-> ht[Swap(p, r, y)]]

SwappedPath(path, p, r) == [n \in 1..Len(path) |-> [x |-> Swap(p, r, path[n].x), d |-> path[n].d]]

LEMMA SwapIs ==
  ASSUME NEW p \in Key, NEW r \in Key, p # r
  PROVE  /\ \A x \in Key : Swap(p, r, x) \in Key /\ Swap(p, r, Swap(p, r, x)) = x
         /\ Swap(p, r, Root) = Root /\ Swap(p, r, Null) = Null
         /\ Swap(p, r, p) = r /\ Swap(p, r, r) = p
         /\ \A x \in Key : x # p => (x # r => Swap(p, r, x) = x)
BY KeysAre DEF Swap

\* Renaming changes no count.
LEMMA SwapCounts ==
  ASSUME NEW p \in Key, NEW r \in Key, p # r, NEW A \in SUBSET Key,
         NEW B, B = {z \in Key : Swap(p, r, z) \in A}
  PROVE  Cardinality(B) = Cardinality(A)
<1>1. IsFiniteSet(A)
  BY KeysAre
<1>2. ASSUME NEW a \in Key, NEW b \in Key, a # b, a \in A, b \notin A
      PROVE  Cardinality((A \ {a}) \cup {b}) = Cardinality(A)
  <2>1. Cardinality(A \ {a}) = Cardinality(A) - 1 /\ IsFiniteSet(A \ {a}) /\ Cardinality(A) \in Nat
    BY <1>1, <1>2, FS_RemoveElement, FS_CardinalityType
  <2>2. b \notin A \ {a}
    BY <1>2
  <2>3. Cardinality((A \ {a}) \cup {b}) = Cardinality(A \ {a}) + 1
    BY <2>1, <2>2, FS_AddElement
  <2> QED
    BY <2>1, <2>3
<1>3. \A x \in Key : Swap(p, r, x) = IF x = p THEN r ELSE IF x = r THEN p ELSE x
  BY DEF Swap
<1>4. CASE (p \in A) <=> (r \in A)
  <2>1. B = A
    BY <1>3, <1>4
  <2> QED
    BY <2>1
<1>5. CASE p \in A /\ r \notin A
  <2>1. B = (A \ {p}) \cup {r}
    BY <1>3, <1>5
  <2> QED
    BY <1>2, <1>5, <2>1
<1>6. CASE r \in A /\ p \notin A
  <2>1. B = (A \ {r}) \cup {p}
    BY <1>3, <1>6
  <2> QED
    BY <1>2, <1>6, <2>1
<1> QED
  BY <1>4, <1>5, <1>6

LEMMA SwapRises ==
  ASSUME NEW N, NEW path, NEW L, L = Len(path), L >= 1, NEW g, Rising(g, N, path, L, FALSE),
         IsPath(g, path),
         NEW p \in N, NEW r \in Key, r \notin N, Neighbours(N, p, r),
         NEW h, Swapped(g, h, p, r)
  PROVE  Rising(h, (N \ {p}) \cup {r}, SwappedPath(path, p, r), L, FALSE)
<1>1. PICK up, sub, ht :
        /\ Structure(g, up, sub) /\ N = sub[Kid(g, Root, 0)]
        /\ Bal(g, Root) = 0 /\ Siz(g, Root) = 1
        /\ L = 1 => Balanced(g, ht, {})
        /\ L # 1 => Balanced(g, ht, {path[L].x}) /\ Sunk(g, ht, path[L].x, path[L].d)
  BY DEF Rising
<1> DEFINE s(x) == Swap(p, r, x)
           up2 == SwappedUp(up, p, r)
           sub2 == SwappedSub(sub, p, r)
           ht2 == SwappedHeights(ht, p, r)
           way == SwappedPath(path, p, r)
<1>2. N \in SUBSET Key /\ p \in Key /\ p # r
  BY <1>1, TreeIs
<1>3. /\ \A x \in Key : s(x) \in Key /\ s(s(x)) = x
      /\ s(Root) = Root /\ s(Null) = Null /\ s(p) = r /\ s(r) = p
      /\ \A x \in Key : x # p => (x # r => s(x) = x)
  BY <1>2, SwapIs
<1>4. /\ \A x \in Child : s(x) \in Child /\ s(s(x)) = x
      /\ \A x \in Key \cup {Root} : s(x) \in Key \cup {Root} /\ s(s(x)) = x
  BY <1>3 DEF Child
<1>5. /\ h \in Heads
      /\ \A x \in Key \cup {Root} :
           /\ \A e \in 0..1 : Kid(h, s(x), e) = s(Kid(g, x, e))
           /\ Bal(h, s(x)) = Bal(g, x) /\ Siz(h, s(x)) = Siz(g, x)
  BY DEF Swapped
<1> HIDE DEF s
<1>6. /\ sub \in [Child -> SUBSET Key] /\ up \in [Key -> Place] /\ ht \in [Child -> Nat] /\ ht[Null] = 0
      /\ sub[Null] = {} /\ Kid(g, Root, 1) = Null
  BY <1>1 DEF Structure, Balanced
<1>7. /\ sub2 \in [Child -> SUBSET Key] /\ ht2 \in [Child -> Nat] /\ up2 \in [Key -> Place]
      /\ \A y \in Child : sub2[y] = {z \in Key : s(z) \in sub[s(y)]} /\ ht2[y] = ht[s(y)]
      /\ \A y \in Key : up2[y] = <<s(up[s(y)][1]), up[s(y)][2]>>
  <2>1. ht2 \in [Child -> Nat] /\ \A y \in Child : ht2[y] = ht[s(y)]
    BY <1>4, <1>6 DEF SwappedHeights, s
  <2>2. sub2 \in [Child -> SUBSET Key] /\ \A y \in Child : sub2[y] = {z \in Key : s(z) \in sub[s(y)]}
    BY DEF SwappedSub, s
  <2>3. up2 \in [Key -> Place] /\ \A y \in Key : up2[y] = <<s(up[s(y)][1]), up[s(y)][2]>>
    <3>1. \A y \in Key : up2[y] = <<s(up[s(y)][1]), up[s(y)][2]>>
      BY DEF SwappedUp, s
    <3>2. \A y \in Key : up[s(y)] \in Place
      BY <1>3, <1>6
    <3>3. \A y \in Key : <<s(up[s(y)][1]), up[s(y)][2]>> \in Place
      BY <1>4, <3>2 DEF Place
    <3>4. up2 = [y \in Key |-> up2[y]]
      BY DEF SwappedUp
    <3> HIDE DEF up2
    <3> QED
      BY <3>1, <3>3, <3>4
  <2> QED
    BY <2>1, <2>2, <2>3
<1> HIDE DEF sub2, ht2, up2
<1>8. ASSUME NEW x \in Key \cup {Root}, NEW e \in 0..1
      PROVE  /\ Kid(h, x, e) = s(Kid(g, s(x), e)) /\ Kid(h, x, e) \in Child
             /\ s(Kid(h, x, e)) = Kid(g, s(x), e) /\ Kid(g, s(x), e) \in Child
             /\ Bal(h, x) = Bal(g, s(x)) /\ Siz(h, x) = Siz(g, s(x))
  <2>1. s(x) \in Key \cup {Root} /\ s(s(x)) = x
    BY <1>4
  <2>2. Kid(g, s(x), e) \in Child
    BY <1>1, <2>1, KidsAre
  <2>3. /\ Kid(h, x, e) = s(Kid(g, s(x), e))
        /\ Bal(h, x) = Bal(g, s(x)) /\ Siz(h, x) = Siz(g, s(x))
    BY <1>5, <2>1
  <2> QED
    BY <1>4, <2>2, <2>3
<1>9. ASSUME NEW x \in Key \cup {Root}, NEW e \in 0..1
      PROVE  /\ \A z \in Key : z \in sub2[Kid(h, x, e)] <=> s(z) \in sub[Kid(g, s(x), e)]
             /\ ht2[Kid(h, x, e)] = ht[Kid(g, s(x), e)]
  BY <1>7, <1>8
<1>10. sub2[Null] = {} /\ ht2[Null] = 0 /\ Kid(h, Root, 1) = Null
  <2>1. Null \in Child
    BY DEF Child
  <2>2. Kid(h, Root, 1) = s(Kid(g, Root, 1))
    BY <1>3, <1>8
  <2> QED
    BY <1>3, <1>6, <1>7, <2>1, <2>2
<1>11. ASSUME NEW x \in Key \cup {Root}, NEW e \in 0..1, Kid(h, x, e) # Null
       PROVE  up2[Kid(h, x, e)] = <<x, e>>
  <2>1. Kid(h, x, e) \in Key /\ s(Kid(h, x, e)) \in Key /\ s(Kid(h, x, e)) = Kid(g, s(x), e)
    BY <1>3, <1>8, <1>11 DEF Child
  <2>2. Kid(g, s(x), e) # Null /\ s(x) \in Key \cup {Root} /\ s(s(x)) = x
    BY <1>4, <2>1, KeysAre
  <2>3. up[Kid(g, s(x), e)] = <<s(x), e>>
    BY <1>1, <2>2 DEF Structure
  <2>4. up2[Kid(h, x, e)] = <<s(s(x)), e>>
    BY <1>7, <2>1, <2>3
  <2> QED
    BY <2>2, <2>4
<1>12. ASSUME NEW x \in Key
       PROVE  sub2[x] = {x} \cup sub2[Kid(h, x, 0)] \cup sub2[Kid(h, x, 1)]
  <2>1. s(x) \in Key /\ s(s(x)) = x /\ x \in Child
    BY <1>3 DEF Child
  <2>2. sub[s(x)] = {s(x)} \cup sub[Kid(g, s(x), 0)] \cup sub[Kid(g, s(x), 1)]
    BY <1>1, <2>1 DEF Structure
  <2>3. \A z \in Key : s(z) = s(x) <=> z = x
    BY <1>3
  <2>4. \A z \in Key : z \in sub2[x] <=> s(z) \in sub[s(x)]
    BY <1>7, <2>1
  <2>5. Kid(h, x, 0) \in Child /\ Kid(h, x, 1) \in Child
    BY <1>8
  <2>6. sub2[x] \subseteq Key /\ sub2[Kid(h, x, 0)] \subseteq Key /\ sub2[Kid(h, x, 1)] \subseteq Key
    BY <1>7, <2>1, <2>5
  <2> QED
    BY <1>9, <2>2, <2>3, <2>4, <2>6
<1>13. ASSUME NEW x \in N, NEW y \in N, NEW e \in 0..1, Beyond(x, y, e)
       PROVE  Beyond(s(x), s(y), e)
  <2>1. /\ x \in Int /\ y \in Int /\ p \in Int /\ r \in Int
        /\ x # r /\ y # r
    BY <1>2, KeysAre
  <2>2. /\ x # p => ((x < p) <=> (x < r)) /\ x # r
        /\ y # p => ((y < p) <=> (y < r)) /\ y # r
    BY <2>1 DEF Neighbours
  <2>3. s(x) = (IF x = p THEN r ELSE x) /\ s(y) = (IF y = p THEN r ELSE y)
    BY <2>1 DEF s, Swap
  <2> QED
    BY <1>13, <2>1, <2>2, <2>3 DEF Beyond
<1>14. ASSUME NEW x \in Key, NEW e \in 0..1, NEW z \in sub2[Kid(h, x, e)]
       PROVE  Beyond(x, z, e)
  <2>1. Kid(h, x, e) \in Child /\ z \in Key /\ s(x) \in Key /\ s(s(x)) = x /\ s(s(z)) = z
    BY <1>3, <1>7, <1>8
  <2>2. s(z) \in sub[Kid(g, s(x), e)]
    BY <1>9, <2>1
  <2>3. Beyond(s(x), s(z), e)
    BY <1>1, <2>1, <2>2 DEF Structure
  <2>4. s(x) \in N /\ s(z) \in N
    <3>1. Kid(g, s(x), e) # Null
      BY <1>6, <2>2
    <3>2. s(x) \in N /\ Kid(g, s(x), e) \in N
      BY <1>1, <2>1, <3>1, TreeIs, KeysAre
    <3>3. sub[Kid(g, s(x), e)] \subseteq N
      BY <1>1, <3>2, TreeIs
    <3> QED
      BY <2>2, <3>2, <3>3
  <2>5. Beyond(s(s(x)), s(s(z)), e)
    BY <1>13, <2>3, <2>4
  <2> QED
    BY <2>1, <2>5
<1>15. ASSUME NEW x \in Key PROVE Siz(h, x) = Cardinality(sub2[x])
  <2>1. s(x) \in Key /\ x \in Child /\ sub[s(x)] \in SUBSET Key
    BY <1>3, <1>6 DEF Child
  <2>2. sub2[x] = {z \in Key : Swap(p, r, z) \in sub[s(x)]}
    BY <1>7, <2>1 DEF s
  <2>3. Cardinality(sub2[x]) = Cardinality(sub[s(x)])
    BY <1>2, <2>1, <2>2, SwapCounts
  <2> QED
    BY <1>1, <1>8, <2>1, <2>3 DEF Structure
<1>16. sub2[Kid(h, Root, 0)] = (N \ {p}) \cup {r}
  <2>1. \A z \in Key : z \in sub2[Kid(h, Root, 0)] <=> s(z) \in N
    BY <1>1, <1>3, <1>9
  <2>2. sub2[Kid(h, Root, 0)] \subseteq Key
    BY <1>7, <1>8
  <2>3. \A z \in Key : s(z) \in N <=> z \in (N \ {p}) \cup {r}
    BY <1>2, <1>3
  <2> QED
    BY <1>2, <2>1, <2>2, <2>3
<1>17. ASSUME NEW x \in Key, x \notin sub2[Kid(h, Root, 0)]
       PROVE  Kid(h, x, 0) = Null /\ Kid(h, x, 1) = Null
  <2>1. s(x) \in Key /\ s(x) \notin N
    BY <1>1, <1>3, <1>9, <1>17
  <2>2. Kid(g, s(x), 0) = Null /\ Kid(g, s(x), 1) = Null
    BY <1>1, <2>1 DEF Structure
  <2>3. Kid(h, x, 0) = s(Kid(g, s(x), 0)) /\ Kid(h, x, 1) = s(Kid(g, s(x), 1))
    BY <1>8
  <2> QED
    BY <1>3, <2>2, <2>3
<1>18. Structure(h, up2, sub2)
  BY <1>5, <1>7, <1>10, <1>11, <1>12, <1>14, <1>15, <1>17 DEF Structure
<1>19. ASSUME NEW x \in Key, BalancedAt(g, ht, s(x))
       PROVE  BalancedAt(h, ht2, x)
  <2>1. ht2[x] = ht[s(x)] /\ Bal(h, x) = Bal(g, s(x))
    BY <1>7, <1>8 DEF Child
  <2>2. ht2[Kid(h, x, 0)] = ht[Kid(g, s(x), 0)] /\ ht2[Kid(h, x, 1)] = ht[Kid(g, s(x), 1)]
    BY <1>9
  <2> QED
    BY <1>19, <2>1, <2>2 DEF BalancedAt
<1>20. Bal(h, Root) = 0 /\ Siz(h, Root) = 1
  BY <1>1, <1>3, <1>8
<1>21. /\ L \in Nat /\ path \in Seq(Steps) /\ path[1] = [x |-> Root, d |-> 0]
       /\ \A n \in 1..L : path[n].x \in Key \cup {Root} /\ path[n].d \in 0..1
       /\ \A n \in 2..L : path[n].x \in Key /\ path[n].x = Kid(g, path[n - 1].x, path[n - 1].d)
       /\ \A m, n \in 1..L : path[m].x = path[n].x => m = n
  <2>1. /\ L \in Nat /\ \A n \in 1..L : path[n].x \in Key \cup {Root} /\ path[n].d \in 0..1
    BY <1>1, OnPath
  <2> QED
    BY <2>1 DEF IsPath
<1>22. /\ way \in Seq(Steps) /\ Len(way) = L
       /\ \A n \in 1..L : way[n].x = s(path[n].x) /\ way[n].d = path[n].d
  <2>1. \A n \in 1..L : [x |-> s(path[n].x), d |-> path[n].d] \in Steps
    BY <1>4, <1>21 DEF Steps
  <2>2. way = [n \in 1..L |-> [x |-> s(path[n].x), d |-> path[n].d]]
    BY DEF SwappedPath, s
  <2> HIDE DEF way
  <2> QED
    BY <1>21, <2>1, <2>2
<1> HIDE DEF way
<1>23. IsPath(h, way)
  <2>1. way[1] = [x |-> Root, d |-> 0]
    <3>1. 1 \in 1..L /\ way[1] \in Steps
      BY <1>21, <1>22
    <3>2. way[1].x = Root /\ way[1].d = 0
      BY <1>3, <1>21, <1>22, <3>1
    <3> QED
      BY <3>1, <3>2 DEF Steps
  <2>2. ASSUME NEW n \in 2..L
        PROVE  way[n].x \in Key /\ way[n].x = Kid(h, way[n - 1].x, way[n - 1].d)
    <3>1. n \in 1..L /\ n - 1 \in 1..L
      BY <1>21
    <3>2. path[n].x \in Key /\ path[n].x = Kid(g, path[n - 1].x, path[n - 1].d)
      BY <1>21
    <3>3. Kid(h, s(path[n - 1].x), path[n - 1].d) = s(Kid(g, path[n - 1].x, path[n - 1].d))
      BY <1>5, <1>21, <3>1
    <3> QED
      BY <1>3, <1>22, <3>1, <3>2, <3>3
  <2>3. ASSUME NEW m \in 1..L, NEW n \in 1..L, way[m].x = way[n].x PROVE m = n
    <3>1. s(path[m].x) = s(path[n].x) /\ path[m].x \in Key \cup {Root} /\ path[n].x \in Key \cup {Root}
      BY <1>21, <1>22, <2>3
    <3>2. path[m].x = path[n].x
      <4>1. s(s(path[m].x)) = path[m].x /\ s(s(path[n].x)) = path[n].x
        BY <1>4, <3>1
      <4> QED
        BY <3>1, <4>1
    <3> QED
      BY <1>21, <3>2
  <2> QED
    BY <1>22, <2>1, <2>2, <2>3 DEF IsPath
<1>24. IsPath(h, Upto(way, L))
  <2>1. Upto(way, L) = way
    BY <1>22 DEF Upto
  <2> QED
    BY <1>23, <2>1
<1>25. CASE L = 1
  <2>1. \A x \in Key : BalancedAt(g, ht, s(x))
    BY <1>1, <1>3, <1>25 DEF Balanced
  <2>2. Balanced(h, ht2, {})
    BY <1>7, <1>10, <1>19, <2>1 DEF Balanced
  <2> QED
    BY <1>16, <1>18, <1>20, <1>24, <1>25, <2>2 DEF Rising, way
<1>26. CASE L # 1
  <2>1. PICK z \in Key, e \in 0..1 : z = path[L].x /\ e = path[L].d /\ way[L].x = s(z) /\ way[L].d = e
    <3>1. L \in 2..L /\ L \in 1..L
      BY <1>21, <1>26
    <3> QED
      BY <1>21, <1>22, <3>1
  <2>2. Balanced(g, ht, {z}) /\ Sunk(g, ht, z, e)
    BY <1>1, <1>26, <2>1
  <2>3. s(z) \in Key /\ s(s(z)) = z /\ 1 - e \in 0..1
    BY <1>3
  <2>4. ASSUME NEW x \in Key \ {s(z)} PROVE BalancedAt(h, ht2, x)
    <3>1. s(x) \in Key /\ s(x) # z
      BY <1>3
    <3> QED
      BY <1>19, <2>2, <3>1 DEF Balanced
  <2>5. Balanced(h, ht2, {s(z)})
    BY <1>7, <1>10, <2>4 DEF Balanced
  <2>6. /\ ht2[s(z)] = ht[z] /\ Bal(h, s(z)) = Bal(g, z)
        /\ ht2[Kid(h, s(z), e)] = ht[Kid(g, z, e)] /\ ht2[Kid(h, s(z), 1 - e)] = ht[Kid(g, z, 1 - e)]
    <3>1. ht2[s(z)] = ht[s(s(z))] /\ Bal(h, s(z)) = Bal(g, s(s(z)))
      BY <1>7, <1>8, <2>3 DEF Child
    <3>2. /\ ht2[Kid(h, s(z), e)] = ht[Kid(g, s(s(z)), e)]
          /\ ht2[Kid(h, s(z), 1 - e)] = ht[Kid(g, s(s(z)), 1 - e)]
      BY <1>9, <2>3
    <3> QED
      BY <2>3, <3>1, <3>2
  <2>7. Sunk(h, ht2, s(z), e)
    BY <2>2, <2>6 DEF Sunk
  <2> QED
    BY <1>16, <1>18, <1>20, <1>24, <1>26, <2>1, <2>5, <2>7 DEF Rising, way
<1> QED
  BY <1>25, <1>26

-----------------------------------------------------------------------------
(***************************************************************************)
(* Deletion.                                                               *)
(***************************************************************************)
Node == [p : [0..1 -> Child], balance : Int, size : Int]

LEMMA ShrinkIs ==
  ASSUME NEW g \in Heads, NEW S
  PROVE  /\ Shrink(g, S) \in Heads
         /\ \A x \in Key \cup {Root}, e \in 0..1 : Kid(Shrink(g, S), x, e) = Kid(g, x, e)
         /\ \A x \in Key \cup {Root} :
              /\ Bal(Shrink(g, S), x) = Bal(g, x)
              /\ Siz(Shrink(g, S), x) = IF x \in S THEN Siz(g, x) - 1 ELSE Siz(g, x)
<1> DEFINE h == Shrink(g, S)
<1>1. g \in [Key \cup {Root} -> [p : [0..1 -> Child], balance : Int, size : Int]]
  BY DEF Heads
<1>2. h = [x \in Key \cup {Root} |-> IF x \in S THEN [g[x] EXCEPT !.size = @ - 1] ELSE g[x]]
  BY <1>1 DEF Shrink
<1>3. ASSUME NEW x \in Key \cup {Root}
      PROVE  /\ h[x] \in [p : [0..1 -> Child], balance : Int, size : Int]
             /\ h[x].p = g[x].p /\ h[x].balance = g[x].balance
             /\ h[x].size = IF x \in S THEN g[x].size - 1 ELSE g[x].size
  <2>1. h[x] = IF x \in S THEN [g[x] EXCEPT !.size = @ - 1] ELSE g[x]
    BY <1>2
  <2>2. g[x] \in [p : [0..1 -> Child], balance : Int, size : Int]
    BY <1>1
  <2> QED
    BY <2>1, <2>2
<1>4. h \in Heads
  BY <1>2, <1>3 DEF Heads
<1> HIDE DEF h
<1> QED
  BY <1>3, <1>4 DEF Kid, Bal, Siz, h

SetNode(g, a, node) == [g EXCEPT ![a] = node]

LEMMA NodeChanges ==
  ASSUME NEW g \in Heads, NEW a \in Key \cup {Root}, NEW node \in Node
  PROVE  /\ SetNode(g, a, node) \in Heads
         /\ \A x \in Key \cup {Root} : SetNode(g, a, node)[x] = IF x = a THEN node ELSE g[x]
BY DEF Heads, Node, SetNode

\* What is made of g before the way up: p is out, and r, if there is one, in its place.
Removed(g, path, p, r, between) ==
  LET out == SetNode(Shrink(g, Passed(path, 2)), p, Bare)
      moved == SetNode(Link(Shrink(out, ToSet(between)), Last(path), r), r,
                       InPlaceOf(g, p, r, between))
  IN  IF between = <<>> THEN moved ELSE SetKid(moved, Last(between), 0, Kid(g, r, 1))

EmptyPlace(g, path, p) == Link(SetNode(Shrink(g, Passed(path, 2)), p, Bare), Last(path), Kid(g, p, 0))

\* the way up, on which r is in p's place or where p is still
WayVia(path, x, between) ==
  path \o <<[x |-> x, d |-> 1]>> \o [n \in DOMAIN between |-> [x |-> between[n], d |-> 0]]

LEMMA EraseAtIs ==
  ASSUME NEW g, NEW p, NEW down, down = Outermost(g, <<>>, Kid(g, p, 1), 0)
  PROVE  EraseAt(g, p) =
           IF down = <<>> THEN Rebalance(EmptyPlace(g, PathTo(g, p), p), PathTo(g, p))
           ELSE Rebalance(Removed(g, PathTo(g, p), p, Last(down), Front(down)),
                          WayVia(PathTo(g, p), Last(down), Front(down)))
<1> DEFINE way == Outermost(g, <<>>, Kid(g, p, 1), 0)
<1>1. EraseAt(g, p) =
        IF way = <<>> THEN Rebalance(EmptyPlace(g, PathTo(g, p), p), PathTo(g, p))
        ELSE Rebalance(Removed(g, PathTo(g, p), p, Last(way), Front(way)),
                       WayVia(PathTo(g, p), Last(way), Front(way)))
  BY Zenon DEF EraseAt, EmptyPlace, Removed, WayVia, SetNode, SetKid, Kid
<1>2. way = down
  OBVIOUS
<1> HIDE DEF way
<1> QED
  BY <1>1, <1>2

LEMMA BareIsNode == Bare \in Node /\ Bare.balance = 0 /\ Bare.size = 1 /\ \A e \in 0..1 : Bare.p[e] = Null
BY DEF Bare, Node, Child

\* p taken out of g
LEMMA OutIs ==
  ASSUME NEW g \in Heads, NEW S, NEW p \in Key, NEW h, h = SetNode(Shrink(g, S), p, Bare)
  PROVE  /\ h \in Heads
         /\ \A x \in Key \cup {Root}, e \in 0..1 : Kid(h, x, e) = IF x = p THEN Null ELSE Kid(g, x, e)
         /\ \A x \in Key \cup {Root} :
              /\ Bal(h, x) = IF x = p THEN 0 ELSE Bal(g, x)
              /\ Siz(h, x) = IF x = p THEN 1 ELSE IF x \in S THEN Siz(g, x) - 1 ELSE Siz(g, x)
<1> DEFINE s == Shrink(g, S)
<1>1. /\ s \in Heads
      /\ \A x \in Key \cup {Root}, e \in 0..1 : Kid(s, x, e) = Kid(g, x, e)
      /\ \A x \in Key \cup {Root} :
           /\ Bal(s, x) = Bal(g, x) /\ Siz(s, x) = IF x \in S THEN Siz(g, x) - 1 ELSE Siz(g, x)
  BY ShrinkIs
<1>2. h = SetNode(s, p, Bare)
  OBVIOUS
<1> HIDE DEF s
<1>3. h \in Heads /\ \A x \in Key \cup {Root} : h[x] = IF x = p THEN Bare ELSE s[x]
  BY <1>1, <1>2, BareIsNode, NodeChanges
<1> QED
  BY <1>1, <1>3, BareIsNode DEF Kid, Bal, Siz

LEMMA EmptyPlaceIs ==
  ASSUME NEW g \in Heads, NEW path \in Seq(Steps), Len(path) >= 1, NEW p \in Key,
         NEW at, at = path[Len(path)], at.x # p, NEW c \in Child, c = Kid(g, p, 0),
         NEW h, h = EmptyPlace(g, path, p)
  PROVE  CutOut(g, h, path, p, c)
<1> DEFINE o == SetNode(Shrink(g, Passed(path, 2)), p, Bare)
<1>1. at \in Steps /\ at.x \in Key \cup {Root} /\ at.d \in 0..1
  <2>1. Len(path) \in 1..Len(path)
    OBVIOUS
  <2>2. at \in Steps
    BY <2>1
  <2> QED
    BY <2>2 DEF Steps
<1>2. /\ o \in Heads
      /\ \A x \in Key \cup {Root}, e \in 0..1 : Kid(o, x, e) = IF x = p THEN Null ELSE Kid(g, x, e)
      /\ \A x \in Key \cup {Root} :
           /\ Bal(o, x) = IF x = p THEN 0 ELSE Bal(g, x)
           /\ Siz(o, x) = IF x = p THEN 1
                          ELSE IF x \in Passed(path, 2) THEN Siz(g, x) - 1 ELSE Siz(g, x)
  BY OutIs
<1>3. h = SetKid(o, at.x, at.d, c)
  BY DEF EmptyPlace, Link, Last, SetKid
<1> HIDE DEF o
<1>4. KidChanged(o, h, at.x, at.d, c)
  BY <1>1, <1>2, <1>3, KidChanges
<1>5. /\ h \in Heads
      /\ \A x \in Key \cup {Root}, e \in 0..1 :
           Kid(h, x, e) = IF x = at.x /\ e = at.d THEN c ELSE Kid(o, x, e)
      /\ \A x \in Key \cup {Root} : Bal(h, x) = Bal(o, x) /\ Siz(h, x) = Siz(o, x)
  BY <1>4 DEF KidChanged
<1> QED
  BY <1>2, <1>5 DEF CutOut

\* the nodes after r has taken p's place
RemovedAre(g, h, S, a, b, p, r, between) ==
  /\ h \in Heads
  /\ \A x \in Key \cup {Root}, e \in 0..1 :
       Kid(h, x, e) =
         IF x = r THEN (IF e = 1 /\ between = <<>> THEN Kid(g, r, 1) ELSE Kid(g, p, e))
         ELSE IF between # <<>> /\ x = Last(between) /\ e = 0 THEN Kid(g, r, 1)
         ELSE IF x = a /\ e = b THEN r
         ELSE IF x = p THEN Null
         ELSE Kid(g, x, e)
  /\ \A x \in Key \cup {Root} :
       /\ Bal(h, x) = IF x = r THEN Bal(g, p) ELSE IF x = p THEN 0 ELSE Bal(g, x)
       /\ Siz(h, x) = IF x = r THEN Siz(g, p) - 1
                      ELSE IF x = p THEN 1
                      ELSE IF x \in S \/ x \in ToSet(between) THEN Siz(g, x) - 1
                      ELSE Siz(g, x)

LEMMA RemovedIs ==
  ASSUME NEW g \in Heads, NEW path \in Seq(Steps), Len(path) >= 1, NEW p \in Key, NEW r \in Key,
         p # r, NEW between \in Seq(Key), r \notin ToSet(between), p \notin ToSet(between),
         Passed(path, 2) \cap ToSet(between) = {}, NEW at, at = path[Len(path)],
         at.x # p, at.x # r, NEW h, h = Removed(g, path, p, r, between)
  PROVE  RemovedAre(g, h, Passed(path, 2), at.x, at.d, p, r, between)
<1> DEFINE S == Passed(path, 2)
           T == ToSet(between)
           o == SetNode(Shrink(g, S), p, Bare)
           s == Shrink(o, T)
           l == SetKid(s, at.x, at.d, r)
           node == InPlaceOf(g, p, r, between)
           m == SetNode(l, r, node)
<1>1. at \in Steps /\ at.x \in Key \cup {Root} /\ at.d \in 0..1 /\ r \in Child
  <2>1. Len(path) \in 1..Len(path)
    OBVIOUS
  <2>2. at \in Steps
    BY <2>1
  <2> QED
    BY <2>2 DEF Steps, Child
<1>2. /\ o \in Heads
      /\ \A x \in Key \cup {Root}, e \in 0..1 : Kid(o, x, e) = IF x = p THEN Null ELSE Kid(g, x, e)
      /\ \A x \in Key \cup {Root} :
           /\ Bal(o, x) = IF x = p THEN 0 ELSE Bal(g, x)
           /\ Siz(o, x) = IF x = p THEN 1 ELSE IF x \in S THEN Siz(g, x) - 1 ELSE Siz(g, x)
  BY OutIs
<1>3. h = IF between = <<>> THEN m ELSE SetKid(m, Last(between), 0, Kid(g, r, 1))
  BY DEF Removed, Link, Last, SetKid
<1>4. /\ s \in Heads
      /\ \A x \in Key \cup {Root}, e \in 0..1 : Kid(s, x, e) = Kid(o, x, e)
      /\ \A x \in Key \cup {Root} :
           /\ Bal(s, x) = Bal(o, x) /\ Siz(s, x) = IF x \in T THEN Siz(o, x) - 1 ELSE Siz(o, x)
  <2> HIDE DEF o
  <2> QED
    BY <1>2, ShrinkIs
<1> HIDE DEF s, o
<1>5. KidChanged(s, l, at.x, at.d, r)
  BY <1>1, <1>4, KidChanges
<1>6. /\ l \in Heads
      /\ \A x \in Key \cup {Root}, e \in 0..1 :
           Kid(l, x, e) = IF x = at.x /\ e = at.d THEN r ELSE Kid(s, x, e)
      /\ \A x \in Key \cup {Root} : Bal(l, x) = Bal(s, x) /\ Siz(l, x) = Siz(s, x)
  BY <1>5 DEF KidChanged
<1>7. /\ node \in Node
      /\ node.balance = Bal(g, p) /\ node.size = Siz(g, p) - 1
      /\ \A e \in 0..1 : node.p[e] = IF e = 1 /\ between = <<>> THEN Kid(g, r, 1) ELSE Kid(g, p, e)
  <2>1. Bal(g, p) \in Int /\ Siz(g, p) \in Int /\ \A e \in 0..1 : Kid(g, p, e) \in Child /\ Kid(g, r, e) \in Child
    BY DEF Heads, Bal, Siz, Kid
  <2>2. /\ Kid(g, r, 1) \in Child
        /\ \A e \in 0..1 : (IF e = 1 /\ between = <<>> THEN Kid(g, r, 1) ELSE Kid(g, p, e)) \in Child
    BY <2>1
  <2>3. node = [p |-> [e \in 0..1 |-> IF e = 1 /\ between = <<>> THEN Kid(g, r, 1) ELSE Kid(g, p, e)],
                balance |-> Bal(g, p), size |-> Siz(g, p) - 1]
    BY DEF InPlaceOf, Kid, Bal, Siz
  <2> HIDE DEF node
  <2> QED
    BY <2>1, <2>2, <2>3 DEF Node
<1> HIDE DEF l, node
<1>8. m \in Heads /\ \A x \in Key \cup {Root} : m[x] = IF x = r THEN node ELSE l[x]
  BY <1>6, <1>7, NodeChanges
<1> HIDE DEF m
<1>9. /\ \A x \in Key \cup {Root}, e \in 0..1 :
           Kid(m, x, e) =
             IF x = r THEN (IF e = 1 /\ between = <<>> THEN Kid(g, r, 1) ELSE Kid(g, p, e))
             ELSE IF x = at.x /\ e = at.d THEN r
             ELSE IF x = p THEN Null
             ELSE Kid(g, x, e)
      /\ \A x \in Key \cup {Root} :
           /\ Bal(m, x) = IF x = r THEN Bal(g, p) ELSE IF x = p THEN 0 ELSE Bal(g, x)
           /\ Siz(m, x) = IF x = r THEN Siz(g, p) - 1
                          ELSE IF x = p THEN 1
                          ELSE IF x \in S \/ x \in T THEN Siz(g, x) - 1
                          ELSE Siz(g, x)
  <2>1. ASSUME NEW x \in Key \cup {Root}
        PROVE  /\ \A e \in 0..1 : Kid(m, x, e) = IF x = r THEN node.p[e] ELSE Kid(l, x, e)
               /\ Bal(m, x) = IF x = r THEN node.balance ELSE Bal(l, x)
               /\ Siz(m, x) = IF x = r THEN node.size ELSE Siz(l, x)
    BY <1>8 DEF Kid, Bal, Siz
  <2>2. ASSUME NEW x \in Key \cup {Root}, NEW e \in 0..1
        PROVE  Kid(m, x, e) =
                 IF x = r THEN (IF e = 1 /\ between = <<>> THEN Kid(g, r, 1) ELSE Kid(g, p, e))
                 ELSE IF x = at.x /\ e = at.d THEN r
                 ELSE IF x = p THEN Null
                 ELSE Kid(g, x, e)
    BY <1>2, <1>4, <1>6, <1>7, <2>1
  <2>3. ASSUME NEW x \in Key \cup {Root}
        PROVE  Bal(m, x) = IF x = r THEN Bal(g, p) ELSE IF x = p THEN 0 ELSE Bal(g, x)
    BY <1>2, <1>4, <1>6, <1>7, <2>1
  <2>4. ASSUME NEW x \in Key \cup {Root}
        PROVE  Siz(m, x) = IF x = r THEN Siz(g, p) - 1
                           ELSE IF x = p THEN 1
                           ELSE IF x \in S \/ x \in T THEN Siz(g, x) - 1
                           ELSE Siz(g, x)
    <3>1. (x \in S => x \notin T) /\ r \notin T /\ p \notin T
      OBVIOUS
    <3> HIDE DEF S, T
    <3> QED
      BY <1>2, <1>4, <1>6, <1>7, <2>1, <3>1
  <2> QED
    BY <2>2, <2>3, <2>4
<1>10. CASE between = <<>>
  <2>1. h = m
    BY <1>3, <1>10
  <2> HIDE DEF S, T
  <2> QED
    BY <1>8, <1>9, <1>10, <2>1 DEF RemovedAre, S, T
<1>11. CASE between # <<>>
  <2>1. Last(between) \in Key /\ Last(between) \in T
    <3>1. Len(between) \in 1..Len(between)
      BY <1>11
    <3> QED
      BY <3>1 DEF Last, ToSet
  <2> DEFINE z == Last(between)
  <2>2. z \in Key /\ z # r /\ z # p
    BY <2>1
  <2> HIDE DEF z
  <2>3. h = SetKid(m, z, 0, Kid(g, r, 1)) /\ Kid(g, r, 1) \in Child
    BY <1>3, <1>11 DEF z, Heads, Kid
  <2>4. KidChanged(m, h, z, 0, Kid(g, r, 1))
    BY <1>8, <2>2, <2>3, KidChanges
  <2>5. /\ h \in Heads
        /\ \A x \in Key \cup {Root}, e \in 0..1 :
             Kid(h, x, e) = IF x = z /\ e = 0 THEN Kid(g, r, 1) ELSE Kid(m, x, e)
        /\ \A x \in Key \cup {Root} : Bal(h, x) = Bal(m, x) /\ Siz(h, x) = Siz(m, x)
    BY <2>4 DEF KidChanged
  <2> HIDE DEF S, T
  <2>6. ASSUME NEW x \in Key \cup {Root}, NEW e \in 0..1
        PROVE  Kid(h, x, e) =
                 IF x = r THEN (IF e = 1 /\ between = <<>> THEN Kid(g, r, 1) ELSE Kid(g, p, e))
                 ELSE IF between # <<>> /\ x = z /\ e = 0 THEN Kid(g, r, 1)
                 ELSE IF x = at.x /\ e = at.d THEN r
                 ELSE IF x = p THEN Null
                 ELSE Kid(g, x, e)
    BY <1>9, <1>11, <2>2, <2>5
  <2> QED
    BY <1>9, <2>5, <2>6 DEF RemovedAre, S, T, z
<1> QED
  BY <1>10, <1>11

\* A way that goes from child to child passes no node twice.
LEMMA ChainIsPath ==
  ASSUME NEW g, NEW up, NEW sub, Structure(g, up, sub), NEW path \in Seq(Steps), Len(path) >= 1,
         path[1] = [x |-> Root, d |-> 0],
         \A n \in 2..Len(path) :
           path[n].x \in Key /\ path[n].x = Kid(g, path[n - 1].x, path[n - 1].d)
  PROVE  IsPath(g, path)
<1> DEFINE L == Len(path)
<1>1. L \in Nat /\ \A n \in 1..L : path[n] \in Steps
  OBVIOUS
<1>2. \A n \in 1..L : path[n].x \in Key \cup {Root} /\ path[n].d \in 0..1
  BY <1>1 DEF Steps
<1>3. /\ \A n \in 2..L : path[n].x \in Key /\ path[n].x = Kid(g, path[n - 1].x, path[n - 1].d)
      /\ path[1].x = Root
  OBVIOUS
<1> HIDE DEF L
<1>4. ASSUME NEW m \in 2..L, NEW n \in 2..L, m < n PROVE path[m].x # path[n].x
  <2> DEFINE x == path[m].x
             S == {i \in Nat : m + 1 + i <= L => path[m + 1 + i].x \in sub[Kid(g, x, path[m].d)]}
  <2>1. x \in Key /\ path[m].d \in 0..1 /\ m \in Nat /\ n \in Nat
    BY <1>1, <1>2, <1>3
  <2>2. 0 \in S
    <3> SUFFICES ASSUME m + 1 <= L PROVE path[m + 1].x \in sub[Kid(g, x, path[m].d)]
      BY <2>1
    <3>1. m + 1 \in 2..L /\ (m + 1) - 1 = m
      <4>1. m \in Nat /\ L \in Nat /\ m >= 2
        BY <1>1
      <4> HIDE DEF S
      <4> QED
        BY <4>1
    <3>2. path[m + 1].x \in Key /\ path[m + 1].x = Kid(g, x, path[m].d)
      BY <1>3, <3>1
    <3> QED
      BY <3>2, KidsAre
  <2>3. ASSUME NEW i \in S PROVE i + 1 \in S
    <3> SUFFICES ASSUME m + 1 + (i + 1) <= L
                 PROVE  path[m + 1 + (i + 1)].x \in sub[Kid(g, x, path[m].d)]
      OBVIOUS
    <3>1. i \in Nat /\ m + 1 + i <= L /\ m + 1 + i \in 2..L /\ m + 1 + (i + 1) \in 2..L
          /\ (m + 1 + (i + 1)) - 1 = m + 1 + i /\ m + 1 + i \in 1..L
      BY <1>1, <2>1
    <3> DEFINE y == path[m + 1 + i].x
               z == path[m + 1 + (i + 1)].x
    <3>2. y \in sub[Kid(g, x, path[m].d)]
      BY <3>1
    <3>3. y \in Key /\ z \in Key /\ z = Kid(g, y, path[m + 1 + i].d) /\ path[m + 1 + i].d \in 0..1
      BY <1>2, <1>3, <3>1
    <3> HIDE DEF y, z, S, x
    <3>4. z \in sub[y]
      BY <3>3, KidsAre
    <3>5. Kid(g, x, path[m].d) \in Child
      BY <2>1, KidsAre
    <3>6. Kid(g, x, path[m].d) # Null
      <4>1. sub[Null] = {}
        BY DEF Structure
      <4> QED
        BY <3>2, <4>1
    <3>7. Kid(g, x, path[m].d) \in Key
      BY <3>5, <3>6 DEF Child
    <3>8. z \in sub[Kid(g, x, path[m].d)]
      BY <3>2, <3>4, <3>7, BelowIsTransitive
    <3> QED
      BY <3>8 DEF z, x
  <2>4. S \in SUBSET Nat
    OBVIOUS
  <2> HIDE DEF S
  <2>5. S = Nat
    BY <2>2, <2>3, <2>4, InductionOnNat
  <2>6. n - (m + 1) \in S /\ m + 1 + (n - (m + 1)) = n /\ n <= L
    BY <1>1, <1>4, <2>1, <2>5
  <2>7. path[n].x \in sub[Kid(g, x, path[m].d)]
    BY <2>6 DEF S
  <2>8. x \notin sub[Kid(g, x, path[m].d)]
    BY <2>1, KidsAre
  <2> QED
    BY <2>7, <2>8
<1>5. ASSUME NEW m \in 1..L, NEW n \in 1..L, path[m].x = path[n].x, m < n PROVE FALSE
  <2>1. n \in 2..L /\ path[n].x \in Key
    BY <1>1, <1>3, <1>5
  <2>2. CASE m = 1
    BY <1>3, <1>5, <2>1, <2>2, KeysAre
  <2>3. CASE m # 1
    <3>1. m \in 2..L
      BY <1>1, <2>3
    <3> QED
      BY <1>4, <1>5, <2>1, <3>1
  <2> QED
    BY <2>2, <2>3
<1>6. \A m, n \in 1..L : path[m].x = path[n].x => m = n
  BY <1>1, <1>5
<1> QED
  BY <1>6 DEF IsPath, L

Cat(s, t) == s \o t

LEMMA CatIs ==
  ASSUME NEW s \in Seq(Steps), NEW t \in Seq(Steps)
  PROVE  /\ Cat(s, t) \in Seq(Steps) /\ Len(Cat(s, t)) = Len(s) + Len(t)
         /\ \A n \in 1..Len(s) : Cat(s, t)[n] = s[n]
         /\ \A n \in 1..Len(t) : Cat(s, t)[Len(s) + n] = t[n]
<1>1. s \o t \in Seq(Steps) /\ Len(s \o t) = Len(s) + Len(t) /\ Len(s) \in Nat /\ Len(t) \in Nat
  OBVIOUS
<1>2. ASSUME NEW n \in 1..Len(s) PROVE (s \o t)[n] = s[n]
  OBVIOUS
<1>3. ASSUME NEW n \in 1..Len(t) PROVE (s \o t)[Len(s) + n] = t[n]
  <2>1. Len(s) + n > Len(s) /\ Len(s) + n <= Len(s) + Len(t) /\ (Len(s) + n) - Len(s) = n
    BY <1>1
  <2> QED
    BY <1>1, <2>1
<1> QED
  BY <1>1, <1>2, <1>3 DEF Cat

LEMMA FrontIs ==
  ASSUME NEW S, NEW s \in Seq(S), Len(s) >= 1
  PROVE  /\ Front(s) \in Seq(S) /\ Len(Front(s)) = Len(s) - 1
         /\ \A n \in 1..(Len(s) - 1) : Front(s)[n] = s[n]
         /\ Last(s) = s[Len(s)] /\ Last(s) \in S
<1>1. Len(s) \in Nat /\ Len(s) \in 1..Len(s) /\ Len(s) - 1 \in Nat
  OBVIOUS
<1>2. Last(s) = s[Len(s)] /\ Last(s) \in S
  BY <1>1 DEF Last
<1>3. Front(s) = SubSeq(s, 1, Len(s) - 1)
  BY DEF Front
<1>4. SubSeq(s, 1, Len(s) - 1) = [n \in 1..(Len(s) - 1) |-> s[n]]
  BY <1>1
<1>5. PICK m \in Nat : m = Len(s) - 1
  BY <1>1
<1>6. \A n \in 1..m : s[n] \in S
  BY <1>1, <1>5
<1>7. Front(s) = [n \in 1..m |-> s[n]]
  BY <1>3, <1>4, <1>5
<1>8. Front(s) \in Seq(S) /\ Len(Front(s)) = m /\ \A n \in 1..m : Front(s)[n] = s[n]
  BY <1>6, <1>7
<1> QED
  BY <1>2, <1>5, <1>8

Via(way, path, x, between) ==
  /\ way \in Seq(Steps) /\ Len(way) = Len(path) + 1 + Len(between)
  /\ \A n \in 1..Len(path) : way[n] = path[n]
  /\ way[Len(path) + 1] = [x |-> x, d |-> 1]
  /\ \A n \in 1..Len(between) : way[Len(path) + 1 + n] = [x |-> between[n], d |-> 0]

LEMMA WayIs ==
  ASSUME NEW path \in Seq(Steps), NEW x \in Key, NEW between \in Seq(Key)
  PROVE  Via(WayVia(path, x, between), path, x, between)
<1> DEFINE here == <<[x |-> x, d |-> 1]>>
           rest == [n \in DOMAIN between |-> [x |-> between[n], d |-> 0]]
<1>1. /\ [x |-> x, d |-> 1] \in Steps /\ here \in Seq(Steps) /\ Len(here) = 1
      /\ here[1] = [x |-> x, d |-> 1]
  BY DEF Steps
<1>2. DOMAIN between = 1..Len(between) /\ Len(between) \in Nat /\ Len(path) \in Nat
      /\ \A n \in 1..Len(between) : between[n] \in Key
  OBVIOUS
<1>3. rest = [n \in 1..Len(between) |-> [x |-> between[n], d |-> 0]]
  BY <1>2
<1>4. \A n \in 1..Len(between) : [x |-> between[n], d |-> 0] \in Steps
  BY <1>2 DEF Steps
<1> HIDE DEF rest
<1>5. /\ rest \in Seq(Steps) /\ Len(rest) = Len(between)
      /\ \A n \in 1..Len(between) : rest[n] = [x |-> between[n], d |-> 0]
  BY <1>2, <1>3, <1>4
<1> HIDE DEF here
<1> DEFINE most == Cat(path, here)
<1>6. /\ most \in Seq(Steps) /\ Len(most) = Len(path) + 1
      /\ \A n \in 1..Len(path) : most[n] = path[n]
      /\ most[Len(path) + 1] = [x |-> x, d |-> 1]
  <2>1. /\ most \in Seq(Steps) /\ Len(most) = Len(path) + Len(here)
        /\ \A n \in 1..Len(path) : most[n] = path[n]
        /\ \A n \in 1..Len(here) : most[Len(path) + n] = here[n]
    BY <1>1, CatIs
  <2>2. 1 \in 1..Len(here)
    BY <1>1
  <2> HIDE DEF most
  <2> QED
    BY <1>1, <2>1, <2>2
<1> HIDE DEF most
<1> DEFINE way == WayVia(path, x, between)
<1>7. way = Cat(most, rest)
  BY DEF WayVia, most, rest, here, Cat
<1> HIDE DEF way
<1>8. /\ way \in Seq(Steps) /\ Len(way) = Len(most) + Len(rest)
      /\ \A n \in 1..Len(most) : way[n] = most[n]
      /\ \A n \in 1..Len(rest) : way[Len(most) + n] = rest[n]
  BY <1>5, <1>6, <1>7, CatIs
<1>9. /\ \A n \in 1..Len(path) : n \in 1..Len(most)
      /\ Len(path) + 1 \in 1..Len(most)
  BY <1>2, <1>6
<1> QED
  BY <1>2, <1>5, <1>6, <1>8, <1>9 DEF Via, way

\* The way down to the node after p, which has nothing on its left.
WayTo(g, p, down) ==
  /\ down \in Seq(Key) /\ Len(down) >= 1
  /\ down[1] = Kid(g, p, 1)
  /\ \A n \in 1..(Len(down) - 1) : down[n + 1] = Kid(g, down[n], 0)

LEMMA DownIs ==
  ASSUME NEW g, NEW up, NEW sub, Structure(g, up, sub), NEW path, IsPath(g, path),
         NEW p \in Key, p = End(g, path), NEW down, WayTo(g, p, down),
         NEW r, r = Last(down), NEW between, between = Front(down),
         NEW way, way = WayVia(path, p, between)
  PROVE  /\ IsPath(g, way) /\ End(g, way) = r /\ r \in Key /\ between \in Seq(Key)
         /\ Passed(way, 2) = Passed(path, 2) \cup {p} \cup ToSet(between)
         /\ between = <<>> => way[Len(way)] = [x |-> p, d |-> 1]
         /\ between # <<>> => way[Len(way)] = [x |-> Last(between), d |-> 0]
<1> DEFINE L == Len(path)
           M == Len(down)
           K == Len(between)
<1>1. /\ down \in Seq(Key) /\ M \in Nat /\ M >= 1 /\ down[1] = Kid(g, p, 1)
      /\ \A n \in 1..(M - 1) : down[n + 1] = Kid(g, down[n], 0)
      /\ path \in Seq(Steps) /\ L \in Nat /\ L >= 1 /\ path[1] = [x |-> Root, d |-> 0]
      /\ \A n \in 2..L : path[n].x \in Key /\ path[n].x = Kid(g, path[n - 1].x, path[n - 1].d)
      /\ p = Kid(g, path[L].x, path[L].d)
  BY DEF WayTo, IsPath, End
<1>2. /\ between \in Seq(Key) /\ K = M - 1 /\ \A n \in 1..(M - 1) : between[n] = down[n]
      /\ r = down[M] /\ r \in Key /\ K \in Nat
  <2>1. /\ between \in Seq(Key) /\ K = M - 1 /\ \A n \in 1..(M - 1) : between[n] = down[n]
        /\ r = down[M] /\ r \in Key
    BY <1>1, FrontIs
  <2>2. K \in Nat
    BY <2>1
  <2> QED
    BY <2>1, <2>2
<1>13. L \in Nat /\ M \in Nat /\ K \in Nat /\ L >= 1 /\ K = M - 1
  BY <1>1, <1>2
<1>3. /\ way \in Seq(Steps) /\ Len(way) = L + 1 + K
      /\ \A n \in 1..L : way[n] = path[n]
      /\ way[L + 1] = [x |-> p, d |-> 1]
      /\ \A n \in 1..K : way[L + 1 + n] = [x |-> between[n], d |-> 0]
  BY <1>1, <1>2, WayIs DEF Via
<1>4. between = <<>> <=> K = 0
  BY <1>2
<1>5. K # 0 => Last(between) = between[K]
  BY DEF Last
<1> HIDE DEF L, M, K
<1>6. ASSUME NEW n \in 2..(L + 1 + K)
      PROVE  way[n].x \in Key /\ way[n].x = Kid(g, way[n - 1].x, way[n - 1].d)
  <2>1. CASE n <= L
    <3>1. n \in 2..L /\ n \in 1..L /\ n - 1 \in 1..L
      BY <1>1, <2>1
    <3> QED
      BY <1>1, <1>3, <3>1
  <2>2. CASE n = L + 1
    <3>1. n - 1 = L /\ L \in 1..L
      BY <1>1, <2>2
    <3> QED
      BY <1>1, <1>3, <2>2, <3>1
  <2>3. CASE n = L + 2
    <3>1. 1 \in 1..K /\ 1 \in 1..(M - 1) /\ n = L + 1 + 1 /\ n - 1 = L + 1 /\ 1 \in 1..M
      BY <1>13, <2>3
    <3>2. way[n].x = down[1]
      <4>1. way[L + 1 + 1] = [x |-> between[1], d |-> 0] /\ between[1] = down[1]
        BY <1>2, <1>3, <3>1
      <4> QED
        BY <3>1, <4>1
    <3>4. down[1] \in Key
      BY <1>1, <3>1 DEF M
    <3> QED
      <4>1. way[n - 1].x = p /\ way[n - 1].d = 1
        BY <1>3, <3>1
      <4> QED
        BY <1>1, <3>2, <3>4, <4>1
  <2>4. CASE n > L + 2
    <3>1. PICK i \in Nat : i = n - (L + 2)
      BY <1>1, <2>4
    <3>2. /\ i \in 1..(M - 1) /\ i + 1 \in 1..K /\ i \in 1..K /\ i + 1 \in 1..(M - 1) /\ i + 1 \in 1..M
          /\ n = L + 1 + (i + 1) /\ n - 1 = L + 1 + i
      BY <1>13, <2>4, <3>1
    <3>3. /\ way[L + 1 + (i + 1)] = [x |-> between[i + 1], d |-> 0]
          /\ way[L + 1 + i] = [x |-> between[i], d |-> 0]
          /\ between[i + 1] = down[i + 1] /\ between[i] = down[i]
      BY <1>2, <1>3, <3>2
    <3>5. way[n].x = down[i + 1] /\ way[n - 1].x = down[i] /\ way[n - 1].d = 0
      BY <3>2, <3>3
    <3>4. down[i + 1] \in Key
      BY <1>1, <3>2 DEF M
    <3> QED
      BY <1>1, <3>2, <3>4, <3>5
  <2> QED
    BY <1>13, <2>1, <2>2, <2>3, <2>4
<1>7. way[1] = [x |-> Root, d |-> 0]
  <2>1. 1 \in 1..L
    BY <1>1
  <2> QED
    BY <1>1, <1>3, <2>1
<1>8. IsPath(g, way)
  <2>1. Len(way) >= 1 /\ way \in Seq(Steps) /\ Len(way) = L + 1 + K
    BY <1>13, <1>3
  <2> QED
    BY <1>6, <1>7, <2>1, ChainIsPath
<1>9. K = 0 => way[Len(way)] = [x |-> p, d |-> 1]
  BY <1>1, <1>3
<1>10. K # 0 => way[Len(way)] = [x |-> Last(between), d |-> 0]
  <2> SUFFICES ASSUME K # 0 PROVE way[Len(way)] = [x |-> Last(between), d |-> 0]
    OBVIOUS
  <2>1. K \in 1..K
    BY <1>13
  <2> QED
    BY <1>3, <1>5, <2>1
<1>11. End(g, way) = r
  <2>1. CASE K = 0
    BY <1>1, <1>2, <1>9, <2>1 DEF End
  <2>2. CASE K # 0
    <3>1. K \in 1..(M - 1) /\ K + 1 = M
      BY <1>1, <1>2, <2>2
    <3>2. Last(between) = down[K] /\ down[K + 1] = Kid(g, down[K], 0)
      BY <1>1, <1>2, <1>5, <2>2, <3>1
    <3> QED
      BY <1>2, <1>10, <2>2, <3>1, <3>2 DEF End
  <2> QED
    BY <2>1, <2>2
<1>12. Passed(way, 2) = Passed(path, 2) \cup {p} \cup ToSet(between)
  <2>1. ASSUME NEW x \in Passed(way, 2) PROVE x \in Passed(path, 2) \cup {p} \cup ToSet(between)
    <3>1. PICK n \in 2..(L + 1 + K) : x = way[n].x
      BY <1>3 DEF Passed
    <3>2. CASE n <= L
      <4>1. n \in 2..L /\ n \in 1..L
        BY <1>1, <3>2
      <4> QED
        BY <1>3, <3>1, <4>1 DEF Passed, L
    <3>3. CASE n = L + 1
      BY <1>3, <3>1, <3>3
    <3>4. CASE n > L + 1
      <4>1. PICK i \in Nat : i = n - (L + 1)
        BY <1>1, <3>4
      <4>2. i \in 1..K /\ n = L + 1 + i
        BY <1>13, <3>4, <4>1
      <4>3. x = between[i]
        <5>1. way[L + 1 + i] = [x |-> between[i], d |-> 0]
          BY <1>3, <4>2
        <5> QED
          BY <3>1, <4>2, <5>1
      <4>4. i \in DOMAIN between
        BY <1>2, <4>2 DEF K
      <4> QED
        BY <4>3, <4>4 DEF ToSet
    <3> QED
      BY <1>13, <3>2, <3>3, <3>4
  <2>2. Passed(path, 2) \subseteq Passed(way, 2)
    <3> SUFFICES ASSUME NEW n \in 2..L PROVE path[n].x \in Passed(way, 2)
      BY DEF Passed, L
    <3>1. n \in 1..L /\ n \in 2..Len(way)
      BY <1>1, <1>2, <1>3
    <3> QED
      BY <1>3, <3>1 DEF Passed
  <2>3. p \in Passed(way, 2)
    <3>1. L + 1 \in 2..Len(way)
      <4>1. Len(way) = L + 1 + K
        BY <1>3
      <4> QED
        BY <1>13, <4>1
    <3>2. way[L + 1].x = p
      BY <1>3
    <3> QED
      BY <3>1, <3>2 DEF Passed
  <2>4. ToSet(between) \subseteq Passed(way, 2)
    <3> SUFFICES ASSUME NEW i \in 1..K PROVE between[i] \in Passed(way, 2)
      BY <1>2 DEF ToSet, K
    <3>1. L + 1 + i \in 2..Len(way)
      <4>1. Len(way) = L + 1 + K
        BY <1>3
      <4> QED
        BY <1>13, <4>1
    <3>2. way[L + 1 + i].x = between[i]
      <4>1. way[L + 1 + i] = [x |-> between[i], d |-> 0]
        BY <1>3
      <4> QED
        BY <4>1
    <3> QED
      BY <3>1, <3>2 DEF Passed
  <2> QED
    BY <2>1, <2>2, <2>3, <2>4
<1> QED
  BY <1>2, <1>4, <1>8, <1>9, <1>10, <1>11, <1>12

\* The way down from p's right child leads to the next node, if there is one.
LEMMA NextIs ==
  ASSUME NEW g, NEW up, NEW sub, Structure(g, up, sub), NEW p \in Key,
         NEW down, down = Outermost(g, <<>>, Kid(g, p, 1), 0)
  PROVE  /\ down = <<>> => Kid(g, p, 1) = Null
         /\ down # <<>> =>
              /\ WayTo(g, p, down) /\ Last(down) \in sub[Kid(g, p, 1)]
              /\ Kid(g, Last(down), 0) = Null
              /\ \A y \in sub[Kid(g, p, 1)] : y = Last(down) \/ Last(down) < y
<1> DEFINE c == Kid(g, p, 1)
<1>1. c \in Child /\ <<>> \in Seq(Key) /\ Len(<<>>) = 0 /\ sub[Null] = {}
  <2>1. c \in Child
    BY KidsAre
  <2>2. sub[Null] = {}
    BY DEF Structure
  <2> QED
    BY <2>1, <2>2
<1> HIDE DEF c
<1>2. PICK stack \in Seq(Key) : stack = <<>>
  BY <1>1
<1>3. PICK w \in Descents(g, sub, stack, c, 0) : w.p = Null /\ Outermost(g, stack, c, 0) = w.stack
  BY <1>1, OutermostEnds
<1>4. down = w.stack
  BY <1>2, <1>3 DEF c
<1>5. PICK l \in Nat, m \in Nat : l = 0 /\ m = Len(down) /\ l = Len(stack)
  BY <1>1, <1>2, <1>3, <1>4 DEF Descents
<1>6. /\ down \in Seq(Key) /\ m >= l
      /\ m = l => Null = c
      /\ m > l => /\ down[l + 1] = c /\ Null = Kid(g, down[m], 0)
                  /\ \A y \in sub[c] :
                       y \in sub[Null] \/ y = down[m] \/ Beyond(down[m], y, 1 - 0)
      /\ \A n \in (l + 1)..m : down[n] \in sub[c]
      /\ \A n \in (l + 1)..(m - 1) : down[n + 1] = Kid(g, down[n], 0)
  BY <1>3, <1>4, <1>5 DEF Descents, Descended
<1>7. CASE m = 0
  BY <1>5, <1>6, <1>7 DEF c
<1>8. CASE m # 0
  <2>1. m > l /\ l + 1 = 1 /\ m >= 1 /\ m \in (l + 1)..m
    BY <1>5, <1>8
  <2>2. Last(down) = down[m]
    BY <1>5 DEF Last
  <2>3. WayTo(g, p, down)
    <3>1. down[1] = Kid(g, p, 1)
      BY <1>6, <2>1 DEF c
    <3>2. \A n \in 1..(m - 1) : down[n + 1] = Kid(g, down[n], 0)
      BY <1>6, <2>1
    <3> QED
      BY <1>5, <1>6, <2>1, <3>1, <3>2 DEF WayTo
  <2>4. Last(down) \in sub[c] /\ Kid(g, Last(down), 0) = Null
    BY <1>6, <2>1, <2>2
  <2>5. \A y \in sub[c] : y = Last(down) \/ Last(down) < y
    BY <1>1, <1>6, <2>1, <2>2 DEF Beyond
  <2>6. down # <<>>
    BY <1>5, <1>8
  <2> QED
    BY <2>3, <2>4, <2>5, <2>6 DEF c
<1> QED
  BY <1>7, <1>8

\* A node of the tree is found.
LEMMA IsFound ==
  ASSUME NEW g, NEW up, NEW sub, Structure(g, up, sub), NEW p \in Key,
         p \in sub[Kid(g, Root, 0)]
  PROVE  Find(g, p) = p /\ IsPath(g, PathTo(g, p)) /\ End(g, PathTo(g, p)) = p
<1>1. Find(g, p) = p /\ LeadsTo(g, sub, p, PathTo(g, p), Find(g, p))
  BY SearchIs
<1> QED
  BY <1>1 DEF LeadsTo

\* Only the next node is between p and what comes after it.
LEMMA NextIsNeighbour ==
  ASSUME NEW g, NEW up, NEW sub, Structure(g, up, sub), NEW N, N = sub[Kid(g, Root, 0)],
         NEW p \in N, NEW r \in sub[Kid(g, p, 1)],
         \A y \in sub[Kid(g, p, 1)] : y = r \/ r < y
  PROVE  Neighbours(N \ {r}, p, r) /\ p < r /\ r \in N
<1>1. p \in Key /\ N \in SUBSET Key /\ sub[p] \subseteq N
  BY TreeIs
<1>2. /\ sub[Kid(g, p, 1)] \subseteq sub[p] /\ p \in sub[p] /\ sub[p] \subseteq Key
      /\ sub[p] = {p} \cup sub[Kid(g, p, 0)] \cup sub[Kid(g, p, 1)]
      /\ \A e \in 0..1 : \A y \in sub[Kid(g, p, e)] : Beyond(p, y, e)
  BY <1>1, KidsAre DEF Structure
<1>3. p < r /\ r \in Key /\ r \in sub[p] /\ r \in N
  BY <1>1, <1>2 DEF Beyond
<1>4. p \in Int /\ r \in Int /\ \A y \in N : y \in Int
  BY <1>1, <1>3, KeysAre
<1>5. ASSUME NEW y \in N, y # r, y # p PROVE (y < p) <=> (y < r)
  <2>1. CASE y \in sub[p]
    <3>1. CASE y \in sub[Kid(g, p, 0)]
      <4>1. y < p
        BY <1>2, <3>1 DEF Beyond
      <4>2. y \in Int /\ p \in Int /\ r \in Int
        BY <1>4
      <4> QED
        BY <1>3, <4>1, <4>2
    <3>2. CASE y \in sub[Kid(g, p, 1)]
      <4>1. r < y
        BY <1>5, <3>2
      <4>2. y \in Int /\ p \in Int /\ r \in Int
        BY <1>4
      <4> QED
        BY <1>3, <4>1, <4>2
    <3> QED
      BY <1>2, <1>5, <2>1, <3>1, <3>2
  <2>2. CASE y \notin sub[p]
    <3>1. PICK w \in Walks(g, sub, p) : w.p \in {Null, p} /\ w.p = Find(g, p)
      BY <1>1, SearchEnds DEF Find
    <3>2. w.p = p
      <4>1. Find(g, p) = p
        BY <1>1, IsFound
      <4> QED
        BY <3>1, <4>1
    <3>3. (\A z \in sub[p] : y < z) \/ (\A z \in sub[p] : z < y)
      <4>1. y \in N \ sub[w.p]
        BY <2>2, <3>2
      <4>2. (\A z \in sub[w.p] : y < z) \/ (\A z \in sub[w.p] : z < y)
        BY <3>1, <4>1 DEF Walks, Walked
      <4> QED
        BY <3>2, <4>2
    <3>4. (y < p /\ y < r) \/ (p < y /\ r < y)
      BY <1>2, <1>3, <3>3
    <3> QED
      BY <1>4, <3>4
  <2> QED
    BY <2>1, <2>2
<1> QED
  BY <1>3, <1>5 DEF Neighbours

\* r cut out of g, and then put in p's place.
LEMMA CutExists ==
  ASSUME NEW g \in Heads, NEW path, NEW r \in Key, NEW c \in Child
  PROVE  \E h : CutOut(g, h, path, r, c)
<1> DEFINE kid(x, e) == IF x = path[Len(path)].x /\ e = path[Len(path)].d THEN c
                        ELSE IF x = r THEN Null
                        ELSE Kid(g, x, e)
           bal(x) == IF x = r THEN 0 ELSE Bal(g, x)
           siz(x) == IF x = r THEN 1 ELSE IF x \in Passed(path, 2) THEN Siz(g, x) - 1 ELSE Siz(g, x)
           h == [x \in Key \cup {Root} |->
                   [p |-> [e \in 0..1 |-> kid(x, e)], balance |-> bal(x), size |-> siz(x)]]
<1>1. \A x \in Key \cup {Root} :
        /\ \A e \in 0..1 : Kid(g, x, e) \in Child
        /\ Bal(g, x) \in Int /\ Siz(g, x) \in Int
  BY DEF Heads, Kid, Bal, Siz
<1>2. \A x \in Key \cup {Root} :
        (\A e \in 0..1 : kid(x, e) \in Child) /\ bal(x) \in Int /\ siz(x) \in Int
  BY <1>1 DEF Child
<1> HIDE DEF kid, bal, siz
<1>3. \A x \in Key \cup {Root} : [e \in 0..1 |-> kid(x, e)] \in [0..1 -> Child]
  BY <1>2
<1>4. h \in Heads
  BY <1>2, <1>3 DEF Heads
<1>5. /\ \A x \in Key \cup {Root}, e \in 0..1 : Kid(h, x, e) = kid(x, e)
      /\ \A x \in Key \cup {Root} : Bal(h, x) = bal(x) /\ Siz(h, x) = siz(x)
  BY DEF Kid, Bal, Siz
<1> HIDE DEF h
<1>6. CutOut(g, h, path, r, c)
  BY <1>4, <1>5 DEF CutOut, kid, bal, siz
<1> QED
  BY <1>6

\* The nodes on the way are all different.
LEMMA WayIsApart ==
  ASSUME NEW g, NEW up, NEW sub, Structure(g, up, sub), NEW path, IsPath(g, path),
         NEW p \in Key, p = End(g, path), NEW down, WayTo(g, p, down),
         NEW r, r = Last(down), NEW between, between = Front(down),
         NEW way, way = WayVia(path, p, between)
  PROVE  /\ path[Len(path)].x \notin {p, r, way[Len(way)].x} /\ way[Len(way)].x # r
         /\ p \notin Passed(path, 2) /\ p \notin ToSet(between)
         /\ r \notin Passed(path, 2) /\ r \notin ToSet(between)
         /\ Passed(path, 2) \cap ToSet(between) = {}
<1>1. /\ IsPath(g, way) /\ End(g, way) = r /\ r \in Key /\ between \in Seq(Key)
      /\ Passed(way, 2) = Passed(path, 2) \cup {p} \cup ToSet(between)
      /\ between = <<>> => way[Len(way)] = [x |-> p, d |-> 1]
      /\ between # <<>> => way[Len(way)] = [x |-> Last(between), d |-> 0]
  BY DownIs
<1> DEFINE L == Len(path)
           K == Len(between)
<1>2. /\ Len(way) = L + 1 + K
      /\ \A n \in 1..L : way[n] = path[n]
      /\ way[L + 1] = [x |-> p, d |-> 1]
      /\ \A n \in 1..K : way[L + 1 + n] = [x |-> between[n], d |-> 0]
  <2>1. path \in Seq(Steps)
    BY DEF IsPath
  <2> QED
    BY <1>1, <2>1, WayIs DEF Via
<1>3. L \in Nat /\ K \in Nat /\ L >= 1 /\ DOMAIN between = 1..K
  BY <1>1 DEF IsPath
<1> HIDE DEF L, K
<1>4. \A i, j \in 1..(L + 1 + K) : way[i].x = way[j].x => i = j
  BY <1>1, <1>2 DEF IsPath
<1>5. \A i \in 1..(L + 1 + K) : way[i].x # r
  <2>1. \A i \in 1..Len(way) : way[i].x \notin sub[r]
    BY <1>1, PathIsAbove
  <2> QED
    BY <1>1, <1>2, <2>1, KidsAre
<1>6. Passed(path, 2) = {way[n].x : n \in 2..L}
  <2>1. \A n \in 2..L : n \in 1..L
    BY <1>3
  <2>2. \A n \in 2..L : way[n].x = path[n].x
    BY <1>2, <2>1
  <2> QED
    BY <2>2 DEF Passed, L
<1>7. ToSet(between) = {way[L + 1 + n].x : n \in 1..K}
  <2>1. ASSUME NEW n \in 1..K PROVE way[L + 1 + n].x = between[n]
    <3>1. way[L + 1 + n] = [x |-> between[n], d |-> 0]
      BY <1>2
    <3> QED
      BY <3>1
  <2> QED
    BY <1>3, <2>1 DEF ToSet
<1>8. /\ \A n \in 2..L : n \in 1..(L + 1 + K) /\ n # L + 1
      /\ \A n \in 1..K : L + 1 + n \in 1..(L + 1 + K) /\ L + 1 + n # L + 1
      /\ \A n \in 2..L, m \in 1..K : n # L + 1 + m
      /\ L + 1 \in 1..(L + 1 + K) /\ L \in 1..(L + 1 + K) /\ L \in 1..L
      /\ L # L + 1 /\ L # L + 1 + K /\ L + 1 + K \in 1..(L + 1 + K)
  BY <1>3
<1>9. way[L + 1].x = p /\ path[L].x = way[L].x
  BY <1>2, <1>8
<1>10. p \notin Passed(path, 2) /\ r \notin Passed(path, 2)
  BY <1>4, <1>5, <1>6, <1>8, <1>9
<1>11. p \notin ToSet(between) /\ r \notin ToSet(between)
  BY <1>4, <1>5, <1>7, <1>8, <1>9
<1>12. Passed(path, 2) \cap ToSet(between) = {}
  <2> SUFFICES ASSUME NEW n \in 2..L, NEW m \in 1..K, way[n].x = way[L + 1 + m].x PROVE FALSE
    BY <1>6, <1>7
  <2> QED
    BY <1>4, <1>8
<1>13. path[L].x # p /\ path[L].x # r /\ path[L].x # way[L + 1 + K].x /\ way[L + 1 + K].x # r
  BY <1>4, <1>5, <1>8, <1>9
<1> QED
  BY <1>2, <1>10, <1>11, <1>12, <1>13 DEF L

LEMMA SwappedIs ==
  ASSUME NEW g, NEW up, NEW sub, Structure(g, up, sub), NEW path, IsPath(g, path),
         NEW p \in Key, p = End(g, path), NEW down, WayTo(g, p, down),
         NEW r, r = Last(down), r # p, Kid(g, r, 0) = Null,
         NEW between, between = Front(down),
         NEW h, RemovedAre(g, h, Passed(path, 2), path[Len(path)].x, path[Len(path)].d, p, r, between),
         NEW way, way = WayVia(path, p, between),
         NEW k, CutOut(g, k, way, r, Kid(g, r, 1))
  PROVE  Swapped(k, h, p, r)
<1> DEFINE a == path[Len(path)].x
           b == path[Len(path)].d
           aw == way[Len(way)].x
           bw == way[Len(way)].d
           c == Kid(g, r, 1)
           T == ToSet(between)
           S == Passed(path, 2)
           s(x) == Swap(p, r, x)
<1>1. /\ IsPath(g, way) /\ End(g, way) = r /\ r \in Key /\ between \in Seq(Key)
      /\ Passed(way, 2) = S \cup {p} \cup T
      /\ between = <<>> => way[Len(way)] = [x |-> p, d |-> 1]
      /\ between # <<>> => way[Len(way)] = [x |-> Last(between), d |-> 0]
  BY DownIs
<1>2. /\ a \in Key \cup {Root} /\ b \in 0..1 /\ Kid(g, a, b) = p
      /\ aw \in Key \cup {Root} /\ bw \in 0..1 /\ Kid(g, aw, bw) = r
  <2>1. Len(path) \in 1..Len(path) /\ Len(way) \in 1..Len(way)
    BY <1>1 DEF IsPath
  <2> QED
    BY <1>1, <2>1, OnPath DEF End
<1>3. /\ \A x \in Key \cup {Root}, e \in 0..1 : Kid(g, x, e) = p => x = a /\ e = b
      /\ \A x \in Key \cup {Root}, e \in 0..1 : Kid(g, x, e) = r => x = aw /\ e = bw
  <2>1. p # Null /\ r # Null
    BY <1>1, KeysAre
  <2>2. up[p] = <<a, b>> /\ up[r] = <<aw, bw>>
    BY <1>2, <2>1 DEF Structure
  <2>3. \A x \in Key \cup {Root}, e \in 0..1 : Kid(g, x, e) # Null => up[Kid(g, x, e)] = <<x, e>>
    BY DEF Structure
  <2> HIDE DEF a, b, aw, bw
  <2> QED
    BY <2>1, <2>2, <2>3
<1>4. /\ \A n \in 1..Len(path) : path[n].x \notin sub[p]
      /\ \A n \in 1..Len(way) : way[n].x \notin sub[r]
  BY <1>1, PathIsAbove
<1>5. /\ a # p /\ a # r /\ a # aw /\ aw # r /\ p \notin S /\ p \notin T /\ r \notin S /\ r \notin T
      /\ S \cap T = {}
  BY WayIsApart
<1>6. /\ h \in Heads
      /\ \A x \in Key \cup {Root}, e \in 0..1 :
           Kid(h, x, e) =
             IF x = r THEN (IF e = 1 /\ between = <<>> THEN c ELSE Kid(g, p, e))
             ELSE IF between # <<>> /\ x = Last(between) /\ e = 0 THEN c
             ELSE IF x = a /\ e = b THEN r
             ELSE IF x = p THEN Null
             ELSE Kid(g, x, e)
      /\ \A x \in Key \cup {Root} :
           /\ Bal(h, x) = IF x = r THEN Bal(g, p) ELSE IF x = p THEN 0 ELSE Bal(g, x)
           /\ Siz(h, x) = IF x = r THEN Siz(g, p) - 1
                          ELSE IF x = p THEN 1
                          ELSE IF x \in S \/ x \in T THEN Siz(g, x) - 1
                          ELSE Siz(g, x)
  BY DEF RemovedAre
<1>7. /\ \A x \in Key \cup {Root}, e \in 0..1 :
           Kid(k, x, e) = IF x = aw /\ e = bw THEN c ELSE IF x = r THEN Null ELSE Kid(g, x, e)
      /\ \A x \in Key \cup {Root} :
           /\ Bal(k, x) = IF x = r THEN 0 ELSE Bal(g, x)
           /\ Siz(k, x) = IF x = r THEN 1
                          ELSE IF x \in S \cup {p} \cup T THEN Siz(g, x) - 1
                          ELSE Siz(g, x)
  BY <1>1 DEF CutOut
<1>8. /\ s(p) = r /\ s(r) = p /\ \A x : x # p => (x # r => s(x) = x)
  BY DEF Swap
<1>9. c # p /\ c # r
  <2>1. Kid(g, r, 1) = p => r = a
    BY <1>1, <1>3
  <2>2. Kid(g, r, 1) = r => r = aw
    BY <1>1, <1>3
  <2> QED
    BY <1>5, <2>1, <2>2
<1>10. /\ between = <<>> => aw = p /\ bw = 1
       /\ between # <<>> => aw = Last(between) /\ bw = 0 /\ aw \in T
  <2>1. between # <<>> => Last(between) \in T
    <3> SUFFICES ASSUME between # <<>> PROVE Last(between) \in T
      OBVIOUS
    <3>1. Len(between) \in DOMAIN between
      BY <1>1
    <3> QED
      BY <3>1 DEF Last, ToSet
  <2> HIDE DEF T
  <2> QED
    BY <1>1, <2>1
<1>11. p # Null /\ r # Null /\ p # Root /\ r # Root /\ p \in Key \cup {Root} /\ r \in Key \cup {Root}
  BY <1>1, KeysAre
<1> HIDE DEF a, b, aw, bw, c, S, T, s
<1>13. ASSUME NEW x \in Key \cup {Root}, NEW e \in 0..1
       PROVE  Kid(h, s(x), e) = s(Kid(k, x, e))
  <2>1. CASE x = p
    <3>1. Kid(h, r, e) = IF e = 1 /\ between = <<>> THEN c ELSE Kid(g, p, e)
      BY <1>6, <1>11
    <3>2. Kid(k, p, e) = IF p = aw /\ e = bw THEN c ELSE Kid(g, p, e)
      BY <1>7, <1>11
    <3>3. (p = aw /\ e = bw) <=> (e = 1 /\ between = <<>>)
      BY <1>5, <1>10
    <3>4. Kid(g, p, e) # p
      BY <1>3, <1>5, <1>11
    <3>5. Kid(g, p, e) = r => (p = aw /\ e = bw)
      BY <1>3, <1>11
    <3> QED
      BY <1>8, <1>9, <2>1, <3>1, <3>2, <3>3, <3>4, <3>5
  <2>2. CASE x = r
    <3>1. Kid(h, p, e) = Null
      <4>1. between # <<>> => p # Last(between)
        BY <1>5, <1>10
      <4> QED
        BY <1>5, <1>6, <1>11, <4>1
    <3>2. Kid(k, r, e) = Null
      BY <1>5, <1>7, <1>11
    <3> QED
      BY <1>8, <1>11, <2>2, <3>1, <3>2
  <2>3. CASE x # p /\ x # r
    <3>1. s(x) = x
      BY <1>8, <2>3
    <3>2. (between # <<>> /\ x = Last(between) /\ e = 0) <=> (x = aw /\ e = bw)
      BY <1>10, <2>3
    <3>3. Kid(h, x, e) = IF x = aw /\ e = bw THEN c ELSE IF x = a /\ e = b THEN r ELSE Kid(g, x, e)
      BY <1>6, <2>3, <3>2
    <3>4. Kid(k, x, e) = IF x = aw /\ e = bw THEN c ELSE Kid(g, x, e)
      BY <1>7, <2>3
    <3>5. (Kid(g, x, e) = p) <=> (x = a /\ e = b)
      BY <1>2, <1>3
    <3>6. (Kid(g, x, e) = r) => (x = aw /\ e = bw)
      BY <1>3
    <3> QED
      BY <1>5, <1>8, <1>9, <3>1, <3>3, <3>4, <3>5, <3>6
  <2> QED
    BY <2>1, <2>2, <2>3
<1>14. ASSUME NEW x \in Key \cup {Root}
       PROVE  Bal(h, s(x)) = Bal(k, x) /\ Siz(h, s(x)) = Siz(k, x)
  <2>1. CASE x = p
    BY <1>6, <1>7, <1>8, <1>11, <2>1
  <2>2. CASE x = r
    BY <1>6, <1>7, <1>8, <1>11, <2>2
  <2>3. CASE x # p /\ x # r
    <3>1. s(x) = x /\ (x \in S \cup {p} \cup T <=> (x \in S \/ x \in T))
      BY <1>8, <2>3
    <3> QED
      BY <1>6, <1>7, <2>3, <3>1
  <2> QED
    BY <2>1, <2>2, <2>3
<1> QED
  BY <1>6, <1>13, <1>14 DEF Swapped, s

\* The way up goes through r where the way down went through p.
LEMMA WayTurns ==
  ASSUME NEW g, NEW up, NEW sub, Structure(g, up, sub), NEW path, IsPath(g, path),
         NEW p \in Key, p = End(g, path), NEW down, WayTo(g, p, down),
         NEW r, r = Last(down), r # p, NEW between, between = Front(down),
         NEW way, way = WayVia(path, p, between)
  PROVE  /\ SwappedPath(way, p, r) = WayVia(path, r, between)
         /\ SwappedPath(way, p, r) \in Seq(Steps) /\ Len(SwappedPath(way, p, r)) = Len(way)
<1>1. /\ IsPath(g, way) /\ End(g, way) = r /\ r \in Key /\ between \in Seq(Key)
      /\ Passed(way, 2) = Passed(path, 2) \cup {p} \cup ToSet(between)
      /\ between = <<>> => way[Len(way)] = [x |-> p, d |-> 1]
      /\ between # <<>> => way[Len(way)] = [x |-> Last(between), d |-> 0]
  BY DownIs
<1>2. path \in Seq(Steps)
  BY DEF IsPath
<1> DEFINE L == Len(path)
           K == Len(between)
           back == WayVia(path, r, between)
           turned == SwappedPath(way, p, r)
<1>3. /\ way \in Seq(Steps) /\ Len(way) = L + 1 + K
      /\ \A n \in 1..L : way[n] = path[n]
      /\ way[L + 1] = [x |-> p, d |-> 1]
      /\ \A n \in 1..K : way[L + 1 + n] = [x |-> between[n], d |-> 0]
  BY <1>1, <1>2, WayIs DEF Via
<1>4. /\ back \in Seq(Steps) /\ Len(back) = L + 1 + K
      /\ \A n \in 1..L : back[n] = path[n]
      /\ back[L + 1] = [x |-> r, d |-> 1]
      /\ \A n \in 1..K : back[L + 1 + n] = [x |-> between[n], d |-> 0]
  BY <1>1, <1>2, WayIs DEF Via
<1>5. L \in Nat /\ K \in Nat /\ L >= 1
  BY <1>1 DEF IsPath
<1>6. turned = [n \in 1..Len(way) |-> [x |-> Swap(p, r, way[n].x), d |-> way[n].d]]
  BY DEF SwappedPath
<1> HIDE DEF L, K, back, turned
<1>7. \A i, j \in 1..(L + 1 + K) : way[i].x = way[j].x => i = j
  BY <1>1, <1>3 DEF IsPath
<1>8. \A i \in 1..(L + 1 + K) : way[i].x # r
  <2>1. \A i \in 1..Len(way) : way[i].x \notin sub[r]
    BY <1>1, PathIsAbove
  <2> QED
    BY <1>1, <1>3, <2>1, KidsAre
<1>9. ASSUME NEW n \in 1..(L + 1 + K)
      PROVE  [x |-> Swap(p, r, way[n].x), d |-> way[n].d] = back[n] /\ back[n] \in Steps
  <2>1. way[n] \in Steps /\ back[n] \in Steps
    BY <1>3, <1>4
  <2>2. way[n] = [x |-> way[n].x, d |-> way[n].d]
    BY <2>1 DEF Steps
  <2>3. CASE n = L + 1
    BY <1>3, <1>4, <2>1, <2>3 DEF Swap
  <2>4. CASE n # L + 1
    <3>1. L + 1 \in 1..(L + 1 + K) /\ way[L + 1].x = p
      BY <1>3, <1>5
    <3>2. way[n].x # p /\ way[n].x # r
      BY <1>7, <1>8, <2>4, <3>1
    <3>3. Swap(p, r, way[n].x) = way[n].x
      BY <3>2 DEF Swap
    <3>4. back[n] = way[n]
      <4>1. CASE n <= L
        <5>1. n \in 1..L
          BY <1>5, <4>1
        <5> QED
          BY <1>3, <1>4, <5>1
      <4>2. CASE n > L
        <5>1. PICK i \in 1..K : n = L + 1 + i
          <6>1. n - (L + 1) \in 1..K /\ n = L + 1 + (n - (L + 1))
            BY <1>5, <2>4, <4>2
          <6> QED
            BY <6>1
        <5> QED
          BY <1>3, <1>4, <5>1
      <4> QED
        BY <1>5, <4>1, <4>2
    <3> QED
      BY <2>1, <2>2, <3>3, <3>4
  <2> QED
    BY <2>3, <2>4
<1>10. turned = [n \in 1..(L + 1 + K) |-> back[n]]
  BY <1>3, <1>6, <1>9
<1>11. back = [n \in 1..(L + 1 + K) |-> back[n]]
  BY <1>4, <1>5
<1>12. turned = back
  BY <1>10, <1>11
<1> QED
  BY <1>3, <1>4, <1>12 DEF turned, back

\* kavl_erase and kavl_erase_first take one node out of an AVL tree.
LEMMA EraseKeepsTree ==
  ASSUME NEW g, NEW N, IsTree(g, N), NEW p \in N
  PROVE  IsTree(EraseAt(g, p), N \ {p}) /\ p \in Key
<1>1. PICK up, sub, ht :
        /\ Structure(g, up, sub) /\ N = sub[Kid(g, Root, 0)]
        /\ Balanced(g, ht, {}) /\ Bal(g, Root) = 0 /\ Siz(g, Root) = 1
  BY DEF IsTree
<1>2. p \in Key /\ g \in Heads
  BY <1>1, TreeIs DEF Structure
<1>3. PICK path, down :
        path = PathTo(g, p) /\ down = Outermost(g, <<>>, Kid(g, p, 1), 0)
  OBVIOUS
<1>4. IsPath(g, path) /\ End(g, path) = p
  BY <1>1, <1>2, <1>3, IsFound
<1>5. /\ path \in Seq(Steps) /\ Len(path) >= 1 /\ Len(path) \in Nat
      /\ path[Len(path)].x # p
  <2>1. path \in Seq(Steps) /\ Len(path) >= 1 /\ Len(path) \in Nat
    BY <1>4 DEF IsPath
  <2>2. Len(path) \in 1..Len(path)
    BY <2>1
  <2>3. path[Len(path)].x \notin sub[p]
    BY <1>1, <1>2, <1>4, <2>2, PathIsAbove
  <2> QED
    BY <1>1, <1>2, <2>1, <2>3, KidsAre
<1>6. CASE down = <<>>
  <2>1. Kid(g, p, 1) = Null
    BY <1>1, <1>2, <1>3, <1>6, NextIs
  <2>2. PICK c \in Child, d \in 0..1 : c = Kid(g, p, 0) /\ d = 1 /\ 1 - d = 0
    BY <1>1, <1>2, KidsAre
  <2>3. PICK h : h = EmptyPlace(g, path, p)
    OBVIOUS
  <2>4. CutOut(g, h, path, p, c)
    BY <1>2, <1>5, <2>2, <2>3, EmptyPlaceIs
  <2>5. Kid(g, p, d) = Null /\ c = Kid(g, p, 1 - d)
    BY <2>1, <2>2
  <2>6. Rising(h, N \ {p}, path, Len(path), FALSE)
    BY <1>1, <1>2, <1>4, <2>4, <2>5, CutRises
  <2>7. IsTree(Rebalance(h, path), N \ {p})
    BY <1>5, <2>6, RebalanceIsTree
  <2>8. EraseAt(g, p) = Rebalance(h, path)
    BY <1>3, <1>6, <2>3, EraseAtIs
  <2> QED
    BY <1>2, <2>7, <2>8
<1>7. CASE down # <<>>
  <2>1. PICK r, between, way, h :
          /\ r = Last(down) /\ between = Front(down) /\ way = WayVia(path, p, between)
          /\ h = Removed(g, path, p, r, between)
    OBVIOUS
  <2>2. /\ WayTo(g, p, down) /\ r \in sub[Kid(g, p, 1)] /\ Kid(g, r, 0) = Null
        /\ \A y \in sub[Kid(g, p, 1)] : y = r \/ r < y
    BY <1>1, <1>2, <1>3, <1>7, <2>1, NextIs
  <2>3. Neighbours(N \ {r}, p, r) /\ p < r /\ r \in N
    BY <1>1, <2>2, NextIsNeighbour
  <2>4. r # p /\ p \in Int
    BY <1>2, <2>3, KeysAre
  <2>5. /\ IsPath(g, way) /\ End(g, way) = r /\ r \in Key /\ between \in Seq(Key)
        /\ Passed(way, 2) = Passed(path, 2) \cup {p} \cup ToSet(between)
        /\ between = <<>> => way[Len(way)] = [x |-> p, d |-> 1]
        /\ between # <<>> => way[Len(way)] = [x |-> Last(between), d |-> 0]
    BY <1>1, <1>2, <1>4, <2>1, <2>2, DownIs
  <2>6. /\ path[Len(path)].x \notin {p, r, way[Len(way)].x} /\ way[Len(way)].x # r
        /\ p \notin Passed(path, 2) /\ p \notin ToSet(between)
        /\ r \notin Passed(path, 2) /\ r \notin ToSet(between)
        /\ Passed(path, 2) \cap ToSet(between) = {}
    BY <1>1, <1>2, <1>4, <2>1, <2>2, WayIsApart
  <2>7. RemovedAre(g, h, Passed(path, 2), path[Len(path)].x, path[Len(path)].d, p, r, between)
    BY <1>2, <1>5, <2>1, <2>4, <2>5, <2>6, RemovedIs
  <2>8. PICK c \in Child, d \in 0..1 : c = Kid(g, r, 1) /\ d = 0 /\ 1 - d = 1
    BY <1>1, <2>5, KidsAre
  <2>9. PICK k : CutOut(g, k, way, r, c)
    BY <1>2, <2>5, <2>8, CutExists
  <2>10. Kid(g, r, d) = Null /\ c = Kid(g, r, 1 - d)
    BY <2>2, <2>8
  <2>11. Rising(k, N \ {r}, way, Len(way), FALSE)
    BY <1>1, <2>5, <2>9, <2>10, CutRises
  <2>12. Swapped(k, h, p, r)
    BY <1>1, <1>2, <1>4, <2>1, <2>2, <2>4, <2>7, <2>8, <2>9, SwappedIs
  <2>13. PICK L \in Nat : L = Len(way) /\ L >= 1 /\ way \in Seq(Steps)
    BY <2>5 DEF IsPath
  <2>14. IsPath(k, way)
    <3>1. IsPath(k, Upto(way, L))
      BY <2>11, <2>13 DEF Rising
    <3>2. Upto(way, L) = way
      BY <2>13 DEF Upto
    <3> QED
      BY <3>1, <3>2
  <2>15. PICK M : M = N \ {r} /\ p \in M /\ r \notin M
    BY <2>4
  <2>16. Rising(h, (M \ {p}) \cup {r}, SwappedPath(way, p, r), L, FALSE)
    BY <2>3, <2>5, <2>11, <2>12, <2>13, <2>14, <2>15, SwapRises
  <2>17. (M \ {p}) \cup {r} = N \ {p}
    BY <2>3, <2>4, <2>15
  <2>18. /\ SwappedPath(way, p, r) = WayVia(path, r, between)
         /\ SwappedPath(way, p, r) \in Seq(Steps) /\ Len(SwappedPath(way, p, r)) = L
    BY <1>1, <1>2, <1>4, <2>1, <2>2, <2>4, <2>13, WayTurns
  <2>19. IsTree(Rebalance(h, WayVia(path, r, between)), N \ {p})
    <3>1. PICK q : q = WayVia(path, r, between) /\ q \in Seq(Steps) /\ Len(q) = L
      BY <2>18
    <3>2. Rising(h, N \ {p}, q, Len(q), FALSE)
      BY <2>16, <2>17, <2>18, <3>1
    <3>3. Len(q) >= 1
      BY <2>13, <3>1
    <3>4. IsTree(Rebalance(h, q), N \ {p})
      BY <3>1, <3>2, <3>3, RebalanceIsTree
    <3> QED
      BY <3>1, <3>4
  <2>20. EraseAt(g, p) = Rebalance(h, WayVia(path, r, between))
    BY <1>3, <1>7, <2>1, EraseAtIs
  <2> QED
    BY <1>2, <2>19, <2>20
<1> QED
  BY <1>6, <1>7

-----------------------------------------------------------------------------
(***************************************************************************)
(* What the tree is, said by the properties' recursive functions.          *)
(***************************************************************************)
BelowIn(g) ==
  CHOOSE f : f = [x \in Key \cup {Null} |->
                    IF x = Null THEN {} ELSE {x} \cup f[g[x].p[0]] \cup f[g[x].p[1]]]

HeightIn(g) ==
  CHOOSE f : f = [x \in Key \cup {Null} |->
                    IF x = Null THEN 0
                    ELSE LET l == f[g[x].p[0]]
                             r == f[g[x].p[1]]
                         IN  1 + IF l < r THEN r ELSE l]

NodesIn(g) == BelowIn(g)[g[Root].p[0]]

\* A function of the nodes that is right at each, seen from its children, is
\* determined: two are equal, by induction on how much is below a node.
LEMMA AllFromBelow ==
  ASSUME NEW g, NEW up, NEW sub, Structure(g, up, sub), NEW A \in SUBSET Child, Null \in A,
         \A x \in Key : Kid(g, x, 0) \in A /\ Kid(g, x, 1) \in A => x \in A
  PROVE  A = Child
<1> DEFINE S == {n \in Nat : \A x \in Child : Cardinality(sub[x]) <= n => x \in A}
<1>1. \A x \in Key : /\ Cardinality(sub[x]) \in Nat /\ x \in sub[x]
                     /\ \A d \in 0..1 : Kid(g, x, d) \in Child /\ Cardinality(sub[Kid(g, x, d)]) \in Nat
  BY KidsAre, KeysAre
<1>2. \A x \in Key : Cardinality(sub[x]) = 1 + Cardinality(sub[Kid(g, x, 0)]) + Cardinality(sub[Kid(g, x, 1)])
  BY SizeIs
<1>3. \A x \in Key : Cardinality(sub[x]) >= 1 + Cardinality(sub[Kid(g, x, 0)])
                     /\ Cardinality(sub[x]) >= 1 + Cardinality(sub[Kid(g, x, 1)])
  BY <1>1, <1>2
<1>4. 0 \in S
  <2> SUFFICES ASSUME NEW x \in Child, Cardinality(sub[x]) <= 0 PROVE x \in A
    OBVIOUS
  <2> SUFFICES ASSUME x \in Key PROVE FALSE
    BY DEF Child
  <2> QED
    BY <1>1, <1>3
<1>5. ASSUME NEW n \in S PROVE n + 1 \in S
  <2> SUFFICES ASSUME NEW x \in Child, Cardinality(sub[x]) <= n + 1 PROVE x \in A
    OBVIOUS
  <2> SUFFICES ASSUME x \in Key PROVE x \in A
    BY DEF Child
  <2>1. n \in Nat /\ \A y \in Child : Cardinality(sub[y]) <= n => y \in A
    OBVIOUS
  <2>2. Cardinality(sub[Kid(g, x, 0)]) <= n /\ Cardinality(sub[Kid(g, x, 1)]) <= n
    BY <1>1, <1>3, <2>1
  <2>3. Kid(g, x, 0) \in A /\ Kid(g, x, 1) \in A
    BY <1>1, <2>1, <2>2
  <2> QED
    BY <2>3
<1>6. S \in SUBSET Nat
  OBVIOUS
<1> HIDE DEF S
<1>7. S = Nat
  BY <1>4, <1>5, <1>6, InductionOnNat
<1>8. ASSUME NEW x \in Key PROVE x \in A
  <2>1. Cardinality(sub[x]) \in S /\ Cardinality(sub[x]) <= Cardinality(sub[x])
    BY <1>1, <1>7
  <2> QED
    BY <2>1 DEF S, Child
<1> QED
  BY <1>8 DEF Child

LEMMA BelowIs ==
  ASSUME NEW g, NEW up, NEW sub, Structure(g, up, sub)
  PROVE  \A x \in Child : BelowIn(g)[x] = sub[x]
<1> DEFINE body(t) == [x \in Key \cup {Null} |->
                         IF x = Null THEN {} ELSE {x} \cup t[g[x].p[0]] \cup t[g[x].p[1]]]
           f == CHOOSE t : t = body(t)
           A == {x \in Child : f[x] = sub[x]}
<1>1. sub \in [Child -> SUBSET Key] /\ sub[Null] = {}
      /\ \A x \in Key : sub[x] = {x} \cup sub[g[x].p[0]] \cup sub[g[x].p[1]]
  BY DEF Structure, Kid
<1>2. sub = body(sub)
  <2>1. \A x \in Key \cup {Null} :
          sub[x] = IF x = Null THEN {} ELSE {x} \cup sub[g[x].p[0]] \cup sub[g[x].p[1]]
    BY <1>1
  <2> QED
    BY <1>1, <2>1 DEF Child
<1>3. f = body(f)
  <2> HIDE DEF body
  <2> QED
    BY <1>2, Zenon
<1> HIDE DEF f
<1>4. f[Null] = {} /\ \A x \in Key : f[x] = {x} \cup f[g[x].p[0]] \cup f[g[x].p[1]]
  <2>1. \A x \in Key \cup {Null} :
          f[x] = IF x = Null THEN {} ELSE {x} \cup f[g[x].p[0]] \cup f[g[x].p[1]]
    BY <1>3
  <2> QED
    BY <2>1, KeysAre
<1>5. ASSUME NEW x \in Key, Kid(g, x, 0) \in A, Kid(g, x, 1) \in A PROVE x \in A
  <2>1. f[g[x].p[0]] = sub[g[x].p[0]] /\ f[g[x].p[1]] = sub[g[x].p[1]]
    BY <1>5 DEF Kid
  <2>2. f[x] = sub[x]
    BY <1>1, <1>4, <2>1
  <2> QED
    BY <2>2 DEF Child
<1>6. Null \in A /\ A \in SUBSET Child
  BY <1>1, <1>4 DEF Child
<1> HIDE DEF A
<1>7. A = Child
  BY <1>5, <1>6, AllFromBelow
<1>8. BelowIn(g) = f
  BY DEF BelowIn, f
<1> QED
  BY <1>7, <1>8 DEF A

LEMMA HeightIs ==
  ASSUME NEW g, NEW up, NEW sub, Structure(g, up, sub), NEW ht, Balanced(g, ht, {})
  PROVE  \A x \in Child : HeightIn(g)[x] = ht[x]
<1> DEFINE over(l, r) == 1 + IF l < r THEN r ELSE l
           body(t) == [x \in Key \cup {Null} |->
                         IF x = Null THEN 0 ELSE over(t[g[x].p[0]], t[g[x].p[1]])]
           f == CHOOSE t : t = body(t)
           A == {x \in Child : f[x] = ht[x]}
<1>1. /\ ht \in [Child -> Nat] /\ ht[Null] = 0
      /\ \A x \in Key : ht[x] = over(ht[g[x].p[0]], ht[g[x].p[1]])
  <2>1. ht \in [Child -> Nat] /\ ht[Null] = 0
    BY DEF Balanced
  <2>2. ASSUME NEW x \in Key PROVE ht[x] = over(ht[g[x].p[0]], ht[g[x].p[1]])
    <3>1. PICK l \in Nat, r \in Nat, n \in Nat :
            l = ht[g[x].p[0]] /\ r = ht[g[x].p[1]] /\ n = ht[x]
      <4>1. g[x].p[0] \in Child /\ g[x].p[1] \in Child /\ x \in Child
        BY KidsAre DEF Kid, Child
      <4> QED
        BY <2>1, <4>1
    <3>2. Above(n, l, r)
      BY <3>1 DEF Balanced, BalancedAt, Kid
    <3>3. n = over(l, r)
      BY <3>2 DEF Above
    <3> QED
      BY <3>1, <3>3
  <2> QED
    BY <2>1, <2>2
<1> HIDE DEF over
<1>2. ht = body(ht)
  <2>1. \A x \in Key \cup {Null} : ht[x] = IF x = Null THEN 0 ELSE over(ht[g[x].p[0]], ht[g[x].p[1]])
    BY <1>1
  <2> QED
    BY <1>1, <2>1 DEF Child
<1>3. f = body(f)
  <2> HIDE DEF body
  <2> QED
    BY <1>2, Zenon
<1> HIDE DEF f
<1>4. f[Null] = 0 /\ \A x \in Key : f[x] = over(f[g[x].p[0]], f[g[x].p[1]])
  <2>1. \A x \in Key \cup {Null} :
          f[x] = IF x = Null THEN 0 ELSE over(f[g[x].p[0]], f[g[x].p[1]])
    BY <1>3
  <2> QED
    BY <2>1, KeysAre
<1>5. \A x \in Key : Kid(g, x, 0) \in A /\ Kid(g, x, 1) \in A => x \in A
  BY <1>1, <1>4 DEF Kid, Child
<1>6. Null \in A /\ A \in SUBSET Child
  BY <1>1, <1>4 DEF Child
<1> HIDE DEF A
<1>7. A = Child
  BY <1>5, <1>6, AllFromBelow
<1>8. HeightIn(g) = f
  BY Zenon DEF HeightIn, f, over
<1> QED
  BY <1>7, <1>8 DEF A

LEMMA NodesAre ==
  ASSUME NEW g, NEW N, IsTree(g, N)
  PROVE  NodesIn(g) = N
<1>1. PICK up, sub : Structure(g, up, sub) /\ N = sub[Kid(g, Root, 0)]
  BY DEF IsTree
<1> QED
  BY <1>1, BelowIs, KidsAre DEF NodesIn, Kid

LEMMA PropsAre ==
  Below = BelowIn(head) /\ Height = HeightIn(head) /\ Nodes = NodesIn(head) /\ root = Kid(head, Root, 0)
<1>1. Below = BelowIn(head)
  BY Zenon DEF Below, BelowIn
<1>2. Height = HeightIn(head)
  BY Zenon DEF Height, HeightIn
<1> QED
  BY <1>1, <1>2 DEF Nodes, NodesIn, root, Kid

LEMMA LeastIs ==
  ASSUME NEW S \in SUBSET Int, NEW x \in S, \A y \in S : x <= y
  PROVE  Least(S) = x
<1>1. ASSUME NEW z \in S, \A y \in S : z <= y PROVE z = x
  <2>1. x <= z /\ z <= x /\ x \in Int /\ z \in Int
    BY <1>1
  <2> QED
    BY <2>1
<1>2. S # {} /\ \A y \in S : Least(S) \in S /\ Least(S) <= y
  BY DEF Least
<1> QED
  BY <1>1, <1>2

LEMMA GreatestIs ==
  ASSUME NEW S \in SUBSET Int, NEW x \in S, \A y \in S : y <= x
  PROVE  Greatest(S) = x
<1>1. ASSUME NEW z \in S, \A y \in S : y <= z PROVE z = x
  <2>1. x <= z /\ z <= x /\ x \in Int /\ z \in Int
    BY <1>1
  <2> QED
    BY <2>1
<1>2. S # {} /\ \A y \in S : Greatest(S) \in S /\ y <= Greatest(S)
  BY DEF Greatest
<1> QED
  BY <1>1, <1>2

\* What kavl_interval returns.
LEMMA IntervalIs ==
  ASSUME NEW g, NEW N, IsTree(g, N), NEW k \in Key
  PROVE  Interval(g, k) = <<Greatest({x \in N : x <= k}), Least({x \in N : x >= k})>>
<1>1. PICK up, sub : Structure(g, up, sub) /\ N = sub[Kid(g, Root, 0)]
  BY DEF IsTree
<1>2. N \in SUBSET Key /\ sub[Null] = {} /\ k \in Int /\ (\A x \in N : x \in Int) /\ Null \notin N
  BY <1>1, TreeIs, KeysAre DEF Structure
<1>3. PICK w \in Walks(g, sub, k) : w = Search(g, k) /\ w.p \in {Null, k}
  BY <1>1, SearchEnds
<1> DEFINE A == {x \in N : x <= k}
           B == {x \in N : x >= k}
<1>4. ASSUME NEW x \in A, \A y \in A : y <= x PROVE Greatest(A) = x
  <2>1. A \in SUBSET Int
    BY <1>2
  <2> HIDE DEF A
  <2> QED
    BY <1>4, <2>1, GreatestIs
<1>5. ASSUME NEW x \in B, \A y \in B : x <= y PROVE Least(B) = x
  <2>1. B \in SUBSET Int
    BY <1>2
  <2> HIDE DEF B
  <2> QED
    BY <1>5, <2>1, LeastIs
<1>6. CASE w.p = Null
  <2>1. Interval(g, k) = <<w.lower, w.upper>>
    BY <1>3, <1>6 DEF Interval
  <2>2. /\ \A y \in N : \/ y < k /\ w.lower # Null /\ y <= w.lower
                        \/ k < y /\ w.upper # Null /\ w.upper <= y
        /\ w.lower # Null => w.lower \in N /\ w.lower < k
        /\ w.upper # Null => w.upper \in N /\ k < w.upper
    BY <1>1, <1>2, <1>3, <1>6 DEF Walks, Walked
  <2>3. PICK l, u : l = w.lower /\ u = w.upper
    OBVIOUS
  <2>4. Greatest(A) = l
    <3>1. CASE l = Null
      <4>1. ASSUME NEW y \in A PROVE FALSE
        <5>1. y \in N /\ y \in Int /\ k \in Int /\ y <= k
          BY <1>2
        <5>2. k < y
          BY <2>2, <2>3, <3>1, <5>1
        <5> QED
          BY <5>1, <5>2
      <4> QED
        BY <3>1, <4>1 DEF Greatest
    <3>2. CASE l # Null
      <4>1. l \in N /\ l < k
        BY <2>2, <2>3, <3>2
      <4>2. l \in A /\ \A y \in A : y <= l
        BY <1>2, <2>2, <2>3, <4>1
      <4> HIDE DEF A
      <4> QED
        BY <1>4, <4>2
    <3> QED
      BY <3>1, <3>2
  <2>5. Least(B) = u
    <3>1. CASE u = Null
      <4>1. ASSUME NEW y \in B PROVE FALSE
        <5>1. y \in N /\ y \in Int /\ k \in Int /\ k <= y
          BY <1>2
        <5>2. y < k
          BY <2>2, <2>3, <3>1, <5>1
        <5> QED
          BY <5>1, <5>2
      <4> QED
        BY <3>1, <4>1 DEF Least
    <3>2. CASE u # Null
      <4>1. u \in N /\ k < u
        BY <2>2, <2>3, <3>2
      <4>2. u \in B /\ \A y \in B : u <= y
        BY <1>2, <2>2, <2>3, <4>1
      <4> HIDE DEF B
      <4> QED
        BY <1>5, <4>2
    <3> QED
      BY <3>1, <3>2
  <2> QED
    BY <2>1, <2>3, <2>4, <2>5
<1>7. CASE w.p # Null
  <2>1. Interval(g, k) = <<k, k>> /\ k = Find(g, k)
    BY <1>3, <1>7 DEF Interval, Find
  <2>2. k \in N
    <3>1. k # Null
      BY KeysAre
    <3>2. Find(g, k) = IF k \in N THEN k ELSE Null
      BY <1>1, SearchIs
    <3> QED
      BY <2>1, <3>1, <3>2
  <2>3. /\ k \in A /\ \A y \in A : y <= k
        /\ k \in B /\ \A y \in B : k <= y
    BY <1>2, <2>2
  <2> HIDE DEF A, B
  <2>4. Greatest(A) = k /\ Least(B) = k
    BY <1>4, <1>5, <2>3
  <2> QED
    BY <2>1, <2>4 DEF A, B
<1> QED
  BY <1>6, <1>7

-----------------------------------------------------------------------------
(***************************************************************************)
(* Trees that a client builds.                                             *)
(***************************************************************************)
\* kavl_insert, of whatever key.
LEMMA PutKeepsTree ==
  ASSUME NEW g, NEW N, IsTree(g, N), NEW k \in Key
  PROVE  IsTree(Put(g, k), N \cup {k})
<1>1. PICK up, sub : Structure(g, up, sub) /\ N = sub[Kid(g, Root, 0)]
  BY DEF IsTree
<1>2. Find(g, k) = IF k \in N THEN k ELSE Null
  BY <1>1, SearchIs
<1>3. k # Null
  BY KeysAre
<1>4. CASE k \in N
  <2>1. Put(g, k) = g /\ N \cup {k} = N
    BY <1>2, <1>3, <1>4 DEF Put
  <2> QED
    BY <2>1
<1>5. CASE k \notin N
  <2>1. Put(g, k) = InsertAbsent(g, k)
    BY <1>2, <1>5 DEF Put
  <2> QED
    BY <1>5, <2>1, InsertKeepsTree
<1> QED
  BY <1>4, <1>5

LEMMA EmptyIsTree == IsTree(Empty, {})
<1> DEFINE up == [x \in Key |-> <<Root, 0>>]
           sub == [x \in Child |-> IF x = Null THEN {} ELSE {x}]
           ht == [x \in Child |-> IF x = Null THEN 0 ELSE 1]
<1>1. /\ \A x \in Key \cup {Root}, d \in 0..1 : Kid(Empty, x, d) = Null
      /\ \A x \in Key \cup {Root} : Bal(Empty, x) = 0 /\ Siz(Empty, x) = 1
      /\ Empty \in Heads
  BY DEF Empty, Bare, Kid, Bal, Siz, Heads, Child
<1>2. /\ sub[Null] = {} /\ ht[Null] = 0 /\ \A x \in Key : sub[x] = {x} /\ ht[x] = 1
      /\ sub \in [Child -> SUBSET Key] /\ ht \in [Child -> Nat] /\ up \in [Key -> Place]
  BY KeysAre DEF Child, Place
<1>3. \A x \in Key : Cardinality({x}) = 1
  BY FS_Singleton
<1> HIDE DEF sub, ht, up
<1>4. Structure(Empty, up, sub)
  BY <1>1, <1>2, <1>3 DEF Structure
<1>5. Balanced(Empty, ht, {})
  BY <1>1, <1>2 DEF Balanced, BalancedAt, Above
<1>6. {} = sub[Kid(Empty, Root, 0)]
  BY <1>1, <1>2
<1> QED
  BY <1>1, <1>4, <1>5, <1>6 DEF IsTree

\* the trees
Trees == {g \in Heads : \E N : IsTree(g, N)}

LEMMA TreesAre ==
  /\ \A g : \A N : IsTree(g, N) => g \in Trees
  /\ Empty \in Trees /\ \A g \in Trees, k \in Key : Put(g, k) \in Trees
<1>1. ASSUME NEW g, NEW N, IsTree(g, N) PROVE g \in Trees
  BY <1>1 DEF Trees, IsTree, Structure
<1>2. Empty \in Trees
  BY <1>1, EmptyIsTree
<1>3. ASSUME NEW g \in Trees, NEW k \in Key PROVE Put(g, k) \in Trees
  <2>1. PICK N : IsTree(g, N)
    BY DEF Trees
  <2>2. IsTree(Put(g, k), N \cup {k})
    BY <2>1, PutKeepsTree
  <2> QED
    BY <1>1, <2>2
<1> QED
  BY <1>1, <1>2, <1>3

\* A client that has put some keys has a tree.
LEMMA BuildIsTree ==
  ASSUME NEW keys \in Seq(Key)
  PROVE  Build(keys) \in Trees
<1> DEFINE grown(g, n) == IF n > Len(keys) THEN g ELSE Put(g, keys[n])
           step == [n \in Nat |-> [g \in Trees |-> grown(g, n + 1)]]
           body(t) == [n \in Nat |-> IF n = 0 THEN Empty
                                     ELSE IF n > Len(keys) THEN t[n - 1]
                                     ELSE Put(t[n - 1], keys[n])]
           tree == CHOOSE t : t = body(t)
<1>1. Build(keys) = tree[Len(keys)] /\ Len(keys) \in Nat
  BY DEF Build
<1>2. \A n \in Nat, g \in Trees : grown(g, n + 1) \in Trees
  <2> SUFFICES ASSUME NEW n \in Nat, NEW g \in Trees PROVE grown(g, n + 1) \in Trees
    OBVIOUS
  <2>1. CASE n + 1 > Len(keys)
    BY <2>1
  <2>2. CASE ~ (n + 1 > Len(keys))
    <3>1. n + 1 \in 1..Len(keys) /\ keys[n + 1] \in Key
      BY <1>1, <2>2
    <3>2. Put(g, keys[n + 1]) \in Trees
      BY <3>1, TreesAre
    <3> QED
      BY <2>2, <3>2
  <2> QED
    BY <2>1, <2>2
<1>3. Loop(Trees, Empty, step)
  <2>1. step \in [Nat -> [Trees -> Trees]]
    <3> HIDE DEF grown
    <3> QED
      BY <1>2
  <2> HIDE DEF step
  <2> QED
    BY <2>1, TreesAre DEF Loop
<1> HIDE DEF step
<1>4. PICK f : History(Trees, Empty, step, f)
  BY ONLY <1>3, LoopHasHistory
<1>5. f \in [Nat -> Trees] /\ f[0] = Empty /\ \A n \in Nat : f[n + 1] = step[n][f[n]]
  BY ONLY <1>4 DEF History
<1>6. f = body(f)
  <2>1. ASSUME NEW n \in Nat PROVE f[n] = body(f)[n]
    <3>1. CASE n = 0
      BY <1>5, <3>1
    <3>2. CASE n # 0
      <4>1. n - 1 \in Nat /\ (n - 1) + 1 = n
        BY <3>2
      <4>2. f[n] = step[n - 1][f[n - 1]] /\ f[n - 1] \in Trees
        BY <1>5, <4>1
      <4>3. f[n] = grown(f[n - 1], n)
        <5> HIDE DEF grown
        <5> QED
          BY <4>1, <4>2 DEF step
      <4> QED
        BY <3>2, <4>3
    <3> QED
      BY <3>1, <3>2
  <2> QED
    BY <1>5, <2>1
<1>7. tree = body(tree)
  <2> HIDE DEF body
  <2> QED
    BY <1>6, Zenon
<1> HIDE DEF tree
<1>8. tree[0] = Empty
  BY <1>7
<1>9. ASSUME NEW n \in Nat PROVE tree[n + 1] = grown(tree[n], n + 1)
  <2>1. n + 1 \in Nat /\ n + 1 # 0 /\ (n + 1) - 1 = n
    OBVIOUS
  <2>2. tree[n + 1] = body(tree)[n + 1]
    BY <1>7
  <2> QED
    BY <2>1, <2>2
<1> HIDE DEF body, grown
<1> DEFINE S == {n \in Nat : tree[n] \in Trees}
<1>10. 0 \in S
  BY <1>8, TreesAre
<1>11. ASSUME NEW n \in S PROVE n + 1 \in S
  <2>1. n \in Nat /\ tree[n] \in Trees /\ n + 1 \in Nat
    OBVIOUS
  <2>2. tree[n + 1] = grown(tree[n], n + 1) /\ grown(tree[n], n + 1) \in Trees
    BY <1>2, <1>9, <2>1
  <2> QED
    BY <2>1, <2>2
<1>12. S \in SUBSET Nat
  OBVIOUS
<1> HIDE DEF S
<1>13. S = Nat
  BY <1>10, <1>11, <1>12, InductionOnNat
<1> QED
  BY <1>1, <1>13 DEF S

-----------------------------------------------------------------------------
(***************************************************************************)
(* The iterator's stack.                                                   *)
(***************************************************************************)
\* nodes of the tree from the root down, each a child of the one before
Chain(g, N, s) ==
  /\ s \in Seq(Key)
  /\ s # <<>> => s[1] = Kid(g, Root, 0)
  /\ \A n \in 1..Len(s) : s[n] \in N
  /\ \A n \in 2..Len(s) : \E d \in 0..1 : s[n] = Kid(g, s[n - 1], d)

\* c is where a stack goes on
GoesOn(g, s, c) ==
  IF s = <<>> THEN c = Kid(g, Root, 0) ELSE \E d \in 0..1 : c = Kid(g, Last(s), d)

\* s is a stack that ends at the outermost node below c
EndsAt(sub, s, c, d) ==
  /\ s # <<>> /\ Last(s) \in sub[c]
  /\ \A y \in sub[c] : y = Last(s) \/ Beyond(Last(s), y, 1 - d)

LEMMA OutermostIs ==
  ASSUME NEW g, NEW up, NEW sub, Structure(g, up, sub), NEW N, N = sub[Kid(g, Root, 0)],
         NEW s, Chain(g, N, s), NEW c \in Child, GoesOn(g, s, c), NEW d \in 0..1
  PROVE  /\ Chain(g, N, Outermost(g, s, c, d))
         /\ c = Null => Outermost(g, s, c, d) = s
         /\ c # Null => EndsAt(sub, Outermost(g, s, c, d), c, d)
<1>1. PICK w \in Descents(g, sub, s, c, d) : w.p = Null /\ Outermost(g, s, c, d) = w.stack
  BY OutermostEnds DEF Chain
<1>2. PICK t : t = w.stack /\ t = Outermost(g, s, c, d)
  BY <1>1
<1>3. PICK l \in Nat, m \in Nat : l = Len(s) /\ m = Len(t)
  <2>1. s \in Seq(Key) /\ t \in Seq(Key)
    BY <1>2 DEF Descents, Chain
  <2> QED
    BY <2>1
<1>4. /\ t \in Seq(Key) /\ m >= l /\ \A n \in 1..l : t[n] = s[n]
      /\ m = l => Null = c
      /\ m > l => /\ t[l + 1] = c /\ Null = Kid(g, t[m], d)
                  /\ \A y \in sub[c] :
                       y \in sub[Null] \/ y = t[m] \/ Beyond(t[m], y, 1 - d)
      /\ \A n \in (l + 1)..m : t[n] \in sub[c]
      /\ \A n \in (l + 1)..(m - 1) : t[n + 1] = Kid(g, t[n], d)
  BY <1>1, <1>2, <1>3 DEF Descents, Descended
<1>5. s \in Seq(Key) /\ (s = <<>> <=> l = 0) /\ (l # 0 => Last(s) = s[l]) /\ sub[Null] = {}
  BY <1>3 DEF Chain, Last, Structure
<1>6. /\ s # <<>> => s[1] = Kid(g, Root, 0)
      /\ \A n \in 1..l : s[n] \in N
      /\ \A n \in 2..l : \E e \in 0..1 : s[n] = Kid(g, s[n - 1], e)
  BY <1>3 DEF Chain
<1>7. CASE c = Null
  <2>1. m = l
    <3>1. CASE m > l
      <4>1. l + 1 \in (l + 1)..m
        BY <3>1
      <4> QED
        BY <1>4, <1>5, <1>7, <4>1
    <3> QED
      BY <1>4, <3>1
  <2>2. t = s
    <3>1. t \in Seq(Key) /\ s \in Seq(Key) /\ Len(t) = l /\ Len(s) = l
      BY <1>3, <1>4, <1>5, <2>1
    <3>2. \A n \in 1..l : t[n] = s[n]
      BY <1>4
    <3>3. t = [n \in 1..l |-> t[n]] /\ s = [n \in 1..l |-> s[n]]
      BY <3>1
    <3> QED
      BY <3>2, <3>3, Zenon
  <2> QED
    BY <1>2, <1>7, <2>2
<1>8. CASE c # Null
  <2>1. m > l /\ m >= 1 /\ m \in (l + 1)..m /\ t # <<>> /\ Last(t) = t[m]
    <3>1. m > l
      BY <1>4, <1>8
    <3>2. m >= 1 /\ m \in (l + 1)..m /\ m # 0
      BY <3>1
    <3>3. t # <<>>
      BY <1>3, <3>2
    <3> QED
      BY <1>3, <3>1, <3>2, <3>3 DEF Last
  <2>2. EndsAt(sub, t, c, d)
    BY <1>4, <1>5, <2>1 DEF EndsAt
  <2>3. c \in N /\ sub[c] \subseteq N
    <3>1. \/ c = Kid(g, Root, 0)
          \/ \E e \in 0..1 : l # 0 /\ c = Kid(g, s[l], e) /\ s[l] \in Key
      <4>1. l # 0 => s[l] \in Key
        BY <1>3, <1>5
      <4> QED
        BY <1>5, <4>1 DEF GoesOn
    <3>2. c \in N
      BY <1>8, <3>1, TreeIs
    <3> QED
      BY <3>2, TreeIs
  <2>4. t[1] = Kid(g, Root, 0)
    <3>1. CASE l = 0
      BY <1>4, <1>5, <2>1, <3>1 DEF GoesOn
    <3>2. CASE l # 0
      <4>1. 1 \in 1..l
        BY <3>2
      <4> QED
        BY <1>4, <1>5, <1>6, <3>2, <4>1
    <3> QED
      BY <3>1, <3>2
  <2>5. ASSUME NEW n \in 1..m PROVE t[n] \in N
    <3>1. n \in 1..l \/ n \in (l + 1)..m
      OBVIOUS
    <3> QED
      BY <1>4, <1>6, <2>3, <3>1
  <2>6. ASSUME NEW n \in 2..m PROVE \E e \in 0..1 : t[n] = Kid(g, t[n - 1], e)
    <3>1. CASE n \in 2..l
      <4>1. n \in 1..l /\ n - 1 \in 1..l
        BY <3>1
      <4> QED
        BY <1>4, <1>6, <3>1, <4>1
    <3>2. CASE n = l + 1
      <4>1. l # 0 /\ n - 1 = l /\ l \in 1..l
        BY <3>2
      <4>2. t[n] = c /\ t[n - 1] = Last(s) /\ s # <<>>
        BY <1>4, <1>5, <2>1, <3>2, <4>1
      <4> QED
        BY <4>2 DEF GoesOn
    <3>3. CASE n > l + 1
      <4>1. n - 1 \in (l + 1)..(m - 1) /\ (n - 1) + 1 = n
        BY <3>3
      <4>2. t[n] = Kid(g, t[n - 1], d)
        BY <1>4, <4>1
      <4> QED
        BY <4>2
    <3>4. n \in 2..l \/ n = l + 1 \/ n > l + 1
      OBVIOUS
    <3> QED
      BY <3>1, <3>2, <3>3, <3>4
  <2>7. Chain(g, N, t)
    BY <1>3, <1>4, <2>4, <2>5, <2>6 DEF Chain
  <2> QED
    BY <1>2, <1>8, <2>2, <2>7
<1> QED
  BY <1>7, <1>8

-----------------------------------------------------------------------------
(***************************************************************************)
(* The iterator's moves.                                                   *)
(***************************************************************************)
\* What is not below a node is on one side of all that is.
LEMMA BesideAll ==
  ASSUME NEW g, NEW up, NEW sub, Structure(g, up, sub), NEW N, N = sub[Kid(g, Root, 0)],
         NEW z \in N, NEW y \in N \ sub[z], NEW d \in 0..1
  PROVE  \A u, v \in sub[z] : Beyond(u, y, d) => Beyond(v, y, d)
<1>1. z \in Key /\ N \in SUBSET Key
  BY TreeIs
<1>2. PICK w \in Walks(g, sub, z) : w.p \in {Null, z} /\ w.p = Find(g, z)
  BY <1>1, SearchEnds DEF Find
<1>3. w.p = z
  <2>1. Find(g, z) = z
    BY <1>1, IsFound
  <2> QED
    BY <1>2, <2>1
<1>4. (\A u \in sub[w.p] : y < u) \/ (\A u \in sub[w.p] : u < y)
  <2>1. y \in N \ sub[w.p]
    BY <1>3
  <2> QED
    BY <2>1 DEF Walks, Walked
<1>5. y \in Int /\ \A u \in sub[z] : u \in Int
  BY <1>1, KidsAre, KeysAre
<1> QED
  BY <1>3, <1>4, <1>5 DEF Beyond

\* z is the nearest node to x in direction d
Nearest(N, x, z, d) ==
  z \in N /\ Beyond(x, z, d) /\ \A y \in N : Beyond(x, y, d) => y = z \/ Beyond(z, y, d)

LEMMA NearestIs ==
  ASSUME NEW N \in SUBSET Key, NEW x \in Key, NEW z
  PROVE  /\ Nearest(N, x, z, 1) => Least({y \in N : y > x}) = z
         /\ Nearest(N, x, z, 0) => Greatest({y \in N : y < x}) = z
         /\ (\A y \in N : ~ Beyond(x, y, 1)) => Least({y \in N : y > x}) = Null
         /\ (\A y \in N : ~ Beyond(x, y, 0)) => Greatest({y \in N : y < x}) = Null
<1>1. x \in Int /\ \A y \in N : y \in Int
  BY KeysAre
<1> DEFINE A == {y \in N : y > x}
           B == {y \in N : y < x}
<1>2. ASSUME Nearest(N, x, z, 1) PROVE Least(A) = z
  <2>1. z \in A /\ A \in SUBSET Int
    BY <1>1, <1>2 DEF Nearest, Beyond
  <2>2. ASSUME NEW y \in A PROVE z <= y
    <3>1. (y = z \/ z < y) /\ z \in Int /\ y \in Int
      BY <1>1, <1>2 DEF Nearest, Beyond
    <3> QED
      BY <3>1
  <2> HIDE DEF A
  <2> QED
    BY <2>1, <2>2, LeastIs
<1>3. ASSUME Nearest(N, x, z, 0) PROVE Greatest(B) = z
  <2>1. z \in B /\ B \in SUBSET Int
    <3>1. z \in N /\ z < x
      BY <1>3 DEF Nearest, Beyond
    <3> QED
      BY <1>1, <3>1
  <2>2. ASSUME NEW y \in B PROVE y <= z
    <3>1. (y = z \/ y < z) /\ z \in Int /\ y \in Int
      BY <1>1, <1>3 DEF Nearest, Beyond
    <3> QED
      BY <3>1
  <2> HIDE DEF B
  <2> QED
    BY <2>1, <2>2, GreatestIs
<1>4. ASSUME \A y \in N : ~ Beyond(x, y, 1) PROVE Least(A) = Null
  <2>1. A = {}
    BY <1>1, <1>4 DEF Beyond
  <2> QED
    BY <2>1 DEF Least
<1>5. ASSUME \A y \in N : ~ Beyond(x, y, 0) PROVE Greatest(B) = Null
  <2>1. \A y \in N : ~ (y < x)
    BY <1>5 DEF Beyond
  <2> QED
    BY <2>1 DEF Greatest
<1> QED
  BY <1>2, <1>3, <1>4, <1>5

\* The way down from the child of x.
LEMMA NearestBelow ==
  ASSUME NEW g, NEW up, NEW sub, Structure(g, up, sub), NEW N, N = sub[Kid(g, Root, 0)],
         NEW x \in N, NEW d \in 0..1, NEW c, c = Kid(g, x, d), c # Null,
         NEW z \in sub[c], \A y \in sub[c] : y = z \/ Beyond(z, y, d)
  PROVE  Nearest(N, x, z, d)
<1>1. x \in Key /\ N \in SUBSET Key /\ sub[x] \subseteq N /\ x \in sub[x]
  BY TreeIs, KidsAre
<1>2. /\ sub[x] = {x} \cup sub[c] \cup sub[Kid(g, x, 1 - d)] /\ sub[c] \subseteq sub[x]
      /\ \A y \in sub[c] : Beyond(x, y, d)
      /\ \A y \in sub[Kid(g, x, 1 - d)] : Beyond(x, y, 1 - d)
  <2>1. 1 - d \in 0..1
    OBVIOUS
  <2> QED
    BY <1>1, <2>1, KidsAre DEF Structure
<1>3. z \in N /\ Beyond(x, z, d) /\ z \in sub[x]
  BY <1>1, <1>2
<1>4. ASSUME NEW y \in N, Beyond(x, y, d), y # z PROVE Beyond(z, y, d)
  <2>1. CASE y \in sub[x]
    <3>1. ~ Beyond(x, y, 1 - d) /\ y # x
      <4>1. x \in Int /\ y \in Int
        BY <1>1, KeysAre
      <4> QED
        BY <1>4, <4>1 DEF Beyond
    <3>2. y \in sub[c]
      BY <1>2, <2>1, <3>1
    <3> QED
      BY <1>4, <3>2
  <2>2. CASE y \notin sub[x]
    <3>1. y \in N \ sub[x]
      BY <2>2
    <3> QED
      BY <1>1, <1>3, <1>4, <3>1, BesideAll
  <2> QED
    BY <2>1, <2>2
<1> QED
  BY <1>3, <1>4 DEF Nearest

LEMMA PrefixIsChain ==
  ASSUME NEW g, NEW N, NEW s, Chain(g, N, s), NEW n \in 1..Len(s)
  PROVE  Chain(g, N, SubSeq(s, 1, n)) /\ SubSeq(s, 1, n) # <<>> /\ Last(SubSeq(s, 1, n)) = s[n]
<1>1. s \in Seq(Key) /\ Len(s) \in Nat
  BY DEF Chain
<1>2. PICK t : t = SubSeq(s, 1, n)
  OBVIOUS
<1> DEFINE l == Len(s)
<1>3. t \in Seq(Key) /\ Len(t) = n /\ n \in Nat /\ \A m \in 1..n : t[m] = s[m]
  BY <1>1, <1>2
<1>4. s # <<>> /\ t # <<>> /\ 1 \in 1..n
  BY <1>1, <1>3
<1>5. \A m \in 1..n : t[m] \in N
  <2>1. \A m \in 1..n : m \in 1..l
    BY <1>1
  <2> QED
    BY <1>3, <2>1 DEF Chain
<1>6. ASSUME NEW m \in 2..n PROVE \E d \in 0..1 : t[m] = Kid(g, t[m - 1], d)
  <2>1. m \in 1..n /\ m - 1 \in 1..n /\ m \in 2..l
    BY <1>1, <1>3
  <2> QED
    BY <1>3, <2>1 DEF Chain
<1>7. Chain(g, N, t)
  BY <1>3, <1>4, <1>5, <1>6 DEF Chain
<1> QED
  BY <1>2, <1>3, <1>4, <1>7 DEF Last

\* from the n-th on, the nodes of s go down in direction d
Goes(g, s, n, d) == \A m \in n..(Len(s) - 1) : s[m + 1] = Kid(g, s[m], d)

\* Nodes that are left in direction d.
LEMMA NoneBeyond ==
  ASSUME NEW g, NEW up, NEW sub, Structure(g, up, sub), NEW N, N = sub[Kid(g, Root, 0)],
         NEW s, Chain(g, N, s), NEW x, NEW L \in Nat, L = Len(s), L # 0, x = s[L],
         NEW d \in 0..1, Kid(g, x, d) = Null,
         NEW n \in 1..L, Goes(g, s, n, d)
  PROVE  x \in sub[s[n]] /\ \A y \in sub[s[n]] : ~ Beyond(x, y, d)
<1> DEFINE Good(m) == x \in sub[s[m]] /\ \A y \in sub[s[m]] : ~ Beyond(x, y, d)
           S == {i \in Nat : i <= L - n => Good(L - i)}
<1>1. /\ N \in SUBSET Key /\ \A m \in 1..L : s[m] \in Key
      /\ x \in Key /\ sub[Null] = {}
  <2>1. \A m \in 1..L : s[m] \in N
    BY DEF Chain
  <2>2. N \in SUBSET Key /\ L \in 1..L
    BY TreeIs
  <2> QED
    BY <2>1, <2>2 DEF Structure
<1>2. ASSUME NEW z \in Key, NEW e \in 0..1
      PROVE  /\ sub[z] = {z} \cup sub[Kid(g, z, e)] \cup sub[Kid(g, z, 1 - e)]
             /\ \A y \in sub[Kid(g, z, e)] : Beyond(z, y, e)
             /\ \A y \in sub[z] : y \in Int
  <2>1. sub[z] = {z} \cup sub[Kid(g, z, e)] \cup sub[Kid(g, z, 1 - e)] /\ sub[z] \in SUBSET Key
    BY KidsAre
  <2>2. \A y \in sub[Kid(g, z, e)] : Beyond(z, y, e)
    BY DEF Structure
  <2> QED
    BY <2>1, <2>2, KeysAre
<1>3. 1 - d \in 0..1
  OBVIOUS
<1>4. 0 \in S
  <2>1. x \in sub[x]
    BY <1>1, <1>2
  <2>2. ASSUME NEW y \in sub[x] PROVE ~ Beyond(x, y, d)
    <3>1. x \in Int /\ y \in Int
      BY <1>1, <1>2, <2>1
    <3>2. y = x \/ Beyond(x, y, 1 - d)
      BY <1>1, <1>2, <1>3
    <3> QED
      BY <3>1, <3>2 DEF Beyond
  <2> QED
    BY <2>1, <2>2
<1>5. ASSUME NEW i \in S PROVE i + 1 \in S
  <2> SUFFICES ASSUME i + 1 <= L - n PROVE Good(L - (i + 1))
    OBVIOUS
  <2>1. PICK m \in Nat : m = L - (i + 1) /\ m \in n..(L - 1) /\ m + 1 = L - i /\ m \in 1..L
    <3>1. i \in Nat /\ n \in Nat /\ n >= 1 /\ i + 1 <= L - n /\ L \in Nat
      OBVIOUS
    <3> QED
      BY ONLY <3>1
  <2>2. Good(m + 1) /\ s[m + 1] = Kid(g, s[m], d) /\ s[m] \in Key
    <3>1. i <= L - n
      OBVIOUS
    <3> QED
      BY <1>1, <2>1, <3>1 DEF Goes
  <2>3. PICK z \in Key : z = s[m]
    BY <2>2
  <2> DEFINE c == Kid(g, z, d)
  <2>4. /\ sub[z] = {z} \cup sub[c] \cup sub[Kid(g, z, 1 - d)]
        /\ \A y \in sub[c] : Beyond(z, y, d)
        /\ \A y \in sub[Kid(g, z, 1 - d)] : Beyond(z, y, 1 - d)
        /\ \A y \in sub[z] : y \in Int
    BY <1>2, <1>3, <2>3
  <2>5. x \in sub[c] /\ \A y \in sub[c] : ~ Beyond(x, y, d)
    BY <2>2, <2>3
  <2> HIDE DEF c
  <2>6. x \in sub[z] /\ Beyond(z, x, d)
    BY <2>4, <2>5
  <2>7. ASSUME NEW y \in sub[z] PROVE ~ Beyond(x, y, d)
    <3>1. x \in Int /\ y \in Int /\ z \in Int
      BY <2>4, <2>6
    <3>2. CASE y \in sub[c]
      BY <2>5, <3>2
    <3>3. CASE y = z \/ Beyond(z, y, 1 - d)
      BY <2>6, <3>1, <3>3 DEF Beyond
    <3> QED
      BY <2>4, <3>2, <3>3
  <2> QED
    BY <2>1, <2>3, <2>6, <2>7
<1>6. S \in SUBSET Nat
  OBVIOUS
<1> HIDE DEF S
<1>7. S = Nat
  BY <1>4, <1>5, <1>6, InductionOnNat
<1>8. PICK i \in Nat : i = L - n /\ L - i = n /\ i <= L - n
  <2>1. L \in Nat /\ n \in Nat /\ n <= L
    OBVIOUS
  <2> QED
    BY ONLY <2>1
<1>9. Good(L - i)
  BY <1>7, <1>8 DEF S
<1> QED
  BY <1>8, <1>9

\* The way up from x, which has no child in direction d.
LEMMA ClimbIs ==
  ASSUME NEW up, NEW sub, Structure(head, up, sub), NEW N, N = sub[Kid(head, Root, 0)],
         NEW s, Chain(head, N, s), s # <<>>, NEW x, x = Last(s),
         NEW d \in 0..1, Kid(head, x, d) = Null
  PROVE  /\ Chain(head, N, Climb(s, d))
         /\ Climb(s, d) = <<>> => \A y \in N : ~ Beyond(x, y, d)
         /\ Climb(s, d) # <<>> => Nearest(N, x, Last(Climb(s, d)), d)
<1>1. PICK L \in Nat : L = Len(s) /\ L # 0 /\ x = s[L]
  BY DEF Chain, Last
<1>2. s \in Seq(Key) /\ s[1] = Kid(head, Root, 0) /\ 1 \in 1..L /\ N \in SUBSET Key
  BY <1>1, TreeIs DEF Chain
<1> DEFINE S == {n \in 1..(L - 1) : Kid(head, s[n], d) # s[n + 1]}
           n == CHOOSE n \in S : \A m \in S : m <= n
<1>3. Climb(s, d) = IF S = {} THEN <<>> ELSE SubSeq(s, 1, n)
  BY <1>1 DEF Climb, Kid
<1>4. CASE S = {}
  <2>1. Goes(head, s, 1, d)
    BY <1>1, <1>4 DEF Goes
  <2>2. \A y \in sub[s[1]] : ~ Beyond(x, y, d)
    BY <1>1, <1>2, <2>1, NoneBeyond
  <2>3. Chain(head, N, <<>>)
    BY DEF Chain
  <2> QED
    BY <1>2, <1>3, <1>4, <2>2, <2>3
<1>5. CASE S # {}
  <2>1. n \in S /\ \A m \in S : m <= n
    <3>1. PICK T : T = {L - m : m \in S}
      OBVIOUS
    <3>2. T \in SUBSET Nat /\ T # {}
      BY <1>5, <3>1
    <3>3. PICK i \in T : \A j \in T : i <= j
      BY <3>2, LeastNatural
    <3>4. PICK m \in S : i = L - m
      BY <3>1, <3>3
    <3>5. ASSUME NEW k \in S PROVE k <= m
      <4>1. L - k \in T
        BY <3>1
      <4>2. L - m <= L - k
        BY <3>3, <3>4, <4>1
      <4>3. k \in Nat /\ m \in Nat
        OBVIOUS
      <4> QED
        BY <4>2, <4>3
    <3> HIDE DEF S
    <3> QED
      BY <3>5
  <2> HIDE DEF n
  <2>2. PICK m \in 1..(L - 1) : m = n /\ Kid(head, s[m], d) # s[m + 1]
    BY <2>1
  <2>3. m \in 1..L /\ m + 1 \in 1..L /\ m + 1 \in 2..L /\ (m + 1) - 1 = m
    BY <2>2
  <2>4. PICK z, c : z = s[m] /\ c = s[m + 1] /\ z \in N /\ c \in N
    BY <1>1, <2>3 DEF Chain
  <2>5. c = Kid(head, z, 1 - d)
    <3>1. PICK e \in 0..1 : c = Kid(head, z, e)
      BY <1>1, <2>3, <2>4 DEF Chain
    <3>2. e # d
      BY <2>2, <2>4, <3>1
    <3>3. e = 1 - d
      BY <3>2
    <3> QED
      BY <3>1, <3>3
  <2>6. Goes(head, s, m + 1, d)
    <3> SUFFICES ASSUME NEW i \in (m + 1)..(L - 1), s[i + 1] # Kid(head, s[i], d) PROVE FALSE
      BY <1>1 DEF Goes
    <3>1. i \in S
      BY <2>3
    <3>2. i <= m
      BY <2>1, <2>2, <3>1
    <3> QED
      BY <3>2
  <2>7. x \in sub[c] /\ \A y \in sub[c] : ~ Beyond(x, y, d)
    BY <1>1, <2>3, <2>4, <2>6, NoneBeyond
  <2>8. /\ sub[z] = {z} \cup sub[c] \cup sub[Kid(head, z, d)] /\ sub[z] \subseteq N
        /\ \A y \in sub[c] : Beyond(z, y, 1 - d)
        /\ \A y \in sub[Kid(head, z, d)] : Beyond(z, y, d)
    <3>1. 1 - d \in 0..1 /\ z \in Key
      BY <1>2, <2>4
    <3> QED
      <4>1. sub[z] = {z} \cup sub[Kid(head, z, d)] \cup sub[Kid(head, z, 1 - d)] /\ sub[z] \subseteq N
        BY <2>4, <3>1, KidsAre, TreeIs
      <4>2. \A e \in 0..1 : \A y \in sub[Kid(head, z, e)] : Beyond(z, y, e)
        BY <3>1 DEF Structure
      <4> QED
        BY <2>5, <3>1, <4>1, <4>2
  <2>9. /\ x \in sub[z] /\ z \in sub[z] /\ x \in Int /\ z \in Int /\ (\A y \in N : y \in Int)
        /\ Beyond(x, z, d)
    <3>1. x \in sub[z] /\ z \in sub[z] /\ x \in Int /\ z \in Int /\ \A y \in N : y \in Int
      BY <1>2, <2>7, <2>8, KeysAre
    <3>2. Beyond(z, x, 1 - d)
      BY <2>7, <2>8
    <3> QED
      BY <3>1, <3>2 DEF Beyond
  <2>10. ASSUME NEW y \in N, Beyond(x, y, d), y # z PROVE Beyond(z, y, d)
    <3>1. CASE y \in sub[z]
      <4>1. y \in sub[Kid(head, z, d)]
        BY <2>7, <2>8, <2>10, <3>1
      <4> QED
        BY <2>8, <4>1
    <3>2. CASE y \notin sub[z]
      <4>1. y \in N \ sub[z]
        BY <3>2
      <4> QED
        BY <2>4, <2>9, <2>10, <4>1, BesideAll
    <3> QED
      BY <3>1, <3>2
  <2>11. Nearest(N, x, z, d)
    BY <2>4, <2>9, <2>10 DEF Nearest
  <2>12. Climb(s, d) = SubSeq(s, 1, m)
    BY <1>3, <1>5, <2>2
  <2>13. Chain(head, N, SubSeq(s, 1, m)) /\ SubSeq(s, 1, m) # <<>> /\ Last(SubSeq(s, 1, m)) = z
    BY <1>1, <2>3, <2>4, PrefixIsChain
  <2> QED
    BY <2>11, <2>12, <2>13
<1> QED
  BY <1>4, <1>5

\* the nodes that path passes
NodesOf(path) == [n \in 1..(Len(path) - 1) |-> path[n + 1].x]

\* Where kavl_itr_find leaves the iterator.
LEMMA FoundIsChain ==
  ASSUME NEW g, NEW up, NEW sub, Structure(g, up, sub), NEW N, N = sub[Kid(g, Root, 0)],
         NEW path, IsPath(g, path),
         NEW s, s = NodesOf(path)
  PROVE  /\ Chain(g, N, s)
         /\ End(g, path) # Null => Chain(g, N, Append(s, End(g, path)))
<1>1. PICK L \in Nat : L = Len(path) /\ L >= 1
  BY DEF IsPath
<1>2. /\ path[1] = [x |-> Root, d |-> 0]
      /\ \A n \in 2..L : path[n].x \in Key /\ path[n].x = Kid(g, path[n - 1].x, path[n - 1].d)
      /\ \A n \in 1..L : path[n].x \in Key \cup {Root} /\ path[n].d \in 0..1
  <2>1. path \in Seq(Steps)
    BY DEF IsPath
  <2>2. \A n \in 1..L : path[n] \in Steps
    BY <1>1, <2>1
  <2> QED
    BY <1>1, <2>2 DEF IsPath, Steps
<1>3. PICK M \in Nat : M = L - 1
  BY <1>1
<1>4. /\ s \in Seq(Key) /\ Len(s) = M /\ \A n \in 1..M : s[n] = path[n + 1].x
  <2>1. s = [n \in 1..M |-> path[n + 1].x]
    BY <1>1, <1>3 DEF NodesOf
  <2>2. ASSUME NEW n \in 1..M PROVE path[n + 1].x \in Key
    <3>1. n + 1 \in 2..L
      BY <1>3
    <3> QED
      BY <1>2, <3>1
  <2>3. s \in [1..M -> Key] /\ DOMAIN s = 1..M /\ \A n \in 1..M : s[n] = path[n + 1].x
    BY <2>1, <2>2
  <2>4. s \in Seq(Key)
    BY <2>3
  <2>5. Len(s) \in Nat /\ DOMAIN s = 1..Len(s)
    BY <2>4
  <2>6. Len(s) = M
    BY <2>3, <2>5
  <2> QED
    BY <2>3, <2>4, <2>6
<1>5. s # <<>> => s[1] = Kid(g, Root, 0)
  <2> SUFFICES ASSUME M # 0 PROVE s[1] = Kid(g, Root, 0)
    BY <1>4
  <2>1. 1 \in 1..M /\ 2 \in 2..L
    BY <1>3
  <2>2. s[1] = path[2].x
    BY <1>4, <2>1
  <2>3. path[2].x = Kid(g, path[1].x, path[1].d)
    BY <1>2, <2>1
  <2> QED
    BY <1>2, <2>2, <2>3
<1>6. ASSUME NEW n \in 1..M PROVE s[n] \in N
  <2>1. n + 1 \in 2..L /\ (n + 1) - 1 = n /\ n \in 1..L
    BY <1>3
  <2>2. s[n] = Kid(g, path[n].x, path[n].d) /\ s[n] \in Key
    BY <1>2, <1>4, <2>1
  <2> QED
    BY <1>2, <2>1, <2>2, TreeIs, KeysAre
<1>7. ASSUME NEW n \in 2..M PROVE \E d \in 0..1 : s[n] = Kid(g, s[n - 1], d)
  <2>1. n + 1 \in 2..L /\ (n + 1) - 1 = n /\ n \in 1..L /\ n \in 1..M /\ n - 1 \in 1..M /\ (n - 1) + 1 = n
    BY <1>3
  <2>2. s[n] = Kid(g, path[n].x, path[n].d) /\ s[n - 1] = path[n].x
    BY <1>2, <1>4, <2>1
  <2> QED
    BY <1>2, <2>1, <2>2
<1>8. Chain(g, N, s)
  BY <1>4, <1>5, <1>6, <1>7 DEF Chain
<1>9. ASSUME End(g, path) # Null PROVE Chain(g, N, Append(s, End(g, path)))
  <2>1. PICK x \in Key \cup {Root}, d \in 0..1 : x = path[L].x /\ d = path[L].d
    <3>1. L \in 1..L
      BY <1>1
    <3> QED
      BY <1>2, <3>1
  <2>2. PICK k : k = End(g, path) /\ k = Kid(g, x, d) /\ k # Null
    BY <1>1, <1>9, <2>1 DEF End
  <2>3. k \in N /\ k \in Key
    BY <2>1, <2>2, TreeIs
  <2>4. PICK t : t = Append(s, k)
    OBVIOUS
  <2>5. /\ t \in Seq(Key) /\ Len(t) = M + 1 /\ t[M + 1] = k /\ \A n \in 1..M : t[n] = s[n]
    <3>1. s \in Seq(Key) /\ Len(s) = M /\ k \in Key
      BY <1>4, <2>3
    <3>2. t \in Seq(Key) /\ Len(t) = Len(s) + 1 /\ t[Len(s) + 1] = k
          /\ \A n \in 1..Len(s) : t[n] = s[n]
      BY ONLY <2>4, <3>1
    <3> QED
      BY <3>1, <3>2
  <2>6. M = 0 => x = Root /\ d = 0
    <3>1. M = 0 => L = 1
      <4>1. L \in Nat /\ M \in Nat /\ M = L - 1
        BY <1>3
      <4> QED
        BY ONLY <4>1
    <3>2. path[1].x = Root /\ path[1].d = 0
      BY <1>2
    <3> QED
      BY <2>1, <3>1, <3>2
  <2>7. M # 0 => x = s[M]
    BY <1>3, <1>4, <2>1
  <2>8. t[1] = Kid(g, Root, 0)
    <3>1. CASE M = 0
      BY <2>2, <2>5, <2>6, <3>1
    <3>2. CASE M # 0
      <4>1. 1 \in 1..M
        BY <3>2
      <4>2. s # <<>>
        BY <1>4, <3>2
      <4> QED
        BY <1>5, <2>5, <4>1, <4>2
    <3> QED
      BY <3>1, <3>2
  <2>9. \A n \in 1..(M + 1) : t[n] \in N
    <3>1. \A n \in 1..(M + 1) : n \in 1..M \/ n = M + 1
      OBVIOUS
    <3> QED
      BY <1>6, <2>3, <2>5, <3>1
  <2>10. ASSUME NEW n \in 2..(M + 1) PROVE \E e \in 0..1 : t[n] = Kid(g, t[n - 1], e)
    <3>1. CASE n \in 2..M
      <4>1. n \in 1..M /\ n - 1 \in 1..M
        BY <3>1
      <4> QED
        BY <1>7, <2>5, <3>1, <4>1
    <3>2. CASE n = M + 1
      <4>1. M # 0 /\ n - 1 = M /\ M \in 1..M
        BY <3>2
      <4> QED
        BY <2>2, <2>5, <2>7, <3>2, <4>1
    <3>3. n \in 2..M \/ n = M + 1
      OBVIOUS
    <3> QED
      BY <3>1, <3>2, <3>3
  <2>11. Chain(g, N, t)
    BY <2>5, <2>8, <2>9, <2>10 DEF Chain
  <2> QED
    BY <2>2, <2>4, <2>11
<1> QED
  BY <1>8, <1>9

-----------------------------------------------------------------------------
(***************************************************************************)
(* kavl_free.  The nodes it has not freed are those of a tree, in which p  *)
(* is the root: a turn that frees no node rotates p.                       *)
(***************************************************************************)
LEMMA UnrollIs ==
  ASSUME NEW g \in Heads, NEW p \in Key, NEW q \in Key, q = Kid(g, p, 0)
  PROVE  /\ Unroll(g, p) \in Heads
         /\ \A x \in Key \cup {Root}, e \in 0..1 :
              Kid(Unroll(g, p), x, e) = IF x = q /\ e = 1 THEN p
                                        ELSE IF x = p /\ e = 0 THEN Kid(g, q, 1)
                                        ELSE Kid(g, x, e)
<1> DEFINE h == SetKid(g, p, 0, Kid(g, q, 1))
<1>1. Kid(g, q, 1) \in Child /\ p \in Child
  BY DEF Heads, Kid, Child
<1>2. KidChanged(g, h, p, 0, Kid(g, q, 1))
  BY <1>1, KidChanges
<1> HIDE DEF h
<1>3. KidChanged(h, SetKid(h, q, 1, p), q, 1, p)
  BY <1>1, <1>2, KidChanges DEF KidChanged
<1>4. Unroll(g, p) = SetKid(h, q, 1, p)
  BY DEF Unroll, SetKid, h, Kid
<1> QED
  BY <1>2, <1>3, <1>4 DEF KidChanged

\* The root of a tree is taken out, which has no left child.
LEMMA RootTaken ==
  ASSUME NEW h, NEW up, NEW sub, Structure(h, up, sub), NEW p \in Key,
         Kid(h, Root, 0) = p, Kid(h, p, 0) = Null, NEW r, r = Kid(h, p, 1)
  PROVE  \E h2, up2, sub2 :
           /\ Structure(h2, up2, sub2) /\ Kid(h2, Root, 0) = r
           /\ sub2[r] = sub[p] \ {p}
           /\ \A x \in sub2[r] :
                sub2[x] = sub[x] /\ \A e \in 0..1 : Kid(h2, x, e) = Kid(h, x, e)
<1>1. /\ r \in Child /\ Null \in Child /\ p # Root /\ p # Null /\ p # r
      /\ sub[p] = {p} \cup sub[r] /\ p \notin sub[r] /\ sub[r] \in SUBSET Key
      /\ h \in Heads
  <2>1. sub[p] = {p} \cup sub[Null] \cup sub[r] /\ sub[Null] = {} /\ h \in Heads
    BY DEF Structure
  <2>2. p \in sub[p] /\ p # Null /\ p # Root
    BY KidsAre, KeysAre
  <2>3. r \in Child /\ p \notin sub[r] /\ sub[r] \in SUBSET Key
    BY KidsAre
  <2>4. p # r
    <3>1. p \in sub[p]
      BY <2>2
    <3> QED
      BY <2>3, <3>1
  <2> QED
    BY <2>1, <2>2, <2>3, <2>4 DEF Child
<1> DEFINE h0 == SetKid(h, Root, 0, r)
           h1 == SetKid(h0, p, 1, Null)
           h2 == SetSize(h1, p, 1)
           up2 == [y \in Key |-> IF y = r THEN <<Root, 0>> ELSE up[y]]
           sub2 == [y \in Child |-> IF y = p THEN {p} ELSE sub[y]]
<1>2. KidChanged(h, h0, Root, 0, r)
  BY <1>1, KidChanges
<1> HIDE DEF h0
<1>3. KidChanged(h0, h1, p, 1, Null)
  BY <1>1, <1>2, KidChanges DEF KidChanged
<1> HIDE DEF h1
<1>4. SizeChanged(h1, h2, p, 1)
  BY <1>3, SizeChanges DEF KidChanged
<1> HIDE DEF h2
<1>5. /\ h2 \in Heads
      /\ \A x \in Key \cup {Root}, e \in 0..1 :
           Kid(h2, x, e) = IF x = Root /\ e = 0 THEN r
                           ELSE IF x = p /\ e = 1 THEN Null
                           ELSE Kid(h, x, e)
      /\ \A x \in Key : Siz(h2, x) = IF x = p THEN 1 ELSE Siz(h, x)
  BY <1>1, <1>2, <1>3, <1>4 DEF KidChanged, SizeChanged
<1>6. /\ Kid(h2, Root, 0) = r /\ Kid(h2, Root, 1) = Null
      /\ Kid(h2, p, 0) = Null /\ Kid(h2, p, 1) = Null
      /\ \A x \in Key, e \in 0..1 : x # p => Kid(h2, x, e) = Kid(h, x, e) /\ Kid(h, x, e) # p
  <2>1. \A x \in Key, e \in 0..1 : x # p => Kid(h2, x, e) = Kid(h, x, e)
    BY <1>5, KeysAre
  <2>2. \A x \in Key, e \in 0..1 : Kid(h, x, e) # p
    <3> SUFFICES ASSUME NEW x \in Key, NEW e \in 0..1, Kid(h, x, e) = p PROVE FALSE
      OBVIOUS
    <3>1. up[p] = <<x, e>> /\ up[p] = <<Root, 0>>
      BY <1>1 DEF Structure
    <3> QED
      BY <3>1, KeysAre
  <2>3. Kid(h2, Root, 1) = Kid(h, Root, 1) /\ Kid(h2, p, 0) = Kid(h, p, 0)
    BY <1>1, <1>5
  <2> QED
    BY <1>1, <1>5, <2>1, <2>2, <2>3 DEF Structure
<1>7. /\ up2 \in [Key -> Place] /\ sub2 \in [Child -> SUBSET Key] /\ sub2[Null] = {}
      /\ sub2[p] = {p} /\ \A y \in Child : y # p => sub2[y] = sub[y]
  <2>1. up \in [Key -> Place] /\ sub \in [Child -> SUBSET Key] /\ sub[Null] = {} /\ <<Root, 0>> \in Place
    BY DEF Structure, Place
  <2> QED
    BY <1>1, <2>1 DEF Child
<1>8. ASSUME NEW x \in Key \cup {Root}, NEW d \in 0..1, Kid(h2, x, d) # Null
      PROVE  up2[Kid(h2, x, d)] = <<x, d>>
  <2>1. Kid(h2, x, d) \in Key
    BY <1>5, <1>8 DEF Heads, Kid, Child
  <2>2. CASE x = Root
    <3>1. d = 0 /\ Kid(h2, x, d) = r
      BY <1>6, <1>8, <2>2
    <3> QED
      BY <2>1, <2>2, <3>1
  <2>3. CASE x # Root
    <3>1. x \in Key /\ x # p /\ Kid(h2, x, d) = Kid(h, x, d)
      BY <1>6, <1>8, <2>3
    <3>2. up[Kid(h, x, d)] = <<x, d>>
      BY <1>8, <3>1 DEF Structure
    <3>3. Kid(h, x, d) # r
      <4>1. r # Null => up[r] = <<p, 1>>
        BY DEF Structure
      <4> QED
        BY <1>8, <3>1, <3>2, <4>1
    <3> QED
      BY <2>1, <3>1, <3>2, <3>3
  <2> QED
    BY <2>2, <2>3
<1> HIDE DEF up2, sub2
<1>9. ASSUME NEW x \in Key
      PROVE  /\ sub2[x] = {x} \cup sub2[Kid(h2, x, 0)] \cup sub2[Kid(h2, x, 1)]
             /\ \A d \in 0..1 : \A y \in sub2[Kid(h2, x, d)] : Beyond(x, y, d)
             /\ Siz(h2, x) = Cardinality(sub2[x])
  <2>1. CASE x = p
    <3>1. Kid(h2, x, 0) = Null /\ Kid(h2, x, 1) = Null /\ \A d \in 0..1 : d = 0 \/ d = 1
      BY <1>6, <2>1
    <3>2. Cardinality({p}) = 1
      BY FS_Singleton
    <3> QED
      BY <1>5, <1>7, <2>1, <3>1, <3>2
  <2>2. CASE x # p
    <3>1. /\ sub2[x] = sub[x]
          /\ \A d \in 0..1 : sub2[Kid(h2, x, d)] = sub[Kid(h, x, d)]
      BY <1>6, <1>7, <2>2, KidsAre DEF Child
    <3>2. /\ sub[x] = {x} \cup sub[Kid(h, x, 0)] \cup sub[Kid(h, x, 1)]
          /\ \A d \in 0..1 : \A y \in sub[Kid(h, x, d)] : Beyond(x, y, d)
          /\ Siz(h, x) = Cardinality(sub[x])
      BY DEF Structure
    <3> QED
      BY <1>5, <2>2, <3>1, <3>2
  <2> QED
    BY <2>1, <2>2
<1>10. sub2[r] = sub[r] /\ sub2[r] = sub[p] \ {p}
  BY <1>1, <1>7
<1>11. ASSUME NEW x \in Key, x \notin sub2[Kid(h2, Root, 0)]
       PROVE  Kid(h2, x, 0) = Null /\ Kid(h2, x, 1) = Null
  <2>1. CASE x = p
    BY <1>6, <2>1
  <2>2. CASE x # p
    <3>1. x \notin sub[Kid(h, Root, 0)]
      BY <1>6, <1>10, <1>11, <2>2
    <3>2. Kid(h, x, 0) = Null /\ Kid(h, x, 1) = Null
      BY <3>1 DEF Structure
    <3> QED
      BY <1>6, <2>2, <3>2
  <2> QED
    BY <2>1, <2>2
<1>12. Structure(h2, up2, sub2)
  BY <1>5, <1>6, <1>7, <1>8, <1>9, <1>11 DEF Structure
<1>13. \A x \in sub2[r] : sub2[x] = sub[x] /\ \A e \in 0..1 : Kid(h2, x, e) = Kid(h, x, e)
  BY <1>1, <1>6, <1>7, <1>10 DEF Child
<1> QED
  BY <1>6, <1>10, <1>12, <1>13

\* The root is rotated to the right: its left child takes its place.
LEMMA RootTurned ==
  ASSUME NEW h, NEW up, NEW sub, Structure(h, up, sub), NEW p \in Key,
         Kid(h, Root, 0) = p, NEW q, q = Kid(h, p, 0), q # Null
  PROVE  \E h2, up2, sub2 :
           /\ Structure(h2, up2, sub2) /\ Kid(h2, Root, 0) = q /\ sub2[q] = sub[p]
           /\ sub2[p] = {p} \cup sub[Kid(h, p, 1)] \cup sub[Kid(h, q, 1)]
           /\ \A x \in Key : x # p /\ x # q => sub2[x] = sub[x]
           /\ \A x \in Key, e \in 0..1 :
                Kid(h2, x, e) = IF x = q /\ e = 1 THEN p
                                ELSE IF x = p /\ e = 0 THEN Kid(h, q, 1)
                                ELSE Kid(h, x, e)
<1> DEFINE at == [x |-> Root, d |-> 0]
           h2 == RotatedOnce(h, p, 1, q, 0, 0, at)
           up2 == TurnedUp(h, up, Root, 0, p, 1)
           sub2 == TurnedSub(h, sub, p, 1)
<1>1. /\ at \in Steps /\ at.x = Root /\ at.d = 0 /\ 1 - 1 = 0 /\ q \in Key /\ p # q
      /\ p # Root /\ q # Root /\ Root \in Key \cup {Root}
  <2>1. q \in Child /\ q \in Key
    BY KidsAre DEF Child
  <2>2. p # q
    BY <2>1, KidsAre
  <2> QED
    BY <2>1, <2>2, KeysAre DEF Steps
<1> HIDE DEF at
<1>2. Turned(h, h2, Root, 0, p, 1)
  <2>1. Turned(h, h2, at.x, at.d, p, 1)
    BY <1>1, Rotate1Turns
  <2> QED
    BY <1>1, <2>1
<1> HIDE DEF h2
<1>3. Structure(h2, up2, sub2)
  BY <1>1, <1>2, TurnKeepsStructure
<1>4. /\ Kid(h2, Root, 0) = q
      /\ \A x \in Key, e \in 0..1 :
           Kid(h2, x, e) = IF x = q /\ e = 1 THEN p
                           ELSE IF x = p /\ e = 0 THEN Kid(h, q, 1)
                           ELSE Kid(h, x, e)
  BY <1>1, <1>2, KeysAre DEF Turned
<1>5. /\ sub2[q] = sub[p] /\ sub2[p] = {p} \cup sub[Kid(h, p, 1)] \cup sub[Kid(h, q, 1)]
      /\ \A x \in Key : x # p /\ x # q => sub2[x] = sub[x]
  BY <1>1 DEF TurnedSub, Child
<1> QED
  BY <1>3, <1>4, <1>5


\* the nodes from the root to the right: all that is greater is below
RightEdge(sub, S) == {x \in S : \A y \in S : x < y => y \in sub[x]}

\* Of the nodes N some are freed; the others are those of a tree with root p.
\* Every turn so far has freed a node or brought one to the right edge.
FreesOn(N, g, p, freed, n) ==
  \E h, up, sub :
    /\ Structure(h, up, sub) /\ Kid(h, Root, 0) = p
    /\ \A x \in sub[p], e \in 0..1 : Kid(g, x, e) = Kid(h, x, e)
    /\ ToSet(freed) \cup sub[p] = N
    /\ Len(freed) + Cardinality(sub[p]) = Cardinality(N)
    /\ p # Null => n + Cardinality(sub[p]) + Cardinality(sub[p])
                     <= 2 * Cardinality(Key) + Cardinality(RightEdge(sub, sub[p]))

LEMMA AppendedIs ==
  ASSUME NEW s \in Seq(Key), NEW x \in Key
  PROVE  /\ Append(s, x) \in Seq(Key) /\ Len(s) \in Nat /\ Len(Append(s, x)) = Len(s) + 1
         /\ ToSet(Append(s, x)) = ToSet(s) \cup {x}
<1> DEFINE t == Append(s, x)
<1>1. /\ t \in Seq(Key) /\ Len(s) \in Nat /\ Len(t) = Len(s) + 1 /\ t[Len(s) + 1] = x
      /\ \A n \in 1..Len(s) : t[n] = s[n]
  OBVIOUS
<1>2. DOMAIN t = 1..(Len(s) + 1) /\ DOMAIN s = 1..Len(s)
  BY <1>1
<1> HIDE DEF t
<1>3. \A n : n \in 1..(Len(s) + 1) <=> (n \in 1..Len(s) \/ n = Len(s) + 1)
  BY <1>1
<1>4. ToSet(t) = ToSet(s) \cup {x}
  BY <1>1, <1>2, <1>3 DEF ToSet
<1> QED
  BY <1>1, <1>4 DEF t

\* A turn brings a node to the right edge, or takes one of all away.
LEMMA TurnsCount ==
  /\ \A n, c, k, d, e \in Nat : n + c + c <= k + d /\ d + 1 <= e => (n + 1) + c + c <= k + e
  /\ \A n, c, k, d, e \in Nat : n + c + c <= k + d /\ d <= e + 1 =>
       (n + 1) + (c - 1) + (c - 1) <= k + e
OBVIOUS

\* A node that no other is to the left of is freed.
LEMMA TurnFrees ==
  ASSUME NEW N \in SUBSET Key, NEW g \in Heads, NEW p \in Key, NEW freed \in Seq(Key),
         NEW n \in Nat, FreesOn(N, g, p, freed, n), Kid(g, p, 0) = Null
  PROVE  FreesOn(N, g, Kid(g, p, 1), Append(freed, p), n + 1)
<1>0. n \in Nat
  OBVIOUS
<1>1. PICK h, up, sub :
        /\ Structure(h, up, sub) /\ Kid(h, Root, 0) = p
        /\ \A x \in sub[p], e \in 0..1 : Kid(g, x, e) = Kid(h, x, e)
        /\ ToSet(freed) \cup sub[p] = N
        /\ Len(freed) + Cardinality(sub[p]) = Cardinality(N)
        /\ p # Null => n + Cardinality(sub[p]) + Cardinality(sub[p])
                         <= 2 * Cardinality(Key) + Cardinality(RightEdge(sub, sub[p]))
  BY DEF FreesOn
<1>2. PICK r : r = Kid(h, p, 1) /\ r = Kid(g, p, 1) /\ Kid(h, p, 0) = Null
  BY <1>1, KidsAre
<1>3. PICK h2, up2, sub2 :
        /\ Structure(h2, up2, sub2) /\ Kid(h2, Root, 0) = r
        /\ sub2[r] = sub[p] \ {p}
        /\ \A x \in sub2[r] :
             sub2[x] = sub[x] /\ \A e \in 0..1 : Kid(h2, x, e) = Kid(h, x, e)
  <2>1. /\ Structure(h, up, sub) /\ p \in Key
        /\ Kid(h, Root, 0) = p /\ Kid(h, p, 0) = Null /\ r = Kid(h, p, 1)
    BY <1>1, <1>2
  <2> QED
    BY ONLY <2>1, RootTaken
<1>4. PICK S, T : S = sub[p] /\ T = sub2[r] /\ T = S \ {p} /\ p \in S /\ S \in SUBSET Key
  BY <1>1, <1>3, KidsAre
<1>5. PICK D, E : D = RightEdge(sub, S) /\ E = RightEdge(sub2, T)
  OBVIOUS
<1>6. D \subseteq E \cup {p} /\ E \in SUBSET Key
  BY <1>3, <1>4, <1>5 DEF RightEdge
<1>7. /\ Cardinality(S) \in Nat /\ Cardinality(T) = Cardinality(S) - 1
      /\ Cardinality(E) \in Nat /\ Cardinality(D) \in Nat /\ Cardinality(D) <= Cardinality(E) + 1
  <2>1. Cardinality(S) \in Nat /\ Cardinality(T) = Cardinality(S) - 1
    <3>1. IsFiniteSet(S) /\ Cardinality(S) \in Nat
      BY <1>4, KeysAre
    <3>2. Cardinality(S \ {p}) = Cardinality(S) - 1
      BY <1>4, <3>1, FS_RemoveElement
    <3> QED
      BY <1>4, <3>1, <3>2
  <2>2. IsFiniteSet(E) /\ Cardinality(E) \in Nat
    BY <1>6, KeysAre
  <2>3. IsFiniteSet(E \cup {p}) /\ Cardinality(E \cup {p}) \in Nat
        /\ Cardinality(E \cup {p}) <= Cardinality(E) + 1
    <3>1. CASE p \in E
      <4>1. E \cup {p} = E
        BY <3>1
      <4>2. Cardinality(E) <= Cardinality(E) + 1
        BY <2>2
      <4> QED
        BY <2>2, <4>1, <4>2, Zenon
    <3>2. CASE p \notin E
      <4>1. IsFiniteSet(E \cup {p}) /\ Cardinality(E \cup {p}) = Cardinality(E) + 1
        BY <2>2, <3>2, FS_AddElement
      <4> QED
        BY ONLY <2>2, <4>1
    <3> QED
      BY <3>1, <3>2
  <2>4. Cardinality(D) <= Cardinality(E \cup {p}) /\ Cardinality(D) \in Nat
    BY <1>6, <2>3, FS_Subset, FS_CardinalityType
  <2> QED
    BY ONLY <2>1, <2>2, <2>3, <2>4
<1>8. \A x \in T, e \in 0..1 : Kid(g, x, e) = Kid(h2, x, e)
  BY <1>1, <1>3, <1>4
<1>9. ToSet(Append(freed, p)) \cup T = N
  BY <1>1, <1>4, AppendedIs
<1>10. /\ Len(Append(freed, p)) + Cardinality(T) = Cardinality(N)
       /\ (n + 1) + Cardinality(T) + Cardinality(T) <= 2 * Cardinality(Key) + Cardinality(E)
  <2>1. PICK c \in Nat, k \in Nat, l \in Nat, d \in Nat, e \in Nat :
          /\ c = Cardinality(S) /\ k = 2 * Cardinality(Key) /\ l = Len(freed)
          /\ d = Cardinality(D) /\ e = Cardinality(E) /\ d <= e + 1
    BY <1>7, KeysAre
  <2>2. l + c = Cardinality(N) /\ n + c + c <= k + d /\ Cardinality(T) = c - 1
    BY <1>1, <1>4, <1>5, <1>7, <2>1, KeysAre
  <2>3. Len(Append(freed, p)) = l + 1
    BY <2>1, AppendedIs
  <2>4. (n + 1) + (c - 1) + (c - 1) <= k + e
    BY <1>0, <2>1, <2>2, TurnsCount
  <2>5. (l + 1) + (c - 1) = l + c
    BY ONLY <2>1
  <2> QED
    BY <2>1, <2>2, <2>3, <2>4, <2>5
<1>11. FreesOn(N, g, r, Append(freed, p), n + 1)
  <2>1. /\ ToSet(Append(freed, p)) \cup sub2[r] = N
        /\ Len(Append(freed, p)) + Cardinality(sub2[r]) = Cardinality(N)
        /\ (n + 1) + Cardinality(sub2[r]) + Cardinality(sub2[r])
             <= 2 * Cardinality(Key) + Cardinality(RightEdge(sub2, sub2[r]))
        /\ \A x \in sub2[r], e \in 0..1 : Kid(g, x, e) = Kid(h2, x, e)
    BY <1>4, <1>5, <1>8, <1>9, <1>10
  <2> QED
    BY <1>3, <2>1 DEF FreesOn
<1> QED
  BY <1>2, <1>11

\* A node with one to the left becomes its right child.
LEMMA TurnUnrolls ==
  ASSUME NEW N \in SUBSET Key, NEW g \in Heads, NEW p \in Key, NEW freed \in Seq(Key),
         NEW n \in Nat, FreesOn(N, g, p, freed, n), Kid(g, p, 0) # Null
  PROVE  FreesOn(N, Unroll(g, p), Kid(g, p, 0), freed, n + 1)
<1>0. n \in Nat
  OBVIOUS
<1>1. PICK h, up, sub :
        /\ Structure(h, up, sub) /\ Kid(h, Root, 0) = p
        /\ \A x \in sub[p], e \in 0..1 : Kid(g, x, e) = Kid(h, x, e)
        /\ ToSet(freed) \cup sub[p] = N
        /\ Len(freed) + Cardinality(sub[p]) = Cardinality(N)
        /\ p # Null => n + Cardinality(sub[p]) + Cardinality(sub[p])
                         <= 2 * Cardinality(Key) + Cardinality(RightEdge(sub, sub[p]))
  BY DEF FreesOn
<1>2. PICK q \in Key : /\ q = Kid(g, p, 0) /\ q = Kid(h, p, 0) /\ q # Null /\ q # p
                       /\ q \in sub[q] /\ sub[q] \subseteq sub[p] /\ q \in sub[p]
                       /\ p \in sub[p] /\ sub[p] \in SUBSET Key
  <2>1. p \in sub[p] /\ sub[p] \in SUBSET Key
    BY <1>1, KidsAre
  <2>2. Kid(g, p, 0) = Kid(h, p, 0) /\ Kid(h, p, 0) \in Key
    BY <1>1, <2>1, KidsAre DEF Child
  <2>3. Kid(h, p, 0) \in sub[Kid(h, p, 0)] /\ sub[Kid(h, p, 0)] \subseteq sub[p] /\ p \notin sub[Kid(h, p, 0)]
    BY <1>1, <2>2, KidsAre
  <2> QED
    BY <2>1, <2>2, <2>3
<1>3. PICK h2, up2, sub2 :
        /\ Structure(h2, up2, sub2) /\ Kid(h2, Root, 0) = q /\ sub2[q] = sub[p]
        /\ sub2[p] = {p} \cup sub[Kid(h, p, 1)] \cup sub[Kid(h, q, 1)]
        /\ \A x \in Key : x # p /\ x # q => sub2[x] = sub[x]
        /\ \A x \in Key, e \in 0..1 :
             Kid(h2, x, e) = IF x = q /\ e = 1 THEN p
                             ELSE IF x = p /\ e = 0 THEN Kid(h, q, 1)
                             ELSE Kid(h, x, e)
  <2>1. /\ Structure(h, up, sub) /\ p \in Key
        /\ Kid(h, Root, 0) = p /\ q = Kid(h, p, 0) /\ q # Null
    BY <1>1, <1>2
  <2> QED
    BY ONLY <2>1, RootTurned
<1>4. ASSUME NEW x \in sub2[q], NEW e \in 0..1 PROVE Kid(Unroll(g, p), x, e) = Kid(h2, x, e)
  <2>1. x \in Key /\ Kid(g, x, e) = Kid(h, x, e) /\ Kid(g, q, 1) = Kid(h, q, 1)
    BY <1>1, <1>2, <1>3
  <2>2. Kid(Unroll(g, p), x, e) = IF x = q /\ e = 1 THEN p
                                  ELSE IF x = p /\ e = 0 THEN Kid(g, q, 1)
                                  ELSE Kid(g, x, e)
    BY <1>2, <2>1, UnrollIs
  <2> QED
    BY <1>3, <2>1, <2>2
<1>5. PICK S, D, E : S = sub[p] /\ D = RightEdge(sub, S) /\ E = RightEdge(sub2, S)
  OBVIOUS
<1>6. D \cup {q} \subseteq E /\ E \in SUBSET Key /\ q \notin D
  <2>1. q \notin D
    <3>1. q < p /\ \A y \in sub[q] : y < p
      BY <1>1, <1>2 DEF Structure, Beyond
    <3>2. p \notin sub[q]
      BY <1>1, <1>2, KidsAre
    <3> QED
      BY <1>2, <1>5, <3>1, <3>2 DEF RightEdge
  <2>2. q \in E
    BY <1>2, <1>3, <1>5 DEF RightEdge
  <2>3. p \in E
    <3>1. ASSUME NEW y \in S, p < y PROVE y \in sub[Kid(h, p, 1)]
      <4>1. y \in sub[Kid(h, p, 0)] => y < p
        BY <1>1 DEF Structure, Beyond
      <4>2. S = {p} \cup sub[Kid(h, p, 0)] \cup sub[Kid(h, p, 1)]
        BY <1>1, <1>5 DEF Structure
      <4>3. y \in Int /\ p \in Int
        BY <1>2, <1>5, <3>1, KeysAre
      <4> QED
        BY <3>1, <4>1, <4>2, <4>3
    <3> QED
      BY <1>2, <1>3, <1>5, <3>1 DEF RightEdge
  <2>4. \A x \in D : x # p /\ x # q => x \in E
    BY <1>2, <1>3, <1>5 DEF RightEdge
  <2> QED
    BY <1>2, <1>5, <2>1, <2>2, <2>3, <2>4 DEF RightEdge
<1>7. /\ Cardinality(E) \in Nat /\ Cardinality(D) \in Nat /\ Cardinality(D) + 1 <= Cardinality(E)
  <2>1. IsFiniteSet(E) /\ Cardinality(E) \in Nat /\ IsFiniteSet(D) /\ Cardinality(D) \in Nat
    BY <1>6, KeysAre
  <2>2. Cardinality(D \cup {q}) = Cardinality(D) + 1
    BY <1>6, <2>1, FS_AddElement
  <2>3. Cardinality(D \cup {q}) <= Cardinality(E)
    BY <1>6, <2>1, FS_Subset
  <2> QED
    BY ONLY <2>1, <2>2, <2>3
<1>8. (n + 1) + Cardinality(S) + Cardinality(S) <= 2 * Cardinality(Key) + Cardinality(E)
  <2>1. PICK c \in Nat, k \in Nat, d \in Nat, e \in Nat :
          /\ c = Cardinality(S) /\ k = 2 * Cardinality(Key)
          /\ d = Cardinality(D) /\ e = Cardinality(E) /\ d + 1 <= e
    BY <1>2, <1>5, <1>7, KeysAre
  <2>2. n + c + c <= k + d
    BY <1>1, <1>5, <2>1, KeysAre
  <2>3. (n + 1) + c + c <= k + e
    BY <1>0, <2>1, <2>2, TurnsCount
  <2> QED
    BY <2>1, <2>3
<1>9. FreesOn(N, Unroll(g, p), q, freed, n + 1)
  BY <1>1, <1>3, <1>4, <1>5, <1>8 DEF FreesOn
<1> QED
  BY <1>2, <1>9


\* one turn of kavl_free
FreeOne(w) ==
  IF w.p = Null THEN w
  ELSE IF w.g[w.p].p[0] = Null
    THEN [w EXCEPT !.p = w.g[w.p].p[1], !.freed = Append(@, w.p)]
    ELSE [w EXCEPT !.g = Unroll(w.g, w.p), !.p = w.g[w.p].p[0]]

FreeState == [g : Heads, p : Child, freed : Seq(Key)]

LEMMA FreeOneIs ==
  ASSUME NEW w \in FreeState, NEW N \in SUBSET Key, NEW n \in Nat
  PROVE  /\ FreeOne(w) \in FreeState
         /\ FreesOn(N, w.g, w.p, w.freed, n) =>
              FreesOn(N, FreeOne(w).g, FreeOne(w).p, FreeOne(w).freed, n + 1)
<1>1. PICK g \in Heads, p \in Child, freed \in Seq(Key) : w.g = g /\ w.p = p /\ w.freed = freed
  BY DEF FreeState
<1>2. CASE p = Null
  <2>1. FreeOne(w) = w
    BY <1>1, <1>2 DEF FreeOne
  <2>2. FreesOn(N, g, p, freed, n) => FreesOn(N, g, p, freed, n + 1)
    BY <1>2 DEF FreesOn
  <2> QED
    BY <1>1, <2>1, <2>2
<1>3. CASE p # Null /\ Kid(g, p, 0) = Null
  <2>1. p \in Key /\ Kid(g, p, 1) \in Child
    BY <1>3 DEF Child, Heads, Kid
  <2>2. FreeOne(w) = [w EXCEPT !.p = Kid(g, p, 1), !.freed = Append(@, p)]
    BY <1>1, <1>3 DEF FreeOne, Kid
  <2>3. Append(freed, p) \in Seq(Key)
    BY <2>1
  <2>4. /\ FreeOne(w) \in FreeState
        /\ FreeOne(w).g = g /\ FreeOne(w).p = Kid(g, p, 1) /\ FreeOne(w).freed = Append(freed, p)
    BY <1>1, <2>1, <2>2, <2>3 DEF FreeState
  <2> QED
    BY <1>1, <1>3, <2>1, <2>4, TurnFrees
<1>4. CASE p # Null /\ Kid(g, p, 0) # Null
  <2>1. p \in Key /\ Kid(g, p, 0) \in Key
    BY <1>4 DEF Child, Heads, Kid
  <2>2. FreeOne(w) = [w EXCEPT !.g = Unroll(g, p), !.p = Kid(g, p, 0)]
    BY <1>1, <1>4 DEF FreeOne, Kid
  <2>3. Unroll(g, p) \in Heads
    BY <2>1, UnrollIs
  <2>4. /\ FreeOne(w) \in FreeState
        /\ FreeOne(w).g = Unroll(g, p) /\ FreeOne(w).p = Kid(g, p, 0) /\ FreeOne(w).freed = freed
    BY <1>1, <2>1, <2>2, <2>3 DEF FreeState, Child
  <2> QED
    BY <1>1, <1>4, <2>1, <2>4, TurnUnrolls
<1> QED
  BY <1>2, <1>3, <1>4

LEMMA FreeIs ==
  ASSUME NEW g, NEW up, NEW sub, Structure(g, up, sub), NEW N, N = sub[Kid(g, Root, 0)]
  PROVE  ToSet(Free(g)) = N /\ Len(Free(g)) = Cardinality(N)
<1> DEFINE first == [g |-> g, p |-> g[Root].p[0], freed |-> <<>>]
           step == [n \in Nat |-> [w \in FreeState |-> FreeOne(w)]]
           body(t) == [n \in Nat |->
                         IF n = 0 THEN first
                         ELSE LET w == t[n - 1]
                              IN  IF w.p = Null THEN w
                                  ELSE IF w.g[w.p].p[0] = Null
                                    THEN [w EXCEPT !.p = w.g[w.p].p[1], !.freed = Append(@, w.p)]
                                    ELSE [w EXCEPT !.g = Unroll(w.g, w.p), !.p = w.g[w.p].p[0]]]
           turn == CHOOSE t : t = body(t)
           max == 2 * Cardinality(Key)
<1>1. Free(g) = turn[max].freed
  BY DEF Free
<1>2. /\ N \in SUBSET Key /\ Cardinality(N) \in Nat /\ Cardinality(N) <= Cardinality(Key)
      /\ Cardinality(Key) \in Nat /\ max \in Nat /\ g \in Heads /\ Kid(g, Root, 0) \in Child
  <2>1. N \in SUBSET Key /\ g \in Heads /\ Kid(g, Root, 0) \in Child
    BY KidsAre DEF Structure
  <2>2. Cardinality(N) \in Nat /\ Cardinality(N) <= Cardinality(Key) /\ Cardinality(Key) \in Nat
    BY <2>1, KeysAre
  <2> QED
    BY <2>1, <2>2
<1>3. first \in FreeState /\ FreesOn(N, first.g, first.p, first.freed, 0)
  <2>1. PICK c \in Child : c = Kid(g, Root, 0) /\ c = g[Root].p[0]
    BY <1>2 DEF Kid
  <2>2. /\ first \in FreeState /\ first.g = g /\ first.p = c /\ first.freed = <<>>
    BY <1>2, <2>1 DEF FreeState
  <2>3. ToSet(<<>>) \cup sub[c] = N /\ Len(<<>>) + Cardinality(sub[c]) = Cardinality(N)
    BY <1>2, <2>1 DEF ToSet
  <2>4. 0 + Cardinality(sub[c]) + Cardinality(sub[c]) <= 2 * Cardinality(Key) + Cardinality(RightEdge(sub, sub[c]))
    <3>1. Cardinality(RightEdge(sub, sub[c])) \in Nat
      <4>1. RightEdge(sub, sub[c]) \in SUBSET Key
        BY <1>2, <2>1 DEF RightEdge
      <4> QED
        BY <4>1, KeysAre
    <3>2. sub[c] = N
      BY <2>1
    <3> HIDE DEF first, max
    <3> QED
      BY <1>2, <3>1, <3>2
  <2>5. FreesOn(N, g, c, <<>>, 0)
    BY <2>1, <2>3, <2>4 DEF FreesOn
  <2> HIDE DEF first
  <2> QED
    BY <2>2, <2>5
<1> HIDE DEF first
<1>4. Loop(FreeState, first, step)
  <2>1. \A w \in FreeState : FreeOne(w) \in FreeState
    BY <1>2, FreeOneIs
  <2>2. step \in [Nat -> [FreeState -> FreeState]]
    BY <2>1
  <2> HIDE DEF step
  <2> QED
    BY <1>3, <2>2 DEF Loop
<1> HIDE DEF step
<1>5. PICK f : History(FreeState, first, step, f)
  BY ONLY <1>4, LoopHasHistory
<1>6. f \in [Nat -> FreeState] /\ f[0] = first /\ \A n \in Nat : f[n + 1] = step[n][f[n]]
  BY ONLY <1>5 DEF History
<1>7. f = body(f)
  <2>1. ASSUME NEW n \in Nat PROVE f[n] = body(f)[n]
    <3>1. CASE n = 0
      BY <1>6, <3>1
    <3>2. CASE n # 0
      <4>1. n - 1 \in Nat /\ (n - 1) + 1 = n
        BY <3>2
      <4>2. f[n] = step[n - 1][f[n - 1]] /\ f[n - 1] \in FreeState
        BY <1>6, <4>1
      <4>3. f[n] = FreeOne(f[n - 1])
        BY <4>1, <4>2 DEF step
      <4> QED
        BY <3>2, <4>3, Zenon DEF FreeOne
    <3> QED
      BY <3>1, <3>2
  <2>2. f = [n \in Nat |-> f[n]]
    BY <1>6
  <2> QED
    BY <2>1, <2>2
<1>8. turn = body(turn)
  <2> HIDE DEF body
  <2> QED
    BY <1>7, Zenon
<1> HIDE DEF turn
<1>9. turn[0] = first
  BY <1>8
<1>10. ASSUME NEW n \in Nat PROVE turn[n + 1] = FreeOne(turn[n])
  <2>1. n + 1 \in Nat /\ n + 1 # 0 /\ (n + 1) - 1 = n
    OBVIOUS
  <2>2. turn[n + 1] = body(turn)[n + 1]
    BY <1>8
  <2> QED
    BY <2>1, <2>2, Zenon DEF FreeOne
<1> HIDE DEF body, max
<1> DEFINE S == {n \in Nat : turn[n] \in FreeState
                             /\ FreesOn(N, turn[n].g, turn[n].p, turn[n].freed, n)}
<1>11. 0 \in S
  BY <1>3, <1>9
<1>12. ASSUME NEW n \in S PROVE n + 1 \in S
  <2>1. PICK w \in FreeState : w = turn[n] /\ FreesOn(N, w.g, w.p, w.freed, n)
    OBVIOUS
  <2>2. /\ FreeOne(w) \in FreeState
        /\ FreesOn(N, FreeOne(w).g, FreeOne(w).p, FreeOne(w).freed, n + 1)
    BY <1>2, <2>1, FreeOneIs
  <2>3. turn[n + 1] = FreeOne(w)
    BY <1>10, <2>1
  <2> QED
    BY <2>2, <2>3
<1>13. S \in SUBSET Nat
  OBVIOUS
<1> HIDE DEF S
<1>14. S = Nat
  BY <1>11, <1>12, <1>13, InductionOnNat
<1>15. max \in S
  BY <1>2, <1>14
<1>16. PICK p \in Child, freed \in Seq(Key) :
         turn[max].freed = freed /\ FreesOn(N, turn[max].g, p, freed, max)
  BY <1>15 DEF S, FreeState
<1>17. PICK h, up2, sub2 :
         /\ Structure(h, up2, sub2) /\ ToSet(freed) \cup sub2[p] = N
         /\ Len(freed) + Cardinality(sub2[p]) = Cardinality(N)
         /\ p # Null => max + Cardinality(sub2[p]) + Cardinality(sub2[p])
                          <= 2 * Cardinality(Key) + Cardinality(RightEdge(sub2, sub2[p]))
  BY <1>16 DEF FreesOn
<1>18. p = Null
  <2> SUFFICES ASSUME p \in Key PROVE FALSE
    BY DEF Child
  <2>1. p \in sub2[p] /\ sub2[p] \in SUBSET Key /\ p # Null
    BY <1>17, KidsAre, KeysAre
  <2>2. PICK c \in Nat, e \in Nat : c = Cardinality(sub2[p]) /\ e = Cardinality(RightEdge(sub2, sub2[p]))
    <3>1. RightEdge(sub2, sub2[p]) \in SUBSET Key
      BY <2>1 DEF RightEdge
    <3> QED
      BY <2>1, <3>1, KeysAre
  <2>3. e <= c /\ c # 0
    <3>1. IsFiniteSet(sub2[p])
      BY <2>1, KeysAre
    <3>2. RightEdge(sub2, sub2[p]) \subseteq sub2[p]
      BY DEF RightEdge
    <3> QED
      BY <2>1, <2>2, <3>1, <3>2, FS_Subset, FS_EmptySet
  <2>4. max + c + c <= max + e
    BY <1>17, <2>1, <2>2 DEF max
  <2> QED
    BY ONLY <1>2, <2>2, <2>3, <2>4
<1>19. sub2[p] = {} /\ Cardinality({}) = 0
  BY <1>17, <1>18, FS_EmptySet DEF Structure
<1>20. Len(freed) \in Nat
  OBVIOUS
<1> QED
  BY <1>1, <1>16, <1>17, <1>19, <1>20

-----------------------------------------------------------------------------
(***************************************************************************)
(* What holds between two calls.                                           *)
(***************************************************************************)
CallIsSound ==
  /\ session \in Session
  /\ op \in {"none", "insert", "erase", "first", "free",
             "itrFirst", "itrFind", "itrNext", "itrPrev"}
  /\ arg \in Child /\ result \in Child /\ cnt \in Nat

\* The tree is an AVL tree, and the iterator's stack leads down from its root.
IInv == CallIsSound /\ \E N : IsTree(head, N) /\ Chain(head, N, itr)

\* IterationInOrder's action
InOrder ==
  /\ op' = "itrFirst" => ItrAt(itr') = Least(Nodes)
  /\ op' = "itrNext" => ItrAt(itr') = Least({x \in Nodes : x > ItrAt(itr)})
  /\ op' = "itrPrev" => ItrAt(itr') = Greatest({x \in Nodes : x < ItrAt(itr)})

LEMMA NodesNext == Nodes' = NodesIn(head')
<1>1. Below' = BelowIn(head')
  BY Zenon DEF Below, BelowIn
<1> QED
  BY <1>1 DEF Nodes, NodesIn, root

LEMMA SoundIs == IInv => IsAVLTree /\ LookupsAreRight
<1> SUFFICES ASSUME IInv PROVE IsAVLTree /\ LookupsAreRight
  OBVIOUS
<1>1. PICK N : IsTree(head, N) /\ Chain(head, N, itr)
  BY DEF IInv
<1>2. PICK up, sub, ht :
        /\ Structure(head, up, sub) /\ N = sub[Kid(head, Root, 0)]
        /\ Balanced(head, ht, {}) /\ Bal(head, Root) = 0 /\ Siz(head, Root) = 1
  BY <1>1 DEF IsTree
<1>3. /\ Nodes = N /\ N \in SUBSET Key
      /\ \A x \in Child : Below[x] = sub[x] /\ Height[x] = ht[x]
  BY <1>1, <1>2, NodesAre, PropsAre, BelowIs, HeightIs, TreeIs
<1>4. \A x \in Key : /\ Siz(head, x) = Cardinality(sub[x]) /\ Cardinality(sub[x]) \in Nat
                     /\ Bal(head, x) = ht[Kid(head, x, 1)] - ht[Kid(head, x, 0)]
                     /\ Bal(head, x) \in -1..1
                     /\ Kid(head, x, 0) \in Child /\ Kid(head, x, 1) \in Child
  <2>1. \A x \in Key : Siz(head, x) = Cardinality(sub[x]) /\ Cardinality(sub[x]) \in Nat
    BY <1>2, KidsAre, KeysAre DEF Structure
  <2>2. \A x \in Key : Kid(head, x, 0) \in Child /\ Kid(head, x, 1) \in Child
    BY <1>2, KidsAre
  <2> QED
    BY <1>2, <2>1, <2>2 DEF Balanced, BalancedAt
<1>5. head \in [Key \cup {Root} -> [p : [0..1 -> Key \cup {Null}], balance : -1..1, size : Nat]]
  <2>1. \A x \in Key \cup {Root} : head[x].balance \in -1..1 /\ head[x].size \in Nat
    BY <1>2, <1>4 DEF Bal, Siz
  <2> QED
    BY <1>2, <2>1 DEF Structure, Heads, Child
<1>6. \A n \in DOMAIN itr :
        /\ itr[n] \in Nodes
        /\ n > 1 => \E d \in 0..1 : head[itr[n - 1]].p[d] = itr[n]
  <2>1. itr \in Seq(Key) /\ DOMAIN itr = 1..Len(itr) /\ Len(itr) \in Nat
    BY <1>1 DEF Chain
  <2> SUFFICES ASSUME NEW n \in 1..Len(itr)
               PROVE  /\ itr[n] \in N
                      /\ n > 1 => \E d \in 0..1 : head[itr[n - 1]].p[d] = itr[n]
    BY <1>3, <2>1
  <2>2. n > 1 => n \in 2..Len(itr)
    BY <2>1
  <2> QED
    BY <1>1, <2>2 DEF Chain, Kid
<1>7. TypeOK
  BY <1>5, <1>6 DEF TypeOK, IInv, CallIsSound, Child
<1>8. BalanceIsHeight
  <2> SUFFICES ASSUME NEW x \in N
               PROVE  head[x].balance = Height[head[x].p[1]] - Height[head[x].p[0]]
    BY <1>3 DEF BalanceIsHeight
  <2>1. x \in Key
    BY <1>3
  <2> QED
    BY <1>3, <1>4, <2>1 DEF Bal, Kid
<1>9. SizesAreRight
  <2> SUFFICES ASSUME NEW x \in N PROVE head[x].size = Cardinality(Below[x])
    BY <1>3 DEF SizesAreRight
  <2>1. x \in Key /\ x \in Child
    BY <1>3 DEF Child
  <2> QED
    BY <1>3, <1>4, <2>1 DEF Siz
<1>10. ASSUME NEW k \in Key
       PROVE  /\ Find(head, k) = (IF k \in N THEN k ELSE Null)
              /\ Rank(head, k) = Cardinality({x \in N : x <= k})
              /\ Interval(head, k) = <<Greatest({x \in N : x <= k}), Least({x \in N : x >= k})>>
  <2>1. Find(head, k) = (IF k \in N THEN k ELSE Null) /\ Rank(head, k) = Cardinality({x \in N : x <= k})
    BY <1>2, SearchIs
  <2>2. Interval(head, k) = <<Greatest({x \in N : x <= k}), Least({x \in N : x >= k})>>
    BY <1>1, IntervalIs
  <2> QED
    BY <2>1, <2>2
<1>11. LookupsAreRight
  BY <1>3, <1>10 DEF LookupsAreRight
<1> QED
  BY <1>7, <1>8, <1>9, <1>11 DEF IsAVLTree

-----------------------------------------------------------------------------
(***************************************************************************)
(* The calls.                                                              *)
(***************************************************************************)
\* After a call that returns, and leaves a tree, the iterator is nowhere.
LEMMA ReturnIsSound ==
  ASSUME IInv, NEW M, IsTree(head', M), NEW o, NEW k \in Child, NEW x \in Child, NEW n \in Nat,
         o \in {"insert", "erase", "first", "free"}, Return(o, k, x, n)
  PROVE  IInv' /\ InOrder /\ Nodes' = M
<1>1. itr' = <<>> /\ op' = o /\ arg' = k /\ result' = x /\ cnt' = n /\ session' = session
  BY DEF Return
<1>2. Chain(head', M, itr')
  BY <1>1 DEF Chain
<1>3. CallIsSound'
  BY <1>1 DEF IInv, CallIsSound
<1>4. (\E N : IsTree(head, N) /\ Chain(head, N, itr))'
  BY <1>2
<1>5. Nodes' = M
  BY NodesNext, NodesAre
<1> QED
  BY <1>1, <1>3, <1>4, <1>5 DEF IInv, InOrder

\* What is known of a tree and a key.
LEMMA TreeAt ==
  ASSUME NEW N, IsTree(head, N)
  PROVE  /\ Nodes = N /\ N \in SUBSET Key
         /\ \A k \in Key : /\ Find(head, k) = (IF k \in N THEN k ELSE Null)
                           /\ Rank(head, k) = R!Rank(k) /\ Rank(head, k) \in Nat
                           /\ R!Rank(k) = Cardinality({x \in N : x <= k})
<1>1. PICK up, sub : Structure(head, up, sub) /\ N = sub[Kid(head, Root, 0)]
  BY DEF IsTree
<1>2. Nodes = N /\ N \in SUBSET Key
  BY <1>1, NodesAre, PropsAre, TreeIs
<1>3. ASSUME NEW k \in Key
      PROVE  /\ Find(head, k) = (IF k \in N THEN k ELSE Null)
             /\ Rank(head, k) = Cardinality({x \in N : x <= k})
             /\ Cardinality({x \in N : x <= k}) \in Nat
  <2>1. {x \in N : x <= k} \in SUBSET Key
    BY <1>2
  <2> QED
    BY <1>1, <2>1, SearchIs, KeysAre
<1>4. ASSUME NEW k \in Key PROVE R!Rank(k) = Cardinality({x \in N : x <= k})
  <2>1. {x \in Nodes : x <= k} = {x \in N : x <= k}
    BY <1>2
  <2> QED
    BY <2>1, Zenon DEF R!Rank, R!Cardinality, Cardinality
<1> QED
  BY <1>2, <1>3, <1>4

LEMMA InsertStep ==
  ASSUME IInv, NEW k \in Key, Insert(k)
  PROVE  IInv' /\ InOrder /\ R!Insert(k)
<1>1. PICK N : IsTree(head, N)
  BY DEF IInv
<1>2. head' = Put(head, k) /\ Return("insert", k, k, Rank(head, k))
  BY DEF Insert
<1>3. IsTree(head', N \cup {k})
  BY <1>1, <1>2, PutKeepsTree
<1>4. PICK n \in Nat : n = Rank(head, k) /\ n = R!Rank(k)
  BY <1>1, TreeAt
<1>5. IInv' /\ InOrder /\ Nodes' = N \cup {k}
  <2>1. k \in Child /\ Return("insert", k, k, n)
    BY <1>2, <1>4 DEF Child
  <2> QED
    BY <1>3, <2>1, ReturnIsSound
<1>6. Nodes' = Nodes \cup {k}
  BY <1>1, <1>5, TreeAt
<1>7. Reply' = [op |-> "insert", key |-> k, element |-> k, rank |-> n]
  BY <1>2, <1>4 DEF Return, Reply
<1> QED
  BY <1>4, <1>5, <1>6, <1>7 DEF R!Insert

LEMMA EraseStep ==
  ASSUME IInv, NEW k \in Key, Erase(k)
  PROVE  IInv' /\ InOrder /\ (R!Erase(k) \/ R!EraseNothing(k))
<1>1. PICK N : IsTree(head, N)
  BY DEF IInv
<1>2. /\ Nodes = N /\ k # Null /\ k \in Child /\ Null \in Child
      /\ Find(head, k) = (IF k \in N THEN k ELSE Null)
  BY <1>1, TreeAt, KeysAre DEF Child
<1>3. PICK n \in Nat : n = Rank(head, k) /\ n = R!Rank(k)
  BY <1>1, TreeAt
<1>4. CASE k \in N
  <2>1. head' = EraseAt(head, k) /\ Return("erase", k, k, n)
    BY <1>2, <1>3, <1>4 DEF Erase
  <2>2. IsTree(head', N \ {k})
    BY <1>1, <1>4, <2>1, EraseKeepsTree
  <2>3. IInv' /\ InOrder /\ Nodes' = N \ {k}
    BY <1>2, <2>1, <2>2, ReturnIsSound
  <2>4. Reply' = [op |-> "erase", key |-> k, element |-> k, rank |-> n]
    BY <2>1 DEF Return, Reply
  <2> QED
    BY <1>2, <1>3, <1>4, <2>3, <2>4 DEF R!Erase
<1>5. CASE k \notin N
  <2>1. head' = head /\ Return("erase", k, Null, 0)
    BY <1>2, <1>5 DEF Erase
  <2>2. IsTree(head', N)
    BY <1>1, <2>1
  <2>3. IInv' /\ InOrder /\ Nodes' = N
    BY <1>2, <2>1, <2>2, ReturnIsSound
  <2>4. Reply' = [op |-> "erase", key |-> k, element |-> Null, rank |-> 0]
    BY <2>1 DEF Return, Reply
  <2> QED
    BY <1>2, <1>5, <2>3, <2>4 DEF R!EraseNothing
<1> QED
  BY <1>4, <1>5

\* The way down from the root in direction 0 leads to the least node.
LEMMA FirstIs ==
  ASSUME NEW N, IsTree(head, N), NEW s, s = Outermost(head, <<>>, root, 0)
  PROVE  /\ Chain(head, N, s) /\ (root = Null <=> N = {}) /\ (s = <<>> <=> N = {})
         /\ s # <<>> => Last(s) \in N /\ \A y \in N : Last(s) <= y
<1>1. PICK up, sub : Structure(head, up, sub) /\ N = sub[Kid(head, Root, 0)]
  BY DEF IsTree
<1>2. PICK c \in Child : c = root /\ c = Kid(head, Root, 0) /\ N = sub[c]
  BY <1>1, KidsAre DEF root, Kid
<1>3. Chain(head, N, <<>>) /\ GoesOn(head, <<>>, c)
  BY <1>2 DEF Chain, GoesOn
<1>4. /\ Chain(head, N, s) /\ (c = Null => s = <<>>) /\ (c # Null => EndsAt(sub, s, c, 0))
  BY <1>1, <1>2, <1>3, OutermostIs
<1>5. sub[Null] = {} /\ (c # Null => c \in sub[c]) /\ N \in SUBSET Key
  <2>1. sub[Null] = {}
    BY <1>1 DEF Structure
  <2>2. c # Null => c \in sub[c]
    BY <1>1, KidsAre DEF Child
  <2>3. N \in SUBSET Key
    BY <1>1, TreeIs
  <2> QED
    BY <2>1, <2>2, <2>3
<1>6. ASSUME s # <<>> PROVE Last(s) \in N /\ \A y \in N : Last(s) <= y
  <2>1. c # Null /\ EndsAt(sub, s, c, 0)
    BY <1>4, <1>6
  <2>2. Last(s) \in N /\ \A y \in N : y = Last(s) \/ Last(s) < y
    BY <1>2, <2>1 DEF EndsAt, Beyond
  <2>3. \A y \in N : y \in Int
    BY <1>5, KeysAre
  <2> QED
    BY <2>2, <2>3
<1> QED
  BY <1>2, <1>4, <1>5, <1>6 DEF EndsAt

LEMMA EraseFirstStep ==
  ASSUME IInv, EraseFirst
  PROVE  IInv' /\ InOrder /\ R!EraseFirst
<1>1. PICK N : IsTree(head, N)
  BY DEF IInv
<1>2. Nodes = N /\ N \in SUBSET Key
  BY <1>1, TreeAt
<1>3. PICK s, k : s = Outermost(head, <<>>, root, 0) /\ k = Last(s)
  OBVIOUS
<1>4. root # Null /\ head' = EraseAt(head, k) /\ Return("first", k, k, 1)
  BY <1>3 DEF EraseFirst
<1>5. k \in N /\ k \in Key /\ k \in Child /\ \A y \in N : k <= y
  BY <1>1, <1>2, <1>3, <1>4, FirstIs DEF Child
<1>6. IsTree(head', N \ {k})
  BY <1>1, <1>4, <1>5, EraseKeepsTree
<1>7. IInv' /\ InOrder /\ Nodes' = N \ {k}
  BY <1>4, <1>5, <1>6, ReturnIsSound
<1>8. R!Rank(k) = 1
  <2>1. {x \in N : x <= k} = {k}
    <3>1. k \in Int /\ \A x \in N : x \in Int
      BY <1>2, <1>5, KeysAre
    <3>2. ASSUME NEW x \in N, x <= k PROVE x = k
      <4>1. k <= x /\ x \in Int
        BY <1>5, <3>1
      <4> QED
        BY <3>1, <3>2, <4>1
    <3>3. k <= k
      BY <3>1
    <3> QED
      BY <1>5, <3>2, <3>3
  <2>2. Cardinality({k}) = 1
    BY FS_Singleton
  <2>3. R!Rank(k) = Cardinality({x \in N : x <= k})
    BY <1>1, <1>5, TreeAt
  <2> QED
    BY <2>1, <2>2, <2>3
<1>9. Reply' = [op |-> "first", key |-> k, element |-> k, rank |-> 1]
  BY <1>4 DEF Return, Reply
<1> QED
  BY <1>2, <1>5, <1>7, <1>8, <1>9 DEF R!EraseFirst

LEMMA FreeAllStep ==
  ASSUME IInv, FreeAll
  PROVE  IInv' /\ InOrder /\ R!Clear
<1>1. head' = Empty /\ Return("free", Null, Null, 0)
  BY DEF FreeAll
<1>2. IsTree(head', {}) /\ Null \in Child
  BY <1>1, EmptyIsTree DEF Child
<1>3. IInv' /\ InOrder /\ Nodes' = {}
  BY <1>1, <1>2, ReturnIsSound
<1>4. Reply' = [op |-> "none", key |-> Null, element |-> Null, rank |-> 0]
  BY <1>1 DEF Return, Reply
<1> QED
  BY <1>3, <1>4 DEF R!Clear, R!Silent

-----------------------------------------------------------------------------
(***************************************************************************)
(* The iterator's calls.                                                   *)
(***************************************************************************)
LEMMA IterateIsSound ==
  ASSUME IInv, NEW N, IsTree(head, N), NEW s, Chain(head, N, s), NEW k \in Child,
         NEW o, o \in {"itrFirst", "itrFind", "itrNext", "itrPrev"}, Iterate(o, k, s)
  PROVE  IInv' /\ R!Quiet /\ op' = o /\ itr' = s
<1>1. /\ itr' = s /\ op' = o /\ arg' = k /\ result' = Null /\ cnt' = 0
      /\ session' = session /\ head' = head
  BY DEF Iterate
<1>2. IsTree(head', N) /\ Chain(head', N, itr')
  BY <1>1
<1>3. CallIsSound'
  BY <1>1 DEF IInv, CallIsSound, Child
<1>4. (\E M : IsTree(head, M) /\ Chain(head, M, itr))'
  BY <1>2
<1>5. Nodes' = N /\ Nodes = N
  BY <1>2, NodesNext, NodesAre, TreeAt
<1>6. Reply' = [op |-> "none", key |-> Null, element |-> Null, rank |-> 0]
  BY <1>1 DEF Reply
<1> QED
  BY <1>1, <1>3, <1>4, <1>5, <1>6 DEF IInv, R!Quiet, R!Silent

LEMMA ItrFirstStep ==
  ASSUME IInv, ItrFirst
  PROVE  IInv' /\ InOrder /\ R!Quiet
<1>1. PICK N : IsTree(head, N)
  BY DEF IInv
<1>2. PICK s : s = Outermost(head, <<>>, root, 0)
  OBVIOUS
<1>3. Iterate("itrFirst", Null, s) /\ Null \in Child
  BY <1>2 DEF ItrFirst, Child
<1>4. /\ Chain(head, N, s) /\ (s = <<>> <=> N = {})
      /\ s # <<>> => Last(s) \in N /\ \A y \in N : Last(s) <= y
  BY <1>1, <1>2, FirstIs
<1>5. IInv' /\ R!Quiet /\ op' = "itrFirst" /\ itr' = s
  BY <1>1, <1>3, <1>4, IterateIsSound
<1>6. ItrAt(s) = Least(N)
  <2>1. CASE s = <<>>
    BY <1>4, <2>1 DEF ItrAt, Least
  <2>2. CASE s # <<>>
    <3>1. N \in SUBSET Int
      BY <1>1, TreeAt, KeysAre
    <3>2. PICK x \in N : x = Last(s) /\ \A y \in N : x <= y
      BY <1>4, <2>2
    <3>3. Least(N) = x
      BY <3>1, <3>2, LeastIs
    <3> QED
      BY <2>2, <3>2, <3>3 DEF ItrAt
  <2> QED
    BY <2>1, <2>2
<1> QED
  BY <1>1, <1>5, <1>6, TreeAt DEF InOrder

LEMMA ItrFindStep ==
  ASSUME IInv, NEW k \in Key, ItrFind(k)
  PROVE  IInv' /\ InOrder /\ R!Quiet
<1>1. PICK N : IsTree(head, N)
  BY DEF IInv
<1>2. PICK up, sub : Structure(head, up, sub) /\ N = sub[Kid(head, Root, 0)]
  BY <1>1 DEF IsTree
<1>3. PICK path, passed : path = PathTo(head, k) /\ passed = NodesOf(path)
  OBVIOUS
<1>4. PICK s : /\ s = IF Find(head, k) = Null THEN passed ELSE Append(passed, k)
               /\ Iterate("itrFind", k, s)
  BY <1>3 DEF ItrFind, NodesOf
<1>5. /\ IsPath(head, path) /\ End(head, path) = Find(head, k)
      /\ Find(head, k) = (IF k \in N THEN k ELSE Null)
  BY <1>2, <1>3, SearchIs DEF LeadsTo
<1>6. /\ Chain(head, N, passed)
      /\ End(head, path) # Null => Chain(head, N, Append(passed, End(head, path)))
  BY <1>2, <1>3, <1>5, FoundIsChain
<1>7. Chain(head, N, s)
  BY <1>4, <1>5, <1>6
<1>8. IInv' /\ R!Quiet /\ op' = "itrFind"
  BY <1>1, <1>4, <1>7, IterateIsSound DEF Child
<1> QED
  BY <1>8 DEF InOrder

LEMMA ItrMoveStep ==
  ASSUME IInv, NEW d \in 0..1, ItrMove(d)
  PROVE  IInv' /\ InOrder /\ R!Quiet
<1>1. PICK N : IsTree(head, N) /\ Chain(head, N, itr)
  BY DEF IInv
<1>2. PICK up, sub : Structure(head, up, sub) /\ N = sub[Kid(head, Root, 0)]
  BY <1>1 DEF IsTree
<1>3. PICK x, c : x = Last(itr) /\ c = Kid(head, x, d)
  OBVIOUS
<1>4. PICK s : /\ s = IF c # Null THEN Outermost(head, itr, c, 1 - d) ELSE Climb(itr, d)
               /\ Iterate(IF d = 1 THEN "itrNext" ELSE "itrPrev", Null, s)
  BY <1>3 DEF ItrMove, Kid
<1>5. itr # <<>> /\ Nodes = N /\ N \in SUBSET Key
  BY <1>1, TreeAt DEF ItrMove
<1>6. x \in N /\ x \in Key /\ c \in Child /\ GoesOn(head, itr, c)
  <2>1. PICK L \in Nat : L = Len(itr) /\ x = itr[L] /\ L \in 1..L
    BY <1>1, <1>3, <1>5 DEF Chain, Last
  <2>2. x \in N
    BY <1>1, <2>1 DEF Chain
  <2>3. c \in Child
    BY <1>2, <1>3, <1>5, <2>2, KidsAre
  <2> QED
    BY <1>3, <1>5, <2>2, <2>3 DEF GoesOn
<1>7. /\ Chain(head, N, s)
      /\ s = <<>> => \A y \in N : ~ Beyond(x, y, d)
      /\ s # <<>> => Nearest(N, x, Last(s), d)
  <2>1. CASE c # Null
    <3>1. 1 - d \in 0..1 /\ 1 - (1 - d) = d
      OBVIOUS
    <3>2. s = Outermost(head, itr, c, 1 - d)
      BY <1>4, <2>1
    <3>3. Chain(head, N, s) /\ EndsAt(sub, s, c, 1 - d)
      BY <1>1, <1>2, <1>6, <2>1, <3>1, <3>2, OutermostIs
    <3>4. PICK z \in sub[c] : z = Last(s) /\ \A y \in sub[c] : y = z \/ Beyond(z, y, d)
      BY <3>1, <3>3 DEF EndsAt
    <3>5. Nearest(N, x, z, d)
      BY <1>2, <1>3, <1>6, <2>1, <3>4, NearestBelow
    <3> QED
      BY <3>3, <3>4, <3>5 DEF EndsAt
  <2>2. CASE c = Null
    <3>1. s = Climb(itr, d)
      BY <1>4, <2>2
    <3> QED
      BY <1>1, <1>2, <1>3, <1>5, <2>2, <3>1, ClimbIs
  <2> QED
    BY <2>1, <2>2
<1>8. PICK o : o = (IF d = 1 THEN "itrNext" ELSE "itrPrev")
  OBVIOUS
<1>9. IInv' /\ R!Quiet /\ op' = o /\ itr' = s
  <2>1. Iterate(o, Null, s) /\ Null \in Child /\ o \in {"itrFirst", "itrFind", "itrNext", "itrPrev"}
    BY <1>4, <1>8 DEF Child
  <2> QED
    BY <1>1, <1>7, <2>1, IterateIsSound
<1>10. ItrAt(itr) = x /\ ItrAt(s) = (IF s = <<>> THEN Null ELSE Last(s))
  BY <1>3, <1>5 DEF ItrAt
<1>11. CASE d = 1
  <2>1. Least({y \in N : y > x}) = ItrAt(s)
    BY <1>5, <1>6, <1>7, <1>10, <1>11, NearestIs
  <2>2. op' = "itrNext"
    BY <1>8, <1>9, <1>11
  <2>3. InOrder
    BY <1>5, <1>9, <1>10, <2>1, <2>2 DEF InOrder
  <2> QED
    BY <1>9, <2>3
<1>12. CASE d = 0
  <2>1. Greatest({y \in N : y < x}) = ItrAt(s)
    BY <1>5, <1>6, <1>7, <1>10, <1>12, NearestIs
  <2>2. op' = "itrPrev"
    BY <1>8, <1>9, <1>12
  <2>3. InOrder
    BY <1>5, <1>9, <1>10, <2>1, <2>2 DEF InOrder
  <2> QED
    BY <1>9, <2>3
<1> QED
  BY <1>11, <1>12

-----------------------------------------------------------------------------
(***************************************************************************)
(* The theorems.                                                           *)
(***************************************************************************)
LEMMA InitIsSound == Init => IInv /\ R!Init
<1> SUFFICES ASSUME Init PROVE IInv /\ R!Init
  OBVIOUS
<1>1. session \in Session /\ session.preload \in Seq(Key)
  BY KavlAssumption DEF Init
<1>2. head \in Trees
  BY <1>1, BuildIsTree DEF Init
<1>3. PICK N : IsTree(head, N)
  BY <1>2 DEF Trees
<1>4. Chain(head, N, itr)
  BY DEF Init, Chain
<1>5. CallIsSound
  BY <1>1 DEF Init, CallIsSound, Child
<1>6. Nodes \in SUBSET Key
  BY <1>3, TreeAt
<1>7. Reply = [op |-> "none", key |-> Null, element |-> Null, rank |-> 0]
  BY DEF Init, Reply
<1> QED
  BY <1>3, <1>4, <1>5, <1>6, <1>7 DEF IInv, R!Init, R!Silent

LEMMA EveryStep ==
  ASSUME IInv, [Next]_vars
  PROVE  IInv' /\ [InOrder]_<<op, itr>> /\ [R!Next]_R!vars
<1>1. CASE UNCHANGED vars
  <2>1. UNCHANGED <<session, head, op, arg, result, cnt, itr>>
    BY <1>1 DEF vars
  <2>2. CallIsSound'
    BY <2>1 DEF IInv, CallIsSound
  <2>3. (\E N : IsTree(head, N) /\ Chain(head, N, itr))'
    BY <2>1 DEF IInv
  <2>4. Nodes' = Nodes /\ Reply' = Reply
    <3>1. Nodes' = NodesIn(head) /\ Nodes = NodesIn(head)
      BY <2>1, NodesNext, PropsAre
    <3> QED
      BY <2>1, <3>1 DEF Reply
  <2> QED
    BY <2>1, <2>2, <2>3, <2>4 DEF IInv, R!vars
<1>2. CASE \E k \in Key : Insert(k) \/ Erase(k) \/ ItrFind(k)
  <2>1. PICK k \in Key : Insert(k) \/ Erase(k) \/ ItrFind(k)
    BY <1>2
  <2>2. IInv' /\ InOrder /\ (R!Insert(k) \/ R!Erase(k) \/ R!EraseNothing(k) \/ R!Quiet)
    BY <2>1, InsertStep, EraseStep, ItrFindStep
  <2> QED
    BY <2>2 DEF R!Next
<1>3. CASE EraseFirst
  BY <1>3, EraseFirstStep DEF R!Next
<1>4. CASE FreeAll
  BY <1>4, FreeAllStep DEF R!Next
<1>5. CASE ItrFirst
  BY <1>5, ItrFirstStep DEF R!Next
<1>6. CASE \E d \in 0..1 : ItrMove(d)
  BY <1>6, ItrMoveStep DEF R!Next
<1> QED
  BY <1>1, <1>2, <1>3, <1>4, <1>5, <1>6 DEF Next

LEMMA InvariantHolds == Spec => []IInv
<1>1. Init => IInv
  BY InitIsSound
<1>2. IInv /\ [Next]_vars => IInv'
  BY EveryStep
<1> QED
  BY <1>1, <1>2, PTL DEF Spec

\* kavl_insert and kavl_erase: after every call the tree is an AVL tree whose
\* nodes know the difference of their subtrees' heights and their sizes.
THEOREM TreeStaysAVL == Spec => []IsAVLTree
<1>1. IInv => IsAVLTree
  BY SoundIs
<1> QED
  BY <1>1, InvariantHolds, PTL

\* kavl_find and kavl_interval give the key, its rank and its neighbours.
THEOREM LookupsStayRight == Spec => []LookupsAreRight
<1>1. IInv => LookupsAreRight
  BY SoundIs
<1> QED
  BY <1>1, InvariantHolds, PTL

\* kavl_free frees all nodes, and none twice.
THEOREM AllAreFreedOnce == Spec => []FreesEachOnce
<1>1. ASSUME IInv PROVE FreesEachOnce
  <2>1. PICK N : IsTree(head, N)
    BY <1>1 DEF IInv
  <2>2. ToSet(Free(head)) = N /\ Len(Free(head)) = Cardinality(N)
    BY <2>1, FreeIs DEF IsTree
  <2>3. Nodes = N
    BY <2>1, TreeAt
  <2> QED
    BY <2>2, <2>3 DEF FreesEachOnce
<1> QED
  BY <1>1, InvariantHolds, PTL

\* kavl_itr_first, kavl_itr_next_bidir: the iterator leaves out no node.
THEOREM IterationKeepsOrder == Spec => IterationInOrder
<1>1. IInv /\ [Next]_vars => [InOrder]_<<op, itr>>
  BY EveryStep
<1> QED
  BY <1>1, InvariantHolds, PTL DEF Spec, IterationInOrder, InOrder

\* The calls of kavl.h are those of a set with ranks.
THEOREM TreeIsARankedSet == Spec => ImplementsRankedSet
<1>1. Init => R!Init
  BY InitIsSound
<1>2. IInv /\ [Next]_vars => [R!Next]_R!vars
  BY EveryStep
<1> QED
  BY <1>1, <1>2, InvariantHolds, PTL DEF Spec, ImplementsRankedSet, R!Spec

=============================================================================
