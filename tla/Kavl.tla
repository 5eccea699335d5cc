-------------------------------- MODULE Kavl --------------------------------
(***************************************************************************)
(* The intrusive AVL tree that KAVL_INIT of kavl/kavl.h generates: nodes   *)
(* carry their children, their balance factor and the size of their        *)
(* subtree; insertion and deletion walk a recorded path and rotate nodes   *)
(* in place; an iterator keeps the path to where it is.                    *)
(*                                                                         *)
(* A call is one step.  A node is known by its key, since no two nodes of  *)
(* a tree have the same.  The pointer to the root is the child 0 of a node *)
(* Root, as it is of kavl_erase's "fake".  What is in a node outside the   *)
(* tree is never read, and forgotten.                                      *)
(***************************************************************************)
EXTENDS Integers, SequencesExt, FiniteSets

CONSTANTS
  Key,           \* ordered by <, as __cmp orders the nodes
  Session,       \* bounds on what a client does: see KavlAssumption
  Root,          \* the node whose child 0 is *root_
  Null           \* the null pointer

VARIABLES
  session,
  head,          \* x->__head for every node: p, balance, size
  op, arg,       \* the last call, and the key it was given
  result, cnt,   \* the node it returned, and *cnt_
  itr            \* the iterator's stack

vars == <<session, head, op, arg, result, cnt, itr>>

\* A client inserts "preload" first, then keys of "keys"; it keeps at least
\* "least" of them, and iterates or not.
ASSUME KavlAssumption ==
  /\ Key \subseteq Int /\ IsFiniteSet(Key)
  /\ Null \notin Key /\ Root \notin Key \cup {Null}
  /\ \A s \in Session :
       /\ s.preload \in Seq(Key) /\ s.keys \subseteq Key
       /\ s.least \in Nat /\ s.iterates \in BOOLEAN

Bare == [p |-> [d \in 0..1 |-> Null], balance |-> 0, size |-> 1]

Empty == [x \in Key \cup {Root} |-> Bare]

root == head[Root].p[0]

\* kavl_size and kavl_size_child
SizeOf(g, x) == IF x = Null THEN 0 ELSE g[x].size

(***************************************************************************)
(* The loops that walk down the tree.  No walk takes more turns than there *)
(* are keys.  Outermost puts the nodes from p down in direction d on a     *)
(* stack.                                                                  *)
(***************************************************************************)
Outermost(g, stack, p, d) ==
  LET turn[n \in Nat] ==
        IF n = 0 THEN [p |-> p, stack |-> stack]
        ELSE LET w == turn[n - 1]
             IN  IF w.p = Null THEN w
                 ELSE [p |-> g[w.p].p[d], stack |-> Append(w.stack, w.p)]
  IN  turn[Cardinality(Key)].stack

(***************************************************************************)
(* The search for key k, in kavl_find, kavl_interval, kavl_insert,         *)
(* kavl_erase and kavl_itr_find: the node it is at, the nodes it has       *)
(* passed, each with the direction taken there, how many keys that are     *)
(* smaller it has left behind, and the nearest nodes on each side.         *)
(***************************************************************************)
Dir(k, p) == IF k > p THEN 1 ELSE 0

Pass(g, k, w) ==
  LET p == w.p
      d == Dir(k, p)
  IN  IF p \in {Null, k} THEN w
      ELSE [p |-> g[p].p[d],
            path |-> Append(w.path, [x |-> p, d |-> d]),
            cnt |-> IF d = 1 THEN w.cnt + SizeOf(g, g[p].p[0]) + 1 ELSE w.cnt,
            lower |-> IF d = 1 THEN p ELSE w.lower,
            upper |-> IF d = 0 THEN p ELSE w.upper]

Search(g, k) ==
  LET turn[n \in Nat] ==
        IF n = 0 THEN [p |-> g[Root].p[0], path |-> <<[x |-> Root, d |-> 0]>>,
                       cnt |-> 0, lower |-> Null, upper |-> Null]
        ELSE Pass(g, k, turn[n - 1])
  IN  turn[Cardinality(Key)]

Find(g, k) == Search(g, k).p

PathTo(g, k) == Search(g, k).path

Rank_SelfMissed(g, k) == Search(g, k).cnt

\* cnt: how many nodes are smaller than or equal to k
Rank(g, k) ==
  LET w == Search(g, k)
  IN  IF w.p = Null THEN w.cnt ELSE w.cnt + SizeOf(g, g[k].p[0]) + 1

Interval(g, k) ==
  LET w == Search(g, k)
  IN  IF w.p = Null THEN <<w.lower, w.upper>> ELSE <<k, k>>

(***************************************************************************)
(* Rotations of p in direction dir; Rotated is the node that takes its     *)
(* place.                                                                  *)
(***************************************************************************)
Rotate1_ChildLost(g, p, dir) ==
  LET q == g[p].p[1 - dir]
  IN  [g EXCEPT ![p].size = @ - (g[q].size - SizeOf(g, g[q].p[dir])),
                ![p].p[1 - dir] = Null,
                ![q].size = g[p].size,
                ![q].p[dir] = p]

\* (a,(b,c)q)p => ((a,b)p,c)q
Rotate1(g, p, dir) ==
  LET q == g[p].p[1 - dir]
  IN  [g EXCEPT ![p].size = @ - (g[q].size - SizeOf(g, g[q].p[dir])),
                ![p].p[1 - dir] = g[q].p[dir],
                ![q].size = g[p].size,
                ![q].p[dir] = p]

Balance2_Swapped(b, b1) == IF b = b1 THEN <<b1, 0>> ELSE IF b = 0 THEN <<0, 0>> ELSE <<0, -b1>>

\* the balance of q and of p after a double rotation, from that of r before it
Balance2(b, b1) == IF b = b1 THEN <<0, -b1>> ELSE IF b = 0 THEN <<0, 0>> ELSE <<b1, 0>>

Turn2Sizes(g, p, q, r, inner) ==
  [g EXCEPT ![r].size = g[p].size,
            ![p].size = @ - (g[q].size - inner),
            ![q].size = @ - (inner + 1)]

Turn2Links(g, p, q, r, dir) ==
  LET opp == 1 - dir
  IN  [g EXCEPT ![p].p[opp] = g[r].p[dir], ![r].p[dir] = p,
                ![q].p[dir] = g[r].p[opp], ![r].p[opp] = q]

\* (a,((b,c)r,d)q)p => ((a,b)p,(c,d)q)r, with the new balances of q and p
Turn2(g, p, q, r, dir, balance) ==
  LET h == Turn2Sizes(g, p, q, r, SizeOf(g, g[r].p[dir]))
  IN  [Turn2Links(h, p, q, r, dir) EXCEPT
        ![q].balance = balance[1], ![p].balance = balance[2], ![r].balance = 0]

Rotate2(g, p, dir) ==
  LET q == g[p].p[1 - dir]
      r == g[q].p[dir]
  IN  Turn2(g, p, q, r, dir, Balance2(g[r].balance, IF dir = 0 THEN 1 ELSE -1))

Link(g, at, x) == [g EXCEPT ![at.x].p[at.d] = x]

(***************************************************************************)
(* kavl_insert of a node whose key is not in the tree: bp is the lowest    *)
(* unbalanced node of the path, or the root; only it may need a rotation.  *)
(***************************************************************************)
Sign(d) == IF d = 0 THEN -1 ELSE 1

\* the place of bp in the path
LowestUnbalanced(g, path) ==
  LET S == {n \in 2..Len(path) : n = 2 \/ g[path[n].x].balance # 0}
  IN  CHOOSE n \in S : \A m \in S : m <= n

Passed(path, from) == {path[n].x : n \in from..Len(path)}

\* the new leaf, with the sizes and balance factors above it brought up to date
Inserted(g, path, b, k) ==
  LET h == Link([g EXCEPT ![k] = Bare], Last(path), k)
  IN  [x \in DOMAIN g |->
        [p |-> h[x].p,
         balance |-> IF x \in Passed(path, b) THEN h[x].balance + Sign(Dir(k, x))
                     ELSE h[x].balance,
         size |-> IF x \in Passed(path, 2) THEN h[x].size + 1 ELSE h[x].size]]

InsertAbsent(g, k) ==
  LET path == PathTo(g, k)
      b == LowestUnbalanced(g, path)
      bp == path[b].x
      h == Inserted(g, path, b, k)
      which == IF h[bp].balance < 0 THEN 1 ELSE 0
      q == h[bp].p[1 - which]
      r == h[q].p[which]
  IN  IF Len(path) = 1 THEN Link([g EXCEPT ![k] = Bare], path[1], k)
      ELSE IF h[bp].balance \in -1..1 THEN h
      ELSE IF h[q].balance = -Sign(which)
        THEN Link([Rotate1(h, bp, which) EXCEPT ![q].balance = 0, ![bp].balance = 0],
                  path[b - 1], q)
        ELSE Link(Rotate2(h, bp, which), path[b - 1], r)

(***************************************************************************)
(* kavl_erase: the way up the path from where a subtree became lower.      *)
(* Settled is what becomes of g when the subtree of q in direction which   *)
(* has, and whether the way ends there.                                    *)
(***************************************************************************)
Settled(g, at, q, which) ==
  LET b1 == -Sign(which)
      h == [g EXCEPT ![q].balance = @ + b1]
      r == h[q].p[1 - which]
      Turned(br, bq) ==
        Link([Rotate1(h, q, which) EXCEPT ![r].balance = br, ![q].balance = bq], at, r)
  IN  IF h[q].balance # 2 * b1 THEN [g |-> h, stop |-> h[q].balance = b1]
      ELSE IF h[r].balance = -b1
        THEN [g |-> Link(Rotate2(h, q, which), at, h[r].p[which]), stop |-> FALSE]
      ELSE IF h[r].balance = 0
        THEN [g |-> Turned(-b1, b1), stop |-> TRUE]
        ELSE [g |-> Turned(0, 0), stop |-> FALSE]

\* d is as in C: what is left of the path
Rebalance(g, path) ==
  LET turn[n \in Nat] ==
        IF n = 0 THEN [g |-> g, d |-> Len(path), stop |-> FALSE]
        ELSE LET w == turn[n - 1]
                 s == Settled(w.g, path[w.d - 1], path[w.d].x, path[w.d].d)
             IN  IF w.d = 1 \/ w.stop THEN w
                 ELSE [g |-> s.g, d |-> w.d - 1, stop |-> s.stop]
  IN  turn[Len(path)].g

Shrink(g, S) == [x \in DOMAIN g |-> IF x \in S THEN [g[x] EXCEPT !.size = @ - 1] ELSE g[x]]

\* the node that takes the place of p, among "between" nodes on the way to r
InPlaceOf(g, p, r, between) ==
  [p |-> [d \in 0..1 |-> IF d = 1 /\ between = <<>> THEN g[r].p[1] ELSE g[p].p[d]],
   balance |-> g[p].balance,
   size |-> g[p].size - 1]

\* p is taken out; if it has a right child, the next node r takes its place
EraseAt(g, p) ==
  LET path == PathTo(g, p)
      down == Outermost(g, <<>>, g[p].p[1], 0)
      r == Last(down)
      between == Front(down)
      out == [Shrink(g, Passed(path, 2)) EXCEPT ![p] = Bare]
      moved == [Link(Shrink(out, ToSet(between)), Last(path), r)
                  EXCEPT ![r] = InPlaceOf(g, p, r, between)]
      h == IF between = <<>> THEN moved
           ELSE [moved EXCEPT ![Last(between)].p[0] = g[r].p[1]]
  IN  IF down = <<>>
        THEN Rebalance(Link(out, Last(path), g[p].p[0]), path)
        ELSE Rebalance(h, path \o <<[x |-> r, d |-> 1]>>
                               \o [n \in DOMAIN between |-> [x |-> between[n], d |-> 0]])

(***************************************************************************)
(* kavl_free: the nodes in the order it frees them.  It flattens the tree  *)
(* by rotations as it goes; a turn frees a node or makes it the right      *)
(* child of another, once for each.                                        *)
(***************************************************************************)
Unroll_ChildLost(g, p) ==
  LET q == g[p].p[0]
  IN  [g EXCEPT ![p].p[0] = Null, ![q].p[1] = p]

Unroll(g, p) ==
  LET q == g[p].p[0]
  IN  [g EXCEPT ![p].p[0] = g[q].p[1], ![q].p[1] = p]

Free(g) ==
  LET turn[n \in Nat] ==
        IF n = 0 THEN [g |-> g, p |-> g[Root].p[0], freed |-> <<>>]
        ELSE LET w == turn[n - 1]
             IN  IF w.p = Null THEN w
                 ELSE IF w.g[w.p].p[0] = Null
                   THEN [w EXCEPT !.p = w.g[w.p].p[1], !.freed = Append(@, w.p)]
                   ELSE [w EXCEPT !.g = Unroll(w.g, w.p), !.p = w.g[w.p].p[0]]
  IN  turn[2 * Cardinality(Key)].freed

(***************************************************************************)
(* Calls.  find, interval and size change nothing: see KavlProps.          *)
(***************************************************************************)
Put(g, k) == IF Find(g, k) = Null THEN InsertAbsent(g, k) ELSE g

\* the tree of a client that has put some keys
Build(keys) ==
  LET tree[n \in Nat] ==
        IF n = 0 THEN Empty
        ELSE IF n > Len(keys) THEN tree[n - 1]
        ELSE Put(tree[n - 1], keys[n])
  IN  tree[Len(keys)]

Init ==
  /\ session \in Session
  /\ head = Build(session.preload)
  /\ op = "none" /\ arg = Null /\ result = Null /\ cnt = 0 /\ itr = <<>>

Return(o, k, x, n) ==
  /\ op' = o /\ arg' = k /\ result' = x /\ cnt' = n
  /\ itr' = <<>>
  /\ UNCHANGED session

\* a node with key k is offered; the one in the tree, if any, is returned
Insert(k) ==
  /\ k \in session.keys
  /\ head' = Put(head, k)
  /\ Return("insert", k, k, Rank(head, k))

Spare == SizeOf(head, root) > session.least

Erase(k) ==
  /\ k \in session.keys
  /\ IF Find(head, k) = Null
       THEN Return("erase", k, Null, 0) /\ UNCHANGED head
       ELSE /\ Spare
            /\ head' = EraseAt(head, k)
            /\ Return("erase", k, k, Rank(head, k))

\* kavl_erase_first; of an empty tree it would write before the path's start
EraseFirst ==
  LET first == Last(Outermost(head, <<>>, root, 0))
  IN  /\ root # Null /\ Spare
      /\ head' = EraseAt(head, first)
      /\ Return("first", first, first, 1)

FreeAll ==
  /\ session.least = 0
  /\ head' = Empty
  /\ Return("free", Null, Null, 0)

(***************************************************************************)
(* The iterator.  A client does not change the tree while it iterates.     *)
(***************************************************************************)
Iterate(o, k, stack) ==
  /\ session.iterates
  /\ op' = o /\ arg' = k /\ result' = Null /\ cnt' = 0
  /\ itr' = stack
  /\ UNCHANGED <<session, head>>

ItrFirst == Iterate("itrFirst", Null, Outermost(head, <<>>, root, 0))

ItrFind(k) ==
  LET path == PathTo(head, k)
      passed == [n \in 1..(Len(path) - 1) |-> path[n + 1].x]
  IN  Iterate("itrFind", k, IF Find(head, k) = Null THEN passed ELSE Append(passed, k))

Climb_OneStep(stack, d) == Front(stack)

\* pop until a node is left from its other side
Climb(stack, d) ==
  LET S == {n \in 1..(Len(stack) - 1) : head[stack[n]].p[d] # stack[n + 1]}
  IN  IF S = {} THEN <<>>
      ELSE SubSeq(stack, 1, CHOOSE n \in S : \A m \in S : m <= n)

ItrMove(d) ==
  LET p == head[Last(itr)].p[d]
  IN  /\ itr # <<>>
      /\ Iterate(IF d = 1 THEN "itrNext" ELSE "itrPrev", Null,
                 IF p # Null THEN Outermost(head, itr, p, 1 - d) ELSE Climb(itr, d))

Next ==
  \/ \E k \in Key : Insert(k) \/ Erase(k) \/ ItrFind(k)
  \/ EraseFirst \/ FreeAll
  \/ ItrFirst
  \/ \E d \in 0..1 : ItrMove(d)

Spec == Init /\ [][Next]_vars
=============================================================================
