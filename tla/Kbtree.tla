------------------------------- MODULE Kbtree -------------------------------
(***************************************************************************)
(* The B-tree that KBTREE_INIT of kbtree/kbtree.h generates: insertion     *)
(* splits every full node on its way down, deletion borrows or merges      *)
(* before it enters a node that is at its minimum, and an iterator keeps   *)
(* the stack of the nodes it has come down through.                        *)
(*                                                                         *)
(* A call is one step.  A node is a value, so a pointer to a node is the   *)
(* node; a pointer to an element is the path to it, the children to go     *)
(* down to and then its place among the keys.  Keys and children count     *)
(* from 1.  n_nodes, which nothing reads, is left out; calloc succeeds.    *)
(***************************************************************************)
EXTENDS Integers, SequencesExt

CONSTANTS
  Key,           \* ordered by <, as __cmp orders key_t
  Val,           \* the rest of a key_t
  Stored,        \* the values clients give each key
  SeekKey,       \* bound: keys given to kb_itr_get
  MinDegree,     \* the t that kb_init computes from a node size
  Null           \* the null pointer

VARIABLES
  t,             \* b->t
  root,          \* b->root
  nKeys,         \* b->n_keys
  op, arg,       \* the last call and the key it was about
  ptr,           \* the pointer getp or putp returned; <<>> if null
  itr            \* the iterator's stack; <<>> if not valid

vars == <<t, root, nKeys, op, arg, ptr, itr>>

Element == [key : Key, val : Val]

Leaf(keys) == [keys |-> keys, kids |-> <<>>]

Internal(x) == x.kids # <<>>

(***************************************************************************)
(* __kb_getp_aux: bisection for the first key that is not smaller than k.  *)
(***************************************************************************)
RECURSIVE Bisect(_, _, _, _)

Bisect_PastMid(keys, k, begin, end) ==
  LET mid == (begin + end) \div 2
  IN  IF begin >= end THEN begin
      ELSE IF keys[mid + 1].key < k THEN Bisect(keys, k, mid + 1, end)
      ELSE Bisect(keys, k, begin, mid - 1)

Bisect(keys, k, begin, end) ==
  LET mid == (begin + end) \div 2
  IN  IF begin >= end THEN begin
      ELSE IF keys[mid + 1].key < k THEN Bisect(keys, k, mid + 1, end)
      ELSE Bisect(keys, k, begin, mid)

\* how many keys of x are smaller than k, and whether the next one is k
Smaller(x, k) == Bisect(x.keys, k, 0, Len(x.keys))

Found(x, k) ==
  Smaller(x, k) < Len(x.keys) /\ x.keys[Smaller(x, k) + 1].key = k

RECURSIVE Getp(_, _), Interval(_, _, _, _)

Getp(x, k) ==
  LET c == Smaller(x, k) + 1
      below == IF Internal(x) THEN Getp(x.kids[c], k) ELSE <<>>
  IN  IF Found(x, k) THEN <<c>>
      ELSE IF below = <<>> THEN <<>>
      ELSE <<c>> \o below

\* the neighbours of k, as far as they are known on the way down to x
Interval(x, k, lower, upper) ==
  LET c == Smaller(x, k) + 1
      l == IF c > 1 THEN x.keys[c - 1] ELSE lower
      u == IF c <= Len(x.keys) THEN x.keys[c] ELSE upper
  IN  IF Found(x, k) THEN <<u, u>>
      ELSE IF ~Internal(x) THEN <<l, u>>
      ELSE Interval(x.kids[c], k, l, u)

(***************************************************************************)
(* Child c of x is cut after n of its keys; the next one moves up into x.  *)
(* __kb_split cuts a full child in the middle.                             *)
(***************************************************************************)
Low(y, n) ==
  [keys |-> SubSeq(y.keys, 1, n),
   kids |-> IF Internal(y) THEN SubSeq(y.kids, 1, n + 1) ELSE <<>>]

High(y, n) ==
  [keys |-> SubSeq(y.keys, n + 2, Len(y.keys)),
   kids |-> IF Internal(y) THEN SubSeq(y.kids, n + 2, Len(y.kids)) ELSE <<>>]

Cut(x, c, n) ==
  LET y == x.kids[c]
  IN  [keys |-> InsertAt(x.keys, c, y.keys[n + 1]),
       kids |-> InsertAt(ReplaceAt(x.kids, c, Low(y, n)), c + 1, High(y, n))]

Split(x, c) == Cut(x, c, t - 1)

Full(x) == Len(x.keys) = 2 * t - 1

\* which half of a split child e goes to
Half(x, c, e) == IF e.key > x.keys[c].key THEN c + 1 ELSE c

(***************************************************************************)
(* __kb_putp_aux: the node with element e put into it, and the path to e.  *)
(***************************************************************************)
RECURSIVE PutAux(_, _)

\* (k is not in x: see Put)
PutAux(x, e) ==
  LET c == Smaller(x, e.key) + 1
  IN  IF ~Internal(x)
        THEN [x |-> Leaf(InsertAt(x.keys, c, e)), path |-> <<c>>]
        ELSE LET y == IF Full(x.kids[c]) THEN Split(x, c) ELSE x
                 d == IF Full(x.kids[c]) THEN Half(y, c, e) ELSE c
                 sub == PutAux(y.kids[d], e)
             IN  [x |-> [y EXCEPT !.kids[d] = sub.x], path |-> <<d>> \o sub.path]

(***************************************************************************)
(* What __kb_delp_aux does to x before it enters child c: the child gets a *)
(* key from a neighbour that can spare one, or is merged with it.          *)
(***************************************************************************)
\* children c and c + 1 become one, with e between them
Merge(x, c, e) ==
  [keys |-> RemoveAt(x.keys, c),
   kids |-> ReplaceAt(RemoveAt(x.kids, c + 1), c,
     [keys |-> x.kids[c].keys \o <<e>> \o x.kids[c + 1].keys,
      kids |-> x.kids[c].kids \o x.kids[c + 1].kids])]

\* a key moves through x from one child to the other
BorrowFromLeft(x, c) ==
  Cut(Merge(x, c - 1, x.keys[c - 1]), c - 1, Len(x.kids[c - 1].keys) - 1)

BorrowFromRight(x, c) ==
  Cut(Merge(x, c, x.keys[c]), c, Len(x.kids[c].keys) + 1)

Enter_AsItIs(x, c) == <<x, c>>

\* x and the child to go on with
Enter(x, c) ==
  LET CanSpare(d) == d \in DOMAIN x.kids /\ Len(x.kids[d].keys) >= t
      AtMinimum(d) == d \in DOMAIN x.kids /\ Len(x.kids[d].keys) = t - 1
  IN  IF ~AtMinimum(c) THEN <<x, c>>
      ELSE IF CanSpare(c - 1) THEN <<BorrowFromLeft(x, c), c>>
      ELSE IF CanSpare(c + 1) THEN <<BorrowFromRight(x, c), c>>
      ELSE IF AtMinimum(c - 1) THEN <<Merge(x, c - 1, x.keys[c - 1]), c - 1>>
      ELSE IF AtMinimum(c + 1) THEN <<Merge(x, c, x.keys[c]), c>>
      ELSE <<x, c>>

(***************************************************************************)
(* __kb_delp_aux: the node without one of its elements, and the element.   *)
(* It is the one with e's key, or the last (s = 1) or first (s = 2) below  *)
(* x, which takes the place of one deleted further up.                     *)
(***************************************************************************)
RECURSIVE DelAux(_, _, _)

DelBelow(x, c, e, s) ==
  LET sub == DelAux(x.kids[c], e, s)
  IN  [x |-> [x EXCEPT !.kids[c] = sub.x], e |-> sub.e]

DelReplaced_FarEnd(x, g, c, s) ==
  LET sub == DelAux(x.kids[c], x.keys[g], 3 - s)
  IN  [x |-> [keys |-> ReplaceAt(x.keys, g, sub.e), kids |-> ReplaceAt(x.kids, c, sub.x)],
       e |-> x.keys[g]]

\* key g of x gives way to its neighbour below child c
DelReplaced(x, g, c, s) ==
  LET sub == DelAux(x.kids[c], x.keys[g], s)
  IN  [x |-> [keys |-> ReplaceAt(x.keys, g, sub.e), kids |-> ReplaceAt(x.kids, c, sub.x)],
       e |-> x.keys[g]]

\* where the descent goes from x, or which key of a leaf is removed
DelSlot(x, e, s) ==
  CASE s = 0 -> Smaller(x, e.key) + 1
    [] s = 1 -> IF Internal(x) THEN Len(x.kids) ELSE Len(x.keys)
    [] s = 2 -> 1

DelAux(x, e, s) ==
  LET g == DelSlot(x, e, s)
      Room(c) == Len(x.kids[c].keys) >= t
  IN  IF ~Internal(x) THEN [x |-> Leaf(RemoveAt(x.keys, g)), e |-> x.keys[g]]
      ELSE IF s # 0 \/ ~Found(x, e.key)
        THEN DelBelow(Enter(x, g)[1], Enter(x, g)[2], e, s)
      ELSE IF Room(g) THEN DelReplaced(x, g, g, 1)
      ELSE IF Room(g + 1) THEN DelReplaced(x, g, g + 1, 2)
      ELSE DelBelow(Merge(x, g, e), g, e, s)

(***************************************************************************)
(* __kb_traverse: the elements in order.                                   *)
(***************************************************************************)
RECURSIVE Traverse(_)

Traverse(x) ==
  IF Internal(x)
    THEN FlattenSeq([c \in DOMAIN x.kids |->
           Traverse(x.kids[c]) \o (IF c \in DOMAIN x.keys THEN <<x.keys[c]>> ELSE <<>>)])
    ELSE x.keys

(***************************************************************************)
(* The iterator's stack: nodes and, as in C, how many of a node's keys are *)
(* before the iterator, the top last.                                      *)
(***************************************************************************)
At(x, i) == [x |-> x, i |-> i]

RECURSIVE First(_), Seek(_, _, _), Down(_), Advance(_)

First(x) ==
  <<At(x, 0)>> \o (IF Internal(x) THEN First(x.kids[1]) ELSE <<>>)

\* kb_itr_get leaves in each node the index at which it left the one above
Seek(x, i, k) ==
  LET c == Smaller(x, k) + 1
  IN  <<At(x, i)>> \o
      (IF Found(x, k) \/ ~Internal(x) THEN <<>> ELSE Seek(x.kids[c], c - 2, k))

Down(stack) ==
  LET p == Last(stack)
  IN  IF p.x # Null /\ p.i <= Len(p.x.keys)
        THEN Down(Append(stack, At(IF Internal(p.x) THEN p.x.kids[p.i + 1] ELSE Null, 0)))
        ELSE stack

Advance_LastKeySkipped(stack) ==
  LET up == Front(Down([stack EXCEPT ![Len(stack)].i = @ + 1]))
  IN  IF up = <<>> \/ Last(up).i + 1 < Len(Last(up).x.keys)
        THEN up
        ELSE Advance(up)

\* what is left of the stack after popping is never a null pointer
Advance(stack) ==
  LET up == Front(Down([stack EXCEPT ![Len(stack)].i = @ + 1]))
  IN  IF up = <<>> \/ Last(up).i < Len(Last(up).x.keys)
        THEN up
        ELSE Advance(up)

(***************************************************************************)
(* Calls.  As in test.c, a client puts a key that getp did not find, and   *)
(* writes to or deletes an element it has a pointer to.  It does not       *)
(* change the tree while it iterates.                                      *)
(***************************************************************************)
Reset(o, k, p) == op' = o /\ arg' = k /\ ptr' = p /\ itr' = <<>>

Holds == ptr # <<>>

Init ==
  /\ t \in MinDegree
  /\ root = Leaf(<<>>) /\ nKeys = 0
  /\ op = "none" /\ arg = Null /\ ptr = <<>> /\ itr = <<>>

Get(k) ==
  /\ Reset("get", k, Getp(root, k))
  /\ UNCHANGED <<t, root, nKeys>>

Put(v) ==
  LET e == [key |-> arg, val |-> v]
      put == PutAux(IF Full(root) THEN Split([keys |-> <<>>, kids |-> <<root>>], 1) ELSE root, e)
  IN  /\ op = "get" /\ ~Holds
      /\ v \in Stored[arg]
      /\ root' = put.x
      /\ nKeys' = nKeys + 1
      /\ Reset("put", arg, put.path)
      /\ UNCHANGED t

\* the client's own key_t, with some value in it, is what delp compares with
Del(v) ==
  LET del == DelAux(root, [key |-> arg, val |-> v], 0)
  IN  /\ Holds
      /\ v \in Stored[arg]
      /\ root' = IF del.x.keys = <<>> /\ Internal(del.x) THEN del.x.kids[1] ELSE del.x
      /\ nKeys' = nKeys - 1
      /\ Reset("del", arg, <<>>)
      /\ UNCHANGED t

RECURSIVE Write(_, _, _)

\* node x with value v in the element path p leads to
Write(x, p, v) ==
  IF Len(p) = 1
    THEN [x EXCEPT !.keys[p[1]].val = v]
    ELSE [x EXCEPT !.kids[p[1]] = Write(@, Tail(p), v)]

SetVal(v) ==
  /\ Holds
  /\ v \in Stored[arg]
  /\ root' = Write(root, ptr, v)
  /\ UNCHANGED <<t, nKeys, op, arg, ptr, itr>>

ItrFirst ==
  /\ op' = "first" /\ arg' = Null /\ ptr' = <<>>
  /\ itr' = IF nKeys = 0 THEN <<>> ELSE First(root)
  /\ UNCHANGED <<t, root, nKeys>>

ItrGet(k) ==
  /\ op' = "seek" /\ arg' = Null /\ ptr' = <<>>
  /\ itr' = Seek(root, 0, k)
  /\ UNCHANGED <<t, root, nKeys>>

ItrNext ==
  /\ itr # <<>>
  /\ itr' = Advance(itr)
  /\ op' = IF op = "seek" THEN "seek" ELSE "next"
  /\ UNCHANGED <<t, root, nKeys, arg, ptr>>

DestroyInit ==
  /\ root' = Leaf(<<>>) /\ nKeys' = 0
  /\ Reset("clear", Null, <<>>)
  /\ UNCHANGED t

Next ==
  \/ \E k \in Key : Get(k)
  \/ \E k \in SeekKey : ItrGet(k)
  \/ \E v \in Val : Put(v) \/ Del(v) \/ SetVal(v)
  \/ ItrFirst \/ ItrNext \/ DestroyInit

Spec == Init /\ [][Next]_vars
=============================================================================
