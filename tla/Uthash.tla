------------------------------- MODULE Uthash -------------------------------
(***************************************************************************)
(* uthash (uthash/uthash.h): chained buckets of the client's own elements. *)
(*                                                                         *)
(* Every element carries a handle with four links: prev and next for the   *)
(* order of insertion ("app order"), hh_prev and hh_next for the chain of  *)
(* its bucket.  An element is named by its key; the null pointer is Null.  *)
(* A call is one step.  malloc may fail, as in a build with                *)
(* HASH_NONFATAL_OOM.                                                      *)
(***************************************************************************)
EXTENDS Integers, Sequences, FiniteSets

CONSTANTS
  Key, Null,
  Stored,          \* the values clients give each key
  Hash,            \* HASH_FUNCTION: the hashv of each key
  InitialBuckets,  \* HASH_INITIAL_NUM_BUCKETS
  Threshold,       \* HASH_BKT_CAPACITY_THRESH
  MaxBuckets,      \* bound: no expansion beyond
  Selected,        \* the elements cond(elt) of HASH_SELECT is true of
  ClientTables     \* the tables a client adds to and deletes from:
                   \* "src", and "dst", which HASH_SELECT fills

VARIABLES
  t,               \* the two tables and the elements' values
  answer           \* what the last call said

vars == <<t, answer>>

Said(op, k, found, vals) == [op |-> op, key |-> k, found |-> found, vals |-> vals]
Silent == [op |-> "none"]

Unlinked == [prev |-> Null, next |-> Null, hh_prev |-> Null, hh_next |-> Null]

EmptyBuckets(n) == [b \in 0..(n-1) |-> [hh_head |-> Null, count |-> 0, expand_mult |-> 0]]

\* a head pointer that is null, and no table behind it
NoTable == [head |-> Null, tail |-> Null, num_items |-> 0, ineff |-> 0,
            noexpand |-> FALSE, buckets |-> <<>>, hh |-> [k \in Key |-> Unlinked]]

\* HASH_TO_BKT
BucketOf(k, buckets) == Hash[k] % Cardinality(DOMAIN buckets)

\* the elements met from k on along a link; a chain has at most one of each
RECURSIVE Along(_, _, _, _)
Along(hh, link, k, most) ==
  IF k = Null \/ most = 0 THEN <<>>
  ELSE <<k>> \o Along(hh, link, hh[k][link], most - 1)

Follow(hh, link, k) == Along(hh, link, k, Cardinality(Key) + 1)
AppOrder(T) == Follow(T.hh, "next", T.head)
Chain(T, b) == Follow(T.hh, "hh_next", T.buckets[b].hh_head)

\* set one link of an element, unless the pointer to it is null
Link(hh, k, link, to) == IF k = Null THEN hh ELSE [hh EXCEPT ![k][link] = to]

\* HASH_FIND_IN_BKT: the element of key k in its bucket, or Null
Lookup(T, k) ==
  IF T.head # Null /\ k \in {Chain(T, BucketOf(k, T.buckets))[i] :
                               i \in DOMAIN Chain(T, BucketOf(k, T.buckets))}
  THEN k ELSE Null

(***************************************************************************)
(* The chains.                                                             *)
(***************************************************************************)
\* in front of the chain of bucket b
PushFront_NoBackLink(T, k, b) ==
  LET first == T.buckets[b].hh_head
  IN  [T EXCEPT
        !.buckets[b] = [@ EXCEPT !.hh_head = k, !.count = @ + 1],
        !.hh = [@ EXCEPT ![k].hh_next = first, ![k].hh_prev = Null]]

PushFront(T, k, b) ==
  LET first == T.buckets[b].hh_head
  IN  [T EXCEPT
        !.buckets[b] = [@ EXCEPT !.hh_head = k, !.count = @ + 1],
        !.hh = Link([@ EXCEPT ![k].hh_next = first, ![k].hh_prev = Null],
                    first, "hh_prev", k)]

\* HASH_DEL_IN_BKT
DelInBkt(T, k) ==
  LET e == T.hh[k]
  IN  [T EXCEPT
        !.buckets[BucketOf(k, T.buckets)] =
           [@ EXCEPT !.count = @ - 1, !.hh_head = IF @ = k THEN e.hh_next ELSE @],
        !.hh = Link(Link(@, e.hh_prev, "hh_next", e.hh_next),
                    e.hh_next, "hh_prev", e.hh_prev)]

CeilDiv(a, b) == (a + b - 1) \div b

\* An item goes to its new bucket; one beyond the ideal length of a chain is
\* counted and makes that bucket slower to ask for the next expansion.
Redistribute(T, ideal, k) ==
  LET b == BucketOf(k, T.buckets)
      U == PushFront(T, k, b)
      count == U.buckets[b].count
  IN  IF count <= ideal THEN U
      ELSE [U EXCEPT !.nonideal = @ + 1,
                     !.buckets[b].expand_mult =
                        IF count > @ * ideal THEN @ + 1 ELSE @]

RECURSIVE RedistributeAll(_, _, _)
RedistributeAll(T, ideal, items) ==
  IF items = <<>> THEN T
  ELSE RedistributeAll(Redistribute(T, ideal, Head(items)), ideal, Tail(items))

RECURSIVE AllChains(_, _)
AllChains(T, b) ==
  IF b \notin DOMAIN T.buckets THEN <<>> ELSE Chain(T, b) \o AllChains(T, b + 1)

\* HASH_EXPAND_BUCKETS; two expansions in a row that leave more than half of
\* the items beyond the ideal are the last ones
Expand(T) ==
  LET n == 2 * Cardinality(DOMAIN T.buckets)
      ideal == CeilDiv(T.num_items, n)
      blank == [head |-> T.head, tail |-> T.tail, num_items |-> T.num_items,
                buckets |-> EmptyBuckets(n), hh |-> T.hh, nonideal |-> 0]
      U == RedistributeAll(blank, ideal, AllChains(T, 0))
      ineff == IF U.nonideal > T.num_items \div 2 THEN T.ineff + 1 ELSE 0
  IN  [head |-> U.head, tail |-> U.tail, num_items |-> U.num_items,
       ineff |-> ineff, noexpand |-> ineff > 1, buckets |-> U.buckets, hh |-> U.hh]

WantsExpansion(T, b) ==
  /\ T.buckets[b].count >= (T.buckets[b].expand_mult + 1) * Threshold
  /\ ~T.noexpand

(***************************************************************************)
(* The app order.                                                          *)
(***************************************************************************)
\* HASH_MAKE_TABLE for a first element
MakeTable(k) ==
  [NoTable EXCEPT !.head = k, !.tail = k, !.buckets = EmptyBuckets(InitialBuckets)]

\* HASH_APPEND_LIST
AppendToList(T, k) ==
  [T EXCEPT !.hh = [@ EXCEPT ![k].prev = T.tail, ![k].next = Null, ![T.tail].next = k],
            !.tail = k]

\* in front of element "at"
InsertBefore(T, k, at) ==
  LET before == T.hh[at].prev
  IN  [T EXCEPT
        !.head = IF before = Null THEN k ELSE @,
        !.hh = Link([@ EXCEPT ![k].next = at, ![k].prev = before, ![at].prev = k],
                    before, "next", k)]

\* HASH_AKBI_INNER_LOOP: where an element goes that keeps the keys ascending
InsertInOrder(T, k) ==
  LET order == AppOrder(T)
      greater == {i \in DOMAIN order : order[i] > k}
  IN  IF greater = {} THEN AppendToList(T, k)
      ELSE InsertBefore(T, k, order[CHOOSE i \in greater : \A j \in greater : i <= j])

\* HASH_DELETE_HH: the last element takes the table with it
DeleteHH(T, k) ==
  LET e == T.hh[k]
      U == [T EXCEPT
             !.tail = IF @ = k THEN e.prev ELSE @,
             !.head = IF e.prev = Null THEN e.next ELSE @,
             !.hh = Link(Link(@, e.prev, "next", e.next), e.next, "prev", e.prev)]
      V == DelInBkt(U, k)
  IN  IF e.prev = Null /\ e.next = Null THEN NoTable
      ELSE [V EXCEPT !.num_items = @ - 1, !.hh[k] = Unlinked]

\* HASH_ROLLBACK_BKT: the bucket as it was before DelInBkt, but without the
\* element, so that DeleteHH can take the element out once more
Rollback(T, k) ==
  [T EXCEPT !.buckets[BucketOf(k, T.buckets)].count = @ + 1,
            !.hh = [@ EXCEPT ![k].hh_next = Null, ![k].hh_prev = Null]]

\* HASH_ADD_TO_BKT, and what its callers do when it found no memory
AddToBucket(T, k, counted, oom) ==
  LET b == BucketOf(k, T.buckets)
      U == PushFront(T, k, b)
      More(W) == [W EXCEPT !.num_items = @ + counted]
  IN  IF ~WantsExpansion(U, b) THEN More(U)
      ELSE IF ~oom THEN More(Expand(U))
      ELSE DeleteHH(Rollback(More(DelInBkt(U, k)), k), k)

\* HASH_ADD_KEYPTR_BYHASHVALUE and its variant that keeps an order
Added(T, k, inorder, oom) ==
  LET U == IF T.head = Null THEN MakeTable(k)
           ELSE IF inorder THEN InsertInOrder(T, k) ELSE AppendToList(T, k)
  IN  IF T.head = Null /\ oom THEN T
      ELSE AddToBucket([U EXCEPT !.num_items = @ + 1], k, 0, oom)

(***************************************************************************)
(* The calls.                                                              *)
(***************************************************************************)
Init ==
  /\ t = [src |-> NoTable, dst |-> NoTable, val |-> [k \in Key |-> Null]]
  /\ answer = Silent

WithinBound(T) == Cardinality(DOMAIN T.buckets) <= MaxBuckets

Holds(s, k) == Lookup(t[s], k) # Null

\* HASH_FIND
Find(k) ==
  /\ answer' = Said("find", k, Holds("src", k),
                    IF Holds("src", k) THEN {t.val[k]} ELSE {})
  /\ UNCHANGED t

\* HASH_ADD, HASH_ADD_INORDER: the client has looked for the key before
Add(s, k, v, inorder, oom) ==
  LET T == Added(t[s], k, inorder, oom)
  IN  /\ ~Holds(s, k)
      /\ s = "dst" => Holds("src", k)
      /\ WithinBound(T)
      /\ t' = [t EXCEPT ![s] = T, !.val[k] = IF s = "src" /\ T # t[s] THEN v ELSE @]
      /\ answer' = IF s = "src" /\ T.num_items > t[s].num_items
                     THEN Said("insert", k, FALSE, {}) ELSE Silent

\* HASH_REPLACE: the old element is out before memory is asked for
Replace(k, v, oom) ==
  LET T == Added(IF Holds("src", k) THEN DeleteHH(t.src, k) ELSE t.src, k, FALSE, oom)
      stays == Lookup(T, k) # Null
  IN  /\ ~Holds("dst", k)
      /\ WithinBound(T)
      /\ t' = [t EXCEPT !.src = T, !.val[k] = IF stays THEN v ELSE Null]
      /\ answer' = IF stays THEN Said("assign", k, TRUE, {v})
                   ELSE Said("erase", k, Holds("src", k), {})

\* HASH_DELETE of an element the client holds
Delete(s, k) ==
  /\ Holds(s, k)
  /\ s = "src" => ~Holds("dst", k)
  /\ t' = [t EXCEPT ![s] = DeleteHH(t[s], k), !.val[k] = IF s = "src" THEN Null ELSE @]
  /\ answer' = IF s = "src" THEN Said("erase", k, TRUE, {}) ELSE Silent

(***************************************************************************)
(* HASH_SRT: merge sort of the app order from the bottom up, runs of n.    *)
(***************************************************************************)
RECURSIVE Merge(_, _), MergePass(_, _), MergeSort(_, _)

Merge(p, q) ==
  IF p = <<>> THEN q ELSE IF q = <<>> THEN p
  ELSE IF Head(p) <= Head(q) THEN <<Head(p)>> \o Merge(Tail(p), q)
  ELSE <<Head(q)>> \o Merge(p, Tail(q))

MergePass(s, n) ==
  IF s = <<>> THEN <<>>
  ELSE LET end(i) == IF i < Len(s) THEN i ELSE Len(s)
       IN  Merge(SubSeq(s, 1, end(n)), SubSeq(s, n + 1, end(2 * n)))
             \o MergePass(SubSeq(s, 2 * n + 1, Len(s)), n)

MergeSort(s, n) == IF Len(s) <= n THEN s ELSE MergeSort(MergePass(s, n), 2 * n)

InAppOrder(T, s) ==
  LET place(k) == CHOOSE i \in DOMAIN s : s[i] = k
      at(i) == IF i \in DOMAIN s THEN s[i] ELSE Null
  IN  [T EXCEPT
        !.head = s[1], !.tail = s[Len(s)],
        !.hh = [k \in Key |->
                  IF \E i \in DOMAIN s : s[i] = k
                    THEN [@[k] EXCEPT !.prev = at(place(k) - 1), !.next = at(place(k) + 1)]
                    ELSE @[k]]]

Sort ==
  /\ t.src.head # Null
  /\ t' = [t EXCEPT !.src = InAppOrder(@, MergeSort(AppOrder(@), 1))]
  /\ answer' = Silent

(***************************************************************************)
(* HASH_SELECT: in the order of the source's chains; the destination's     *)
(* tail stays where HASH_MAKE_TABLE or the client left it.                 *)
(***************************************************************************)
SelectOne(s, k, oom) ==
  LET linked == [s.T EXCEPT !.hh = Link([@ EXCEPT ![k].prev = s.last, ![k].next = Null],
                                        s.last, "next", k)]
      U == IF s.T.head = Null THEN MakeTable(k) ELSE linked
      W == AddToBucket(U, k, 1, oom)
  IN  IF s.T.head = Null /\ oom THEN s
      ELSE [T |-> W, last |-> IF Lookup(W, k) # Null THEN k ELSE s.last]

RECURSIVE SelectAll(_, _, _)
SelectAll(s, items, oom) ==
  IF items = <<>> THEN s
  ELSE SelectAll(IF Head(items) \in Selected THEN SelectOne(s, Head(items), oom) ELSE s,
                 Tail(items), oom)

Select(oom) ==
  LET T == SelectAll([T |-> t.dst, last |-> Null], AllChains(t.src, 0), oom).T
  IN  /\ t.src.head # Null /\ t.dst.head = Null
      /\ WithinBound(T)
      /\ t' = [t EXCEPT !.dst = T]
      /\ answer' = Silent

\* HASH_CLEAR
Clear(s) ==
  /\ s = "src" => t.dst.head = Null
  /\ t' = [t EXCEPT ![s] = NoTable,
                    !.val = IF s = "src" THEN [k \in Key |-> Null] ELSE @]
  /\ answer' = IF s = "src" THEN [op |-> "clear"] ELSE Silent

Next ==
  \/ \E k \in Key : Find(k)
  \/ \E s \in ClientTables, k \in Key, inorder, oom \in BOOLEAN : \E v \in Stored[k] :
       Add(s, k, v, inorder, oom)
  \/ \E k \in Key, oom \in BOOLEAN : \E v \in Stored[k] : Replace(k, v, oom)
  \/ \E s \in ClientTables, k \in Key : Delete(s, k)
  \/ \E oom \in BOOLEAN : Select(oom)
  \/ \E s \in {"src", "dst"} : Clear(s)
  \/ Sort

Spec == Init /\ [][Next]_vars

(***************************************************************************)
(* What is checked.                                                        *)
(***************************************************************************)
Items(T) == UNION {{Chain(T, b)[i] : i \in DOMAIN Chain(T, b)} : b \in DOMAIN T.buckets}

RECURSIVE SumOfCounts(_, _)
SumOfCounts(buckets, b) ==
  IF b \notin DOMAIN buckets THEN 0 ELSE buckets[b].count + SumOfCounts(buckets, b + 1)

\* the elements s[1], s[2], ... point back to one another
PointBack(hh, s, link) ==
  \A i \in DOMAIN s : hh[s[i]][link] = IF i = 1 THEN Null ELSE s[i - 1]

\* The first half of HASH_FSCK: every chain can be walked both ways and is as
\* long as its bucket's count, and the counts add up to num_items.
ChainsAreSound(T) ==
  /\ \A b \in DOMAIN T.buckets :
       /\ PointBack(T.hh, Chain(T, b), "hh_prev")
       /\ Len(Chain(T, b)) = T.buckets[b].count
  /\ SumOfCounts(T.buckets, 0) = T.num_items

\* The second half: the app order can be walked both ways and has num_items.
AppOrderIsSound(T) ==
  /\ PointBack(T.hh, AppOrder(T), "prev")
  /\ Len(AppOrder(T)) = T.num_items

\* HASH_FSCK, which a debug build runs after every call (uthash.h:510)
Fsck(T) == ChainsAreSound(T) /\ AppOrderIsSound(T)

\* Beyond HASH_FSCK: both walks visit the same elements, each of them in the
\* bucket its hash asks for, and the tail is the last in app order.
TableIsSound(T) ==
  /\ Fsck(T)
  /\ Items(T) = {AppOrder(T)[i] : i \in DOMAIN AppOrder(T)}
  /\ \A b \in DOMAIN T.buckets : \A i \in DOMAIN Chain(T, b) :
       BucketOf(Chain(T, b)[i], T.buckets) = b
  /\ T.head # Null => T.tail = AppOrder(T)[T.num_items]

Bindings == {[key |-> k, val |-> t.val[k]] : k \in Items(t.src)}
=============================================================================
