----------------------------- MODULE KavlProps -----------------------------
(***************************************************************************)
(* What makes the AVL tree of Kavl correct, and what its documentation     *)
(* says of it that the code does not do.                                   *)
(***************************************************************************)
EXTENDS Kavl

\* the nodes of the subtree of x
Below[x \in Key \cup {Null}] ==
  IF x = Null THEN {} ELSE {x} \cup Below[head[x].p[0]] \cup Below[head[x].p[1]]

Height[x \in Key \cup {Null}] ==
  IF x = Null THEN 0
  ELSE LET l == Height[head[x].p[0]]
           r == Height[head[x].p[1]]
       IN  1 + IF l < r THEN r ELSE l

Nodes == Below[root]

\* The tree's variables keep their types: in particular no balance factor
\* outgrows -1..1 between two calls, and the iterator's stack is a path.
TypeOK ==
  /\ session \in Session
  /\ head \in [Key \cup {Root} -> [p : [0..1 -> Key \cup {Null}], balance : -1..1, size : Nat]]
  /\ op \in {"none", "insert", "erase", "first", "free",
             "itrFirst", "itrFind", "itrNext", "itrPrev"}
  /\ arg \in Key \cup {Null} /\ result \in Key \cup {Null} /\ cnt \in Nat
  /\ \A n \in DOMAIN itr :
       /\ itr[n] \in Nodes
       /\ n > 1 => \E d \in 0..1 : head[itr[n - 1]].p[d] = itr[n]

\* After any insertion and deletion every node's balance factor is the
\* difference of its subtrees' heights, so that the rotations, which look at
\* balance factors only, keep the tree within KAVL_MAX_DEPTH.
BalanceIsHeight ==
  \A x \in Nodes :
    head[x].balance = Height[head[x].p[1]] - Height[head[x].p[0]]

\* The size field of every node counts its subtree, through every rotation and
\* replacement: kavl_size and all ranks are computed from it.
SizesAreRight == \A x \in Nodes : head[x].size = Cardinality(Below[x])

\* After every call the tree is an AVL tree whose nodes know their heights'
\* difference and their sizes: what the next rotation goes by.
IsAVLTree == TypeOK /\ BalanceIsHeight /\ SizesAreRight

Least(S) == IF S = {} THEN Null ELSE CHOOSE x \in S : \A y \in S : x <= y

Greatest(S) == IF S = {} THEN Null ELSE CHOOSE x \in S : \A y \in S : y <= x

\* kavl_find finds exactly the keys of the tree and counts those up to the one
\* it is given, and kavl_interval gives the nearest neighbours.
LookupsAreRight ==
  LET S == Nodes
  IN  \A k \in Key :
        /\ Find(head, k) = (IF k \in S THEN k ELSE Null)
        /\ Rank(head, k) = Cardinality({x \in S : x <= k})
        /\ Interval(head, k) =
             <<Greatest({x \in S : x <= k}), Least({x \in S : x >= k})>>

\* kavl_free frees every node once, though it takes the tree apart as it goes.
FreesEachOnce ==
  LET freed == Free(head)
  IN  ToSet(freed) = Nodes /\ Len(freed) = Cardinality(Nodes)

\* kavl_at
ItrAt(stack) == IF stack = <<>> THEN Null ELSE Last(stack)

\* An iteration begins with the least node; each move goes to the nearest node
\* on its side, whatever moves came before, and ends only if there is none.
IterationInOrder ==
  [][/\ op' = "itrFirst" => ItrAt(itr') = Least(Nodes)
     /\ op' = "itrNext" => ItrAt(itr') = Least({x \in Nodes : x > ItrAt(itr)})
     /\ op' = "itrPrev" => ItrAt(itr') = Greatest({x \in Nodes : x < ItrAt(itr)})]_<<op, itr>>

\* kavl_itr_find places the iterator at the object equal to or greater than the
\* query, and kavl_at is NULL if and only if there is none.
FindIsAtOrAfter ==
  op = "itrFind" => ItrAt(itr) = Least({x \in Nodes : x >= arg})

(***************************************************************************)
(* The tree is a set with ranks.                                           *)
(***************************************************************************)
Reply ==
  IF op \in {"insert", "erase", "first"}
    THEN [op |-> op, key |-> arg, element |-> result, rank |-> cnt]
    ELSE [op |-> "none", key |-> Null, element |-> Null, rank |-> 0]

R == INSTANCE RankedSet WITH None <- Null, set <- Nodes, reply <- Reply

\* Every call inserts or removes what it says, nothing else, and returns the
\* node and the rank that the set says it has.
ImplementsRankedSet == R!Spec
=============================================================================
