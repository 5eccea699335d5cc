---------------------------- MODULE KbtreeProps ----------------------------
(***************************************************************************)
(* What makes the B-tree of Kbtree correct.                                *)
(***************************************************************************)
EXTENDS Kbtree, FiniteSets

RECURSIVE Nodes(_), Depth(_), ElementsOf(_)

Nodes(x) == {x} \cup UNION {Nodes(x.kids[c]) : c \in DOMAIN x.kids}

Depth(x) == IF Internal(x) THEN 1 + Depth(x.kids[1]) ELSE 0

ElementsOf(x) ==
  ToSet(x.keys) \cup UNION {ElementsOf(x.kids[c]) : c \in DOMAIN x.kids}

Elements == ElementsOf(root)

\* The tree's variables keep their types, and no node outgrows its arrays.
TypeOK ==
  /\ t \in MinDegree
  /\ \A x \in Nodes(root) :
       /\ \A c \in DOMAIN x.keys : x.keys[c] \in Element
       /\ Len(x.keys) <= 2 * t - 1
  /\ nKeys \in Nat
  /\ op \in {"none", "get", "put", "del", "first", "seek", "next", "clear"}
  /\ arg \in Key \cup {Null}
  /\ ptr \in Seq(Nat)
  /\ \A p \in DOMAIN itr : itr[p].x \in Nodes(root) /\ itr[p].i \in Int

\* What makes the tree a B-tree, after whatever splits, loans and mergers: all
\* leaves are equally deep, so that kb_init's t bounds the depth, which must
\* stay below KB_MAX_DEPTH; every node but the root is at least half full, which
\* deletion relies on when it takes a key from a neighbour; and __kb_traverse
\* meets all elements, in strictly increasing order across the nodes.
IsBTree ==
  /\ \A x \in Nodes(root) :
       Internal(x) =>
         /\ Len(x.kids) = Len(x.keys) + 1
         /\ \A c \in DOMAIN x.kids :
              /\ Len(x.kids[c].keys) >= t - 1
              /\ Depth(x.kids[c]) = Depth(x.kids[1])
  /\ Internal(root) => root.keys # <<>>
  /\ LET s == Traverse(root)
     IN  /\ \A c \in 1..(Len(s) - 1) : s[c].key < s[c + 1].key
         /\ ToSet(s) = Elements

\* kb_size is the number of elements: none is lost or left behind when nodes
\* are split or merged around it.
SizeIsElements == nKeys = Cardinality(Elements)

\* After every call the tree is a B-tree of the degree kb_init chose, its nodes
\* within their arrays, and kb_size counts its elements.
TreeIsSound == TypeOK /\ IsBTree /\ SizeIsElements

Least(S) == CHOOSE e \in S : \A f \in S : e.key <= f.key

Greatest(S) == CHOOSE e \in S : \A f \in S : f.key <= e.key

\* kb_interval gives the nearest element on each side of a key, though each may
\* come from any level of the descent: the key's own element, if it has one.
IntervalIsTight ==
  LET Bindings == Elements
      Lower(k) == {e \in Bindings : e.key <= k}
      Upper(k) == {e \in Bindings : e.key >= k}
  IN  \A k \in Key :
        Interval(root, k, Null, Null) =
          <<IF Lower(k) = {} THEN Null ELSE Greatest(Lower(k)),
            IF Upper(k) = {} THEN Null ELSE Least(Upper(k))>>

\* kb_itr_key
ItrKey(stack) == Last(stack).x.keys[Last(stack).i + 1]

\* An iteration begins with the least element, goes from each to the next, from
\* leaf to root and down again, and ends after the greatest.
IterationInOrder ==
  [][/\ op' = "first" =>
          IF Elements = {} THEN itr' = <<>> ELSE ItrKey(itr') = Least(Elements)
     /\ op' = "next" =>
          LET After == {e \in Elements : e.key > ItrKey(itr).key}
          IN  IF After = {} THEN itr' = <<>>
              ELSE itr' # <<>> /\ ItrKey(itr') = Least(After)]_<<op, itr>>

(***************************************************************************)
(* The tree is the abstract map Dict to a client that puts only what getp  *)
(* did not find.                                                           *)
(***************************************************************************)
Reply ==
  CASE op = "get" -> [op |-> "get", key |-> arg, found |-> Holds]
    [] op = "put" -> [op |-> "put", key |-> arg, status |-> "absent"]
    [] op = "del" -> [op |-> "del", key |-> arg]
    [] op = "clear" -> [op |-> "clear"]
    [] OTHER -> [op |-> "none"]

D == INSTANCE Dict WITH dict <- Elements, reply <- Reply

\* The bindings change by put, del and writes through returned pointers alone,
\* as those of a map do, and getp finds what is bound.
ImplementsDict == D!Spec
=============================================================================
