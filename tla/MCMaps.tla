------------------------------- MODULE MCMaps --------------------------------
(***************************************************************************)
(* Instances of KhashEns and of KbtreeProps for TLC, one or the other: two *)
(* containers that are shown to be a Dict call by call.                    *)
(***************************************************************************)
EXTENDS KhashEns

CONSTANT Null

VARIABLES
  container,     \* "khashe" or "kbtree"
  \* Kbtree's t, root, n_keys, last call and iterator
  degree, root, nKeys, op, arg, ptr, itr

tree == <<degree, root, nKeys, op, arg, ptr, itr>>

\* a key is its own hash
MCHash == [k \in Key |-> k]

\* With t = 2, three levels whose inner nodes lend, borrow and merge.  Each key
\* has its own value, and one a second one.
KbtreeKey == 1..9
Kbtree == INSTANCE KbtreeProps WITH
  Key <- KbtreeKey, Val <- KbtreeKey \cup {104},
  Stored <- [k \in KbtreeKey |-> IF k = 4 THEN {4, 104} ELSE {k}],
  SeekKey <- {5}, MinDegree <- {2, 3}, t <- degree

MapsInit ==
  /\ Init /\ Kbtree!Init
  /\ \/ container = "khashe" /\ degree = 2
     \/ container = "kbtree"

MapsNext ==
  /\ UNCHANGED container
  /\ \/ container = "khashe" /\ Next /\ UNCHANGED tree
     \/ container = "kbtree" /\ Kbtree!Next /\ UNCHANGED vars

MapsSpec == MapsInit /\ [][MapsNext]_<<container, vars, tree>>

(***************************************************************************)
(* kbtree's properties, which KbtreeProps explains.                        *)
(***************************************************************************)
\* kbtree: after every call the tree is a B-tree of the degree kb_init chose,
\* its nodes within their arrays, and kb_size counts its elements.
TreeIsSound == Kbtree!TreeIsSound

\* kbtree: kb_interval gives the nearest element on each side of a key.
IntervalIsTight == Kbtree!IntervalIsTight

\* kbtree: an iteration goes from each element to the next, and ends.
KbtreeIterationInOrder == Kbtree!IterationInOrder

\* kbtree: the bindings change by put, del and writes through returned pointers
\* alone, as those of a map do, and getp finds what is bound.
KbtreeImplementsDict == Kbtree!ImplementsDict
=============================================================================
