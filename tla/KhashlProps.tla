----------------------------- MODULE KhashlProps -----------------------------
(***************************************************************************)
(* What makes the table of Khashl correct.                                 *)
(***************************************************************************)
EXTENDS Khashl

(***************************************************************************)
(* The buckets that hold an element: during del the hole does not, during  *)
(* resize an element is in its old place, in its new one, or in hand.      *)
(***************************************************************************)
Live == IF pc = "del" THEN used \ {i} ELSE used \cup newUsed

Elements ==
  {keys[x] : x \in Live} \cup (IF pc = "kick" THEN {hand} ELSE {})

Placed == [key : Key, val : Val]

Resizing == pc \in {"move", "kick"}

Larger(a, b) == IF a < b THEN b ELSE a

TypeOK ==
  /\ nBuckets \in Capacity \cup {0}
  /\ newBuckets \in Capacity \cup {0}
  /\ count \in Nat
  /\ used \subseteq Buckets(nBuckets)
  /\ newUsed \subseteq Buckets(newBuckets)
  /\ keys \in [Buckets(Larger(nBuckets, newBuckets)) -> Placed \cup {NoBucket}]
  /\ pc \in {"idle", "get", "put", "move", "kick", "del", "crashed"}
  /\ op \in {"none", "get", "put", "del", "resize", "clear"}
  /\ arg \in Key \cup {NoKey}
  /\ pos \in Nat /\ absent \in {-1, 0, 1}
  /\ i \in Nat /\ j \in Nat
  /\ hand \in Placed \cup {NoBucket}

\* The probe sequence of every element, from its home to its bucket, passes
\* only over flagged buckets.  It is what get relies on when it stops at the
\* first clear flag, and what the backward shift of del has to restore.
ProbeInvariant ==
  ~Resizing =>
    \A x \in used : Path(Home(keys[x].key, nBuckets), x, nBuckets) \subseteq used

\* The same of the table resize is building, at every turn of the kick-out.
NewProbeInvariant ==
  Resizing =>
    \A x \in newUsed : Path(Home(keys[x].key, newBuckets), x, newBuckets) \subseteq newUsed

\* No key is in two buckets, or in a bucket and in hand.
UniqueKeys ==
  /\ \A x, y \in Live : keys[x].key = keys[y].key => x = y
  /\ pc = "kick" => \A x \in Live : keys[x].key # hand.key

\* h->count is the number of elements, wherever resize has put them, and the
\* load limit leaves a clear flag for every probe to stop at.
CountIsElements ==
  /\ count = Cardinality(used) + Cardinality(newUsed) + (IF pc = "kick" THEN 1 ELSE 0)
  /\ count <= MaxCount(nBuckets)

\* An index get or put returned designates the element of the key asked for,
\* and a get that returned the end index was right: the key is not there.
AnswerIsRight ==
  /\ Holds => pos \in used /\ keys[pos].key = arg
  /\ pc = "idle" /\ op = "get" /\ pos = nBuckets =>
       \A x \in used : keys[x].key # arg

(***************************************************************************)
(* The invariants of the loops, which the above rest on.                   *)
(***************************************************************************)
CallShape ==
  /\ op \in {"get", "put"} => arg \in Key
  /\ pc = "get" => op = "get"
  /\ pc = "put" => op = "put"
  /\ Resizing => op \in {"put", "resize"}
  /\ ~Resizing => newUsed = {} /\ newBuckets = 0

\* get and put have passed only over elements with another key
ProbeLoop ==
  pc \in {"get", "put"} =>
    /\ i \in Buckets(nBuckets)
    /\ \A b \in Path(Home(arg, nBuckets), i, nBuckets) :
         b \in used /\ keys[b].key # arg
    /\ pc = "put" => count < MaxCount(nBuckets)

\* resize has emptied the buckets below j, never loses an element it has not
\* moved yet, and looks for the place of the one in hand within the new table
MoveLoop ==
  Resizing =>
    /\ newBuckets \in Capacity
    /\ used \cap newUsed = {}
    /\ count <= MaxCount(newBuckets)
    /\ op = "put" => count < MaxCount(newBuckets)
    /\ j <= nBuckets
    /\ \A x \in used : x >= j
    /\ pc = "kick" =>
         /\ j < nBuckets /\ j \notin used
         /\ i \in Buckets(newBuckets)
         /\ Path(Home(hand.key, newBuckets), i, newBuckets) \subseteq newUsed

\* no element between the hole i and the scan position j needs the hole
DelLoop ==
  pc = "del" =>
    /\ i \in used /\ j \in Buckets(nBuckets)
    /\ \A x \in used \ {i} :
         Dist(i, x, nBuckets) <= Dist(i, j, nBuckets) =>
           i \notin Path(Home(keys[x].key, nBuckets), x, nBuckets)

\* Every bucket whose flag is set lies in the array and holds an element: the
\* kick-out writes only where resize has made room, and nothing is ever read
\* from a bucket that was never written.
FlaggedIsPlaced ==
  /\ \A x \in used \cup newUsed : x \in DOMAIN keys /\ keys[x] \in Placed
  /\ pc = "kick" => hand \in Placed

\* Every index the next turn of a loop reads or writes with, and the one a
\* client holds, lies in the array it is used on: the flags of the old table,
\* those of the new one, and the bucket array, which has room for both.
IndicesInBounds ==
  /\ Buckets(nBuckets) \cup Buckets(newBuckets) \subseteq DOMAIN keys
  /\ pc \in {"get", "put"} => i \in Buckets(nBuckets)
  /\ pc = "move" /\ j # nBuckets => j \in Buckets(nBuckets)
  /\ pc = "kick" => i \in Buckets(newBuckets) /\ j \in Buckets(nBuckets)
  /\ pc = "del" => {i, j, NextBucket(j, nBuckets)} \subseteq Buckets(nBuckets)
  /\ Holds => pos \in Buckets(nBuckets)

LoopInvariant == CallShape /\ ProbeLoop /\ MoveLoop /\ DelLoop

IInv ==
  /\ TypeOK /\ FlaggedIsPlaced /\ LoopInvariant
  /\ ProbeInvariant /\ NewProbeInvariant
  /\ UniqueKeys /\ CountIsElements /\ AnswerIsRight

(***************************************************************************)
(* Khashl implements Dict.                                                 *)
(***************************************************************************)
Reply ==
  CASE pc = "idle" /\ op = "get" ->
         [op |-> "get", key |-> arg, found |-> pos # nBuckets]
    [] pc = "idle" /\ op = "put" ->
         [op |-> "put", key |-> arg,
          status |-> CASE absent = 1 -> "absent"
                       [] absent = 0 -> "present"
                       [] OTHER -> "noMemory"]
    [] pc = "idle" /\ op = "clear" -> [op |-> "clear"]
    [] pc = "del" -> [op |-> "del", key |-> arg]
    [] OTHER -> [op |-> "none"]

D == INSTANCE Dict WITH dict <- Elements, reply <- Reply

\* Every step of the table is a step of the map or invisible: no call but
\* put, del, clear and kh_val changes the bindings, and every answer is the
\* map's.
ImplementsDict == D!Spec

\* A call returns, unless the flag array cannot be allocated: the probe loops,
\* the kick-out and the backward shift end.
CallReturns == pc # "idle" ~> pc \in {"idle", "crashed"}

\* resize answers -1 when memory is short, so that no call stops the program.
MemoryShortageIsReported == pc # "crashed"

=============================================================================
