--------------------------- MODULE HashTrieProps ---------------------------
(***************************************************************************)
(* What makes the trie of HashTrie correct.                                *)
(***************************************************************************)
EXTENDS HashTrie

\* The pointers that are there to be followed.
Slots == {Root} \cup {m \in Addr \X Digit : heap[m[1]] # Null}

\* The nodes some pointer leads to.
Published == {At(m) : m \in Slots} \ {Null}

TypeOK ==
  /\ root \in Addr \cup {Null}
  /\ heap \in [Addr -> Node \cup {Null}]
  /\ arena \in [Thread -> 0..ArenaSize]
  /\ aborted \in BOOLEAN
  /\ pc \in [Thread -> {"idle", "load", "alloc", "swap"}]
  /\ key \in [Thread -> Key]
  /\ insert \in [Thread -> BOOLEAN]
  /\ slot \in [Thread -> {Root} \cup (Addr \X Digit)]
  /\ depth \in [Thread -> Nat]
  /\ new \in [Thread -> Addr \cup {Null}]
  /\ result \in [Thread -> Addr \cup {Null}]

\* The nodes the loop of upsert(k) meets, turn by turn, in the trie of root r
\* and nodes h.
Path(r, h, k) ==
  LET at[d \in Nat] ==
        IF d = 0 THEN r
        ELSE IF at[d - 1] = Null THEN Null
        ELSE h[at[d - 1]].child[DigitAt(k, d - 1)]
  IN  at

Walk(k) == Path(root, heap, k)

\* Racing inserts of one key publish one node: all callers of upsert with the
\* same key get the same value to update.
OneNodePerKey ==
  \A a, b \in Published : heap[a].key = heap[b].key => a = b

\* Every published node is on the path of its key, where upsert will look for
\* it, whatever hash prefixes it shares with other keys, and no deeper than
\* there are other nodes.
OnItsPath ==
  \A a \in Published : \E d \in 0..(Cardinality(Published) - 1) : Walk(heap[a].key)[d] = a

\* Two pointers never lead to one node.
IsATree ==
  /\ IsFiniteSet(Published)
  /\ \A m, n \in Slots : At(m) = At(n) /\ At(m) # Null => m = n

\* Rolling the arena back after a lost race never frees a node that other
\* threads can reach, and no published node is still waiting to be.
PublishedIsAllocated ==
  \A a \in Published : a[2] < arena[a[1]] /\ \A t \in Thread : new[t] # a

\* What a thread rolls back is the last node of its arena, which nobody has
\* seen: it is as it was allocated.  All other nodes are in the trie.
RollbackIsPrivate ==
  /\ \A a \in Addr : /\ heap[a] # Null <=> a[2] < arena[a[1]]
                     /\ heap[a] # Null => a \in Published \/ a = new[a[1]]
  /\ \A t \in Thread :
       IF pc[t] = "swap"
         THEN new[t] = <<t, arena[t] - 1>> /\ new[t] \in Addr /\ heap[new[t]] = FreshNode(key[t])
         ELSE new[t] = Null

\* The pointer that the loop of upsert(k) loads in its turn d.
PlaceOn(k, d) == IF d = 0 THEN Root ELSE <<Walk(k)[d - 1], DigitAt(k, d - 1)>>

\* A search for k may load place m in its turn d: the nodes it has passed have
\* other keys, and there are no fewer of them than turns.
Reached(k, m, d) ==
  /\ d <= Cardinality(Published)
  /\ m = PlaceOn(k, d)
  /\ \A e \in 0..(d - 1) : Walk(k)[e] # Null /\ heap[Walk(k)[e]].key # k

\* Whatever the others have done since, a call is at a place that a search for
\* its key reaches.
CallIsOnItsWay(t) ==
  /\ pc[t] \in {"alloc", "swap"} => insert[t]
  /\ Reached(key[t], slot[t], depth[t])

CallsAreOnTheirWay == \A t \in Thread : CallIsOnItsWay(t)

\* Whatever the threads have raced for, upsert finds one node for each key, on
\* its path, in memory that no arena will hand out again.
TrieIsSound ==
  /\ TypeOK
  /\ OneNodePerKey
  /\ OnItsPath
  /\ IsATree
  /\ PublishedIsAllocated
  /\ RollbackIsPrivate
  /\ CallsAreOnTheirWay

\* A pointer of the trie is written once: a published node keeps its key, its
\* place and its children, so that pointers handed to callers stay valid.
WrittenOnce ==
  /\ root # Null => root' = root
  /\ \A a \in Published :
       /\ heap'[a] # Null /\ heap'[a].key = heap[a].key
       /\ \A d \in Digit :
            heap[a].child[d] # Null => heap'[a].child[d] = heap[a].child[d]

PublishedForGood == [][WrittenOnce]_vars

(***************************************************************************)
(* "Thread-safe": upsert takes effect atomically.  A call takes effect at  *)
(* the load or the swap it returns from.                                   *)
(***************************************************************************)
Bindings == {[key |-> heap[a].key, cell |-> a] : a \in Published}

Calls ==
  [t \in Thread |->
     IF pc[t] # "idle"
       THEN [pending |-> TRUE, key |-> key[t], insert |-> insert[t]]
       ELSE [pending |-> FALSE, key |-> key[t], cell |-> result[t]]]

C == INSTANCE Cells WITH
  Cell <- Addr, NoCell <- Null, cells <- Bindings, call <- Calls

\* Every interleaving of upserts is one of the map that does them one by one.
ImplementsCells == C!Spec

\* "Lock-free": a thread that keeps running finishes its call, whatever the
\* others do and wherever they have stopped for good.
LockFree == \A t \in Fair : pc[t] # "idle" ~> (pc[t] = "idle" \/ aborted)
=============================================================================
