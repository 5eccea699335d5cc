------------------------------ MODULE HashTrie ------------------------------
(***************************************************************************)
(* upsert of hashtrie/test.c: insertion and search in a 4-ary trie of      *)
(* hashes that threads share without locks.  A node is allocated from an   *)
(* arena, filled in, and published by one compare-and-swap; the loser of a *)
(* race gives its node back to its arena and goes on from the winner's.    *)
(*                                                                         *)
(* Each thread has its own arena, as giving memory back requires.  Steps   *)
(* are the accesses to memory other threads can write; a node's key never  *)
(* changes once the node is published, so reading it is no step of its     *)
(* own.  Loads acquire and the swap releases, so that a thread that sees a *)
(* node sees its fields: memory is modelled as sequentially consistent.    *)
(***************************************************************************)
EXTENDS Integers, Sequences, FiniteSets

CONSTANTS
  Thread,
  Key,
  Hash,        \* the 2-bit digits of udb_hash_fn(key), most significant first
  ArenaSize,   \* how many nodes fit between an arena's beg and end
  Fair,        \* the threads the scheduler keeps running
  Root,        \* the place of the pointer to the whole trie
  Null         \* the null pointer

Digit == 0..3

Addr == Thread \X (0..ArenaSize - 1)

Node == [key : Key, child : [Digit -> Addr \cup {Null}]]

ASSUME HashTrieAssumption ==
  /\ Key # {}
  /\ Hash \in [Key -> Seq(Digit)]
  /\ ArenaSize \in Nat
  /\ Fair \subseteq Thread
  /\ Null \notin Addr \cup Node
  /\ Root \notin Addr \X Digit

VARIABLES
  root,      \* the trie: *m of the first turn
  heap,      \* the nodes, by address
  arena,     \* per thread, nodes allocated so far: a->beg
  aborted,   \* an assertion of alloc has failed
  \* per thread, the call of upsert
  pc,        \* "idle", "load", "alloc", "swap"
  key,       \* the argument key
  insert,    \* whether an arena was passed
  slot,      \* m: the root or a child of a node
  depth,     \* how often h has been shifted
  new,       \* the node allocated and not yet published
  result     \* what the last call returned

vars == <<root, heap, arena, aborted, pc, key, insert, slot, depth, new, result>>

\* the digit h >> 62 selects after d shifts; the hash runs out of digits
DigitAt(k, d) == IF d < Len(Hash[k]) THEN Hash[k][d + 1] ELSE 0

At(m) == IF m = Root THEN root ELSE heap[m[1]].child[m[2]]

FreshNode(k) == [key |-> k, child |-> [d \in Digit |-> Null]]

\* memory the arena has not handed out holds no node: Null stands for it
Init ==
  /\ root = Null
  /\ heap = [a \in Addr |-> Null]
  /\ arena = [t \in Thread |-> 0]
  /\ aborted = FALSE
  /\ pc = [t \in Thread |-> "idle"]
  /\ key = [t \in Thread |-> CHOOSE k \in Key : TRUE]
  /\ insert = [t \in Thread |-> FALSE]
  /\ slot = [t \in Thread |-> Root]
  /\ depth = [t \in Thread |-> 0]
  /\ new = [t \in Thread |-> Null]
  /\ result = [t \in Thread |-> Null]

Call(t, k, ins) ==
  /\ pc[t] = "idle"
  /\ pc' = [pc EXCEPT ![t] = "load"]
  /\ key' = [key EXCEPT ![t] = k]
  /\ insert' = [insert EXCEPT ![t] = ins]
  /\ slot' = [slot EXCEPT ![t] = Root]
  /\ depth' = [depth EXCEPT ![t] = 0]
  /\ result' = [result EXCEPT ![t] = Null]
  /\ UNCHANGED <<root, heap, arena, aborted, new>>

Return(t, n) ==
  /\ pc' = [pc EXCEPT ![t] = "idle"]
  /\ result' = [result EXCEPT ![t] = n]
  /\ slot' = [slot EXCEPT ![t] = Root]
  /\ depth' = [depth EXCEPT ![t] = 0]

Visit_NotCompared(t, n) == Return(t, n)

\* the end of a turn that met node n: it has the key, or the loop goes on
Visit(t, n) ==
  IF heap[n].key = key[t]
    THEN Return(t, n)
    ELSE /\ slot' = [slot EXCEPT ![t] = <<n, DigitAt(key[t], depth[t])>>]
         /\ depth' = [depth EXCEPT ![t] = @ + 1]
         /\ pc' = [pc EXCEPT ![t] = "load"]
         /\ UNCHANGED result

Load(t) ==
  LET n == At(slot[t])
  IN  /\ pc[t] = "load"
      /\ \/ n # Null /\ Visit(t, n)
         \/ n = Null /\ ~insert[t] /\ Return(t, Null)
         \/ /\ n = Null /\ insert[t]
            /\ pc' = [pc EXCEPT ![t] = "alloc"]
            /\ UNCHANGED <<slot, depth, result>>
      /\ UNCHANGED <<root, heap, arena, aborted, key, insert, new>>

\* assert(count < avail / objsize): the last node of an arena is never used
Exhausted(t) == ~(1 < ArenaSize - arena[t])

Alloc(t) ==
  LET n == <<t, arena[t]>>
  IN  /\ pc[t] = "alloc"
      /\ ~Exhausted(t)
      /\ arena' = [arena EXCEPT ![t] = @ + 1]
      /\ heap' = [heap EXCEPT ![n] = FreshNode(key[t])]
      /\ new' = [new EXCEPT ![t] = n]
      /\ pc' = [pc EXCEPT ![t] = "swap"]
      /\ UNCHANGED <<root, aborted, key, insert, slot, depth, result>>

AssertionFails(t) ==
  /\ pc[t] = "alloc"
  /\ Exhausted(t)
  /\ aborted' = TRUE
  /\ UNCHANGED <<root, heap, arena, pc, key, insert, slot, depth, new, result>>

Publish(m, n) ==
  IF m = Root
    THEN root' = n /\ UNCHANGED heap
    ELSE heap' = [heap EXCEPT ![m[1]].child[m[2]] = n] /\ UNCHANGED root

SwapSucceeds_PlainStore(t) ==
  /\ pc[t] = "swap"
  /\ Publish(slot[t], new[t])
  /\ Return(t, new[t])
  /\ new' = [new EXCEPT ![t] = Null]
  /\ UNCHANGED <<arena, aborted, key, insert>>

\* the compare-and-swap finds the slot empty and fills it
SwapSucceeds(t) ==
  /\ pc[t] = "swap"
  /\ At(slot[t]) = Null
  /\ Publish(slot[t], new[t])
  /\ Return(t, new[t])
  /\ new' = [new EXCEPT ![t] = Null]
  /\ UNCHANGED <<arena, aborted, key, insert>>

\* *a = rollback
GiveBack(t) ==
  /\ arena' = [arena EXCEPT ![t] = @ - 1]
  /\ heap' = [heap EXCEPT ![new[t]] = Null]
  /\ new' = [new EXCEPT ![t] = Null]

SwapFails_NotCompared(t) ==
  LET n == At(slot[t])
  IN  /\ pc[t] = "swap"
      /\ n # Null
      /\ GiveBack(t)
      /\ slot' = [slot EXCEPT ![t] = <<n, DigitAt(key[t], depth[t])>>]
      /\ depth' = [depth EXCEPT ![t] = @ + 1]
      /\ pc' = [pc EXCEPT ![t] = "load"]
      /\ UNCHANGED <<root, aborted, key, insert, result>>

SwapFails_TriesAgain(t) ==
  /\ pc[t] = "swap"
  /\ At(slot[t]) # Null
  /\ GiveBack(t)
  /\ pc' = [pc EXCEPT ![t] = "alloc"]
  /\ UNCHANGED <<root, aborted, key, insert, slot, depth, result>>

\* the compare-and-swap fails and loads the node that is there
SwapFails(t) ==
  /\ pc[t] = "swap"
  /\ At(slot[t]) # Null
  /\ GiveBack(t)
  /\ Visit(t, At(slot[t]))
  /\ UNCHANGED <<root, aborted, key, insert>>

Step(t) ==
  /\ ~aborted
  /\ Load(t) \/ Alloc(t) \/ AssertionFails(t) \/ SwapSucceeds(t) \/ SwapFails(t)

\* a program that has been aborted does nothing more
Stopped == aborted /\ UNCHANGED vars

Next ==
  \/ \E t \in Thread, k \in Key, ins \in BOOLEAN : ~aborted /\ Call(t, k, ins)
  \/ \E t \in Thread : Step(t)
  \/ Stopped

(***************************************************************************)
(* A fair thread inside upsert keeps running; the others may stop anywhere *)
(* for good.                                                               *)
(***************************************************************************)
Spec == Init /\ [][Next]_vars /\ \A t \in Fair : WF_vars(Step(t))
=============================================================================
