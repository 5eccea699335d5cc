-------------------------------- MODULE Cells --------------------------------
(***************************************************************************)
(* What upsert of hashtrie/test.c promises the threads that share a trie:  *)
(* every key has at most one cell, the same for all threads and for good,  *)
(* and a call takes effect at one instant between its start and its end.   *)
(***************************************************************************)
CONSTANTS Thread, Key, Cell, NoCell

VARIABLES
  cells,     \* the bindings: a set of [key, cell] records
  call       \* per thread, the call in progress or the last answer

vars == <<cells, call>>

Pending(k, ins) == [pending |-> TRUE, key |-> k, insert |-> ins]

Answer(k, c) == [pending |-> FALSE, key |-> k, cell |-> c]

Bound == {b.key : b \in cells}

Init == cells = {} /\ call \in [Thread -> {Answer(k, NoCell) : k \in Key}]

Invoke(t) ==
  /\ ~call[t].pending
  /\ \E k \in Key, ins \in BOOLEAN : call' = [call EXCEPT ![t] = Pending(k, ins)]
  /\ UNCHANGED cells

Finds(t) ==
  /\ call[t].pending
  /\ \E b \in cells :
       /\ b.key = call[t].key
       /\ call' = [call EXCEPT ![t] = Answer(b.key, b.cell)]
  /\ UNCHANGED cells

\* the new cell belongs to no other key
Inserts(t) ==
  /\ call[t].pending /\ call[t].insert
  /\ call[t].key \notin Bound
  /\ \E c \in Cell \ {b.cell : b \in cells} :
       /\ cells' = cells \cup {[key |-> call[t].key, cell |-> c]}
       /\ call' = [call EXCEPT ![t] = Answer(call[t].key, c)]

Misses(t) ==
  /\ call[t].pending /\ ~call[t].insert
  /\ call[t].key \notin Bound
  /\ call' = [call EXCEPT ![t] = Answer(call[t].key, NoCell)]
  /\ UNCHANGED cells

Next == \E t \in Thread : Invoke(t) \/ Finds(t) \/ Inserts(t) \/ Misses(t)

Spec == Init /\ [][Next]_vars
=============================================================================
