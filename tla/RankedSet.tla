----------------------------- MODULE RankedSet -----------------------------
(***************************************************************************)
(* What kavl.h promises: a set of ordered keys whose operations also tell  *)
(* how many elements are not larger than the key they were given.          *)
(***************************************************************************)
EXTENDS Integers, FiniteSets

CONSTANTS Key, None

VARIABLES
  set,
  reply      \* the last answer: the element it is about, or None, and its rank

vars == <<set, reply>>

Silent == [op |-> "none", key |-> None, element |-> None, rank |-> 0]

Rank(k) == Cardinality({x \in set : x <= k})

Init == reply = Silent /\ set \in SUBSET Key

Insert(k) ==
  /\ reply' = [op |-> "insert", key |-> k, element |-> k, rank |-> Rank(k)]
  /\ set' = set \cup {k}

Erase(k) ==
  /\ k \in set
  /\ reply' = [op |-> "erase", key |-> k, element |-> k, rank |-> Rank(k)]
  /\ set' = set \ {k}

EraseNothing(k) ==
  /\ k \notin set
  /\ reply' = [op |-> "erase", key |-> k, element |-> None, rank |-> 0]
  /\ UNCHANGED set

EraseFirst ==
  \E k \in set :
    /\ Rank(k) = 1
    /\ reply' = [op |-> "first", key |-> k, element |-> k, rank |-> 1]
    /\ set' = set \ {k}

Clear == set' = {} /\ reply' = Silent

Quiet == UNCHANGED set /\ reply' = Silent

Next ==
  \/ \E k \in Key : Insert(k) \/ Erase(k) \/ EraseNothing(k)
  \/ EraseFirst \/ Clear \/ Quiet

Spec == Init /\ [][Next]_vars
=============================================================================
