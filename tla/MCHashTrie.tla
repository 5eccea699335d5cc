----------------------------- MODULE MCHashTrie -----------------------------
(***************************************************************************)
(* Instances of HashTrie for TLC.                                          *)
(***************************************************************************)
EXTENDS HashTrieProps, TLC

CONSTANTS t1, t2, t3, k1, k2, k3

\* k1 and k2 collide in every digit, k3 in the first; hashes run out after one
MCHash ==
  [k \in Key |-> CASE k = k3 -> <<1, 2>> [] OTHER -> <<1>>]

\* the threads are alike: none is fair in the run that uses this
ThreadSymmetry == Permutations(Thread)
=============================================================================
