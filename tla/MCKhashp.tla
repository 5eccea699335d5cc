------------------------------ MODULE MCKhashp ------------------------------
(***************************************************************************)
(* Instances of Khashp for TLC, scaled as those of Khashl.                 *)
(***************************************************************************)
EXTENDS KhashpProps, TLC

CONSTANTS v1, v2, a1, a2, a3, a4, a5

MCHash == [k \in Key |-> k]

\* addresses are interchangeable
AddrSymmetry == Permutations(Addr)
=============================================================================
