------------------------------ MODULE MCKhashl ------------------------------
(***************************************************************************)
(* Instances of Khashl for TLC.  Word = 16 and Golden = 9 scale 2^32 and   *)
(* 2654435769: both multipliers are Word / golden ratio, made odd.         *)
(***************************************************************************)
EXTENDS KhashlProps

CONSTANTS v1, v2

\* a key is its own hash, so choosing keys is choosing hashes
MCHash == [k \in Key |-> k]
=============================================================================
