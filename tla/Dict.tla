-------------------------------- MODULE Dict --------------------------------
(***************************************************************************)
(* What every table of the repository promises its client: a partial map   *)
(* from keys to values.  A call takes effect at one instant; resizing is   *)
(* invisible; a put that cannot get memory answers "noMemory" and changes  *)
(* nothing.                                                                *)
(*                                                                         *)
(* It abstracts the functions of KHASHL_INIT (khashl/khashl.h) and serves  *)
(* as the specification the tables are shown to implement.                 *)
(***************************************************************************)
CONSTANTS Key, Val

VARIABLES
  dict,      \* the bindings: a set of [key, val] records
  reply      \* the last answer; "del" and "clear" say what has been done;
             \* Silent during the other calls and after a resize

vars == <<dict, reply>>

Silent == [op |-> "none"]

Binding == [key : Key, val : Val]

Bound == {b.key : b \in dict}

Init == dict = {} /\ reply = Silent

\* a call begins, or one that gives no answer ends
Quiet == reply' = Silent /\ UNCHANGED dict

Get(k) ==
  /\ reply' = [op |-> "get", key |-> k, found |-> k \in Bound]
  /\ UNCHANGED dict

\* the value of a new element is whatever the memory held
PutNew(k) ==
  /\ reply' = [op |-> "put", key |-> k, status |-> "absent"]
  /\ k \notin Bound
  /\ \E v \in Val : dict' = dict \cup {[key |-> k, val |-> v]}

PutOld(k) ==
  /\ reply' = [op |-> "put", key |-> k, status |-> "present"]
  /\ k \in Bound
  /\ UNCHANGED dict

PutNoMemory(k) ==
  /\ reply' = [op |-> "put", key |-> k, status |-> "noMemory"]
  /\ UNCHANGED dict

\* the last answer refers to the element of key k
RefersTo(k) ==
  \/ reply = [op |-> "get", key |-> k, found |-> TRUE]
  \/ reply = [op |-> "put", key |-> k, status |-> "absent"]
  \/ reply = [op |-> "put", key |-> k, status |-> "present"]

SetVal(k, v) ==
  /\ RefersTo(k)
  /\ dict' = {b \in dict : b.key # k} \cup {[key |-> k, val |-> v]}
  /\ UNCHANGED reply

Del(k) ==
  /\ RefersTo(k)
  /\ dict' = {b \in dict : b.key # k}
  /\ reply' = [op |-> "del", key |-> k]

Clear == dict' = {} /\ reply' = [op |-> "clear"]

Next ==
  \/ \E k \in Key : Get(k) \/ PutNew(k) \/ PutOld(k) \/ PutNoMemory(k) \/ Del(k)
  \/ \E k \in Key, v \in Val : SetVal(k, v)
  \/ Quiet \/ Clear

Spec == Init /\ [][Next]_vars
=============================================================================
