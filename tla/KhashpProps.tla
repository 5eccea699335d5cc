---------------------------- MODULE KhashpProps ----------------------------
(***************************************************************************)
(* What makes the tables of Khashp correct, and what its documentation     *)
(* says of them that the code does not do.                                 *)
(***************************************************************************)
EXTENDS Khashp

\* The table's variables keep their types: the bucket array has the capacity
\* khp_resize says it has.
TypeOK ==
  /\ kind \in {"generic", "string", "dup"}
  /\ h = [cap |-> h.cap, b |-> h.b, used |-> h.used, count |-> h.count]
  /\ h.cap \in Capacity \cup {0}
  /\ h.used \subseteq Buckets(h.cap)
  /\ h.b \in [Buckets(h.cap) -> Element \cup {NoBucket}]
  /\ h.count \in Nat
  /\ strings \in [Addr -> Key \cup {Freed}]
  /\ memory \subseteq {"table", "buckets", "flags"}
  /\ pc \in {"ready", "destroyed", "crashed"}
  /\ op \in {"none", "get", "put", "del", "resize", "clear", "destroy"}
  /\ arg \in Key \cup {NoKey}
  /\ pos \in Nat /\ absent \in {-1, 0, 1}

\* In a table of copies every used bucket owns the copy it points to: the copy
\* is allocated, so no probe reads freed memory, and no other bucket has it, so
\* none is freed twice, however often buckets were swapped and shifted.
BucketsOwnCopies ==
  kind = "dup" =>
    \A x \in h.used :
      /\ h.b[x].key \in Addr
      /\ strings[h.b[x].key] # Freed
      /\ \A y \in h.used : h.b[x].key = h.b[y].key => x = y

\* No gap in the probe sequence of any element, computed from the strings as
\* they are now.
ProbeInvariant ==
  \A x \in h.used : Path(HomeOf(strings, h.b[x], h.cap), x, h.cap) \subseteq h.used

\* khp_size is the number of used buckets and leaves every probe a clear flag.
CountIsElements ==
  /\ h.count = Cardinality(h.used)
  /\ h.count <= MaxCount(h.cap)

\* No key is in two buckets, whatever the buckets hold of it, and a bucket
\* holds what its kind of table stores.
KeysAreUnique ==
  /\ \A x \in h.used : h.b[x] \in Element /\ (kind # "dup" => h.b[x].key \in Key)
  /\ \A x, y \in h.used : KeyAt(strings, h.b[x]) = KeyAt(strings, h.b[y]) => x = y

\* The index put returned designates the element of the key it was given.
AnswerIsRight == Holds => pos \in h.used /\ KeyAt(strings, h.b[pos]) = arg

\* khp_destroy frees the table and its buckets; the flag array it keeps.
DestroyKeepsFlagsOnly == pc = "destroyed" => memory \subseteq {"flags"}

\* Between two calls every element is where its probe ends, one for each key and
\* as many as the count says, the client's index is still right, and the bucket
\* array has the capacity the header says; and a table that was destroyed is
\* gone, but for its flags.
TableIsSound ==
  /\ TypeOK /\ ProbeInvariant /\ CountIsElements /\ KeysAreUnique
  /\ AnswerIsRight /\ DestroyKeepsFlagsOnly

Lost == {a \in Addr : strings[a] # Freed /\ \A x \in h.used : h.b[x].key # a}

\* A copy that no bucket points to any more is lost.  Only khp_clear, and a put
\* whose resize found no memory, lose copies; insertion, deletion, rehashing
\* and destruction lose none.
CopiesAreLostOnlyBy ==
  [][Lost' \subseteq Lost \/ op' = "clear" \/ absent' = -1]_vars

(***************************************************************************)
(* But for khp_get, whose answers are left out, the table is the abstract  *)
(* map Dict: the bindings are those of the strings the buckets point to.   *)
(***************************************************************************)
Bindings == {[key |-> KeyAt(strings, h.b[x]), val |-> h.b[x].val] : x \in h.used}

Reply ==
  IF pc = "crashed" THEN [op |-> "none"]
  ELSE CASE op = "put" ->
              [op |-> "put", key |-> arg,
               status |-> CASE absent = 1 -> "absent"
                            [] absent = 0 -> "present"
                            [] OTHER -> "noMemory"]
         [] op = "del" -> [op |-> "del", key |-> arg]
         [] op \in {"clear", "destroy"} -> [op |-> "clear"]
         [] OTHER -> [op |-> "none"]

D == INSTANCE Dict WITH dict <- Bindings, reply <- Reply

\* put, del, set_val, clear, resize and destroy are the operations of a map,
\* for inline keys, the client's strings and copies alike.
ImplementsDict == D!Spec

(***************************************************************************)
(* What khashp.h says.                                                     *)
(***************************************************************************)

\* khp_get: "offset in buckets if present, or khp_end(h) if absent"
GetFindsTheKey ==
  pc = "ready" /\ op = "get" =>
    IF pos \in h.used THEN KeyAt(strings, h.b[pos]) = arg
    ELSE \A x \in h.used : KeyAt(strings, h.b[x]) # arg
=============================================================================
