------------------------------- MODULE Driver -------------------------------
(***************************************************************************)
(* The benchmark: main in common.c and the loop of every test.c.  Inputs   *)
(* are drawn one by one; each is counted in a table, or inserted if it is  *)
(* not there and deleted if it is.  At checkpoints the number of inputs,   *)
(* the size of the table and a checksum are measured: over all libraries   *)
(* they should be the same.  The table is a partial function here; an      *)
(* input is one step.                                                      *)
(***************************************************************************)
EXTENDS Integers, Sequences, FiniteSets

CONSTANTS
  Library,     \* the programs looked at, by the names of their directories
  BUF_N,       \* the inputs mlib/test-bulk.c passes to one call (1024)
  Arguments    \* of the command line: records of N, n0 and n_cp

VARIABLES
  t,           \* the program's variables, and how often each key was drawn
  answer       \* there is no answer to compare

vars == <<t, answer>>

Silent == [op |-> "none"]

With(f, k, v) == [x \in DOMAIN f \cup {k} |-> IF x = k THEN v ELSE f[x]]
Without(f, k) == [x \in DOMAIN f \ {k} |-> f[x]]

\* the keys of inputs: udb_get_key multiplies by an odd number, so that two
\* of them are the same only if they are the same modulo n / 4
Keys(n) == 0..(n \div 4 - 1)

(***************************************************************************)
(* One input, as each kind of test.c does it: what becomes of the table,   *)
(* of the checksum z and of the count cnt some of them keep of the keys.   *)
(* A value inserted for deletion is never read: it is 0.                   *)
(***************************************************************************)
Turn(T, table, z, cnt) ==
  [T EXCEPT !.table = table, !.z = @ + z, !.cnt = @ + cnt]

Absent(T, k) == k \notin DOMAIN T.table

\* insert the absent, delete the present
Toggled(T, k, z, cnt) ==
  IF Absent(T, k) THEN Turn(T, With(T.table, k, 0), z, cnt)
  ELSE Turn(T, Without(T.table, k), 0, -cnt)

\* khashl, khashe, khashp, ctl: put, whose absent says whether to write first
Put(T, k) ==
  LET v == 1 + IF Absent(T, k) THEN 0 ELSE T.table[k]
  IN  IF T.is_del THEN Toggled(T, k, 1, 0) ELSE Turn(T, With(T.table, k, v), v, 0)

\* kbtree, stb_ds, mlib: get, then put one or count in place
GetThenPut(T, k) ==
  IF T.is_del THEN Toggled(T, k, 1, 0)
  ELSE IF Absent(T, k) THEN Turn(T, With(T.table, k, 1), 1, 0)
  ELSE Turn(T, With(T.table, k, T.table[k] + 1), T.table[k] + 1, 0)

\* verstable, CC: get or insert zero; the sizes tell which it was
GetOrInsert(T, k) ==
  LET inserted == IF Absent(T, k) THEN With(T.table, k, 0) ELSE T.table
      same == Cardinality(DOMAIN inserted) = Cardinality(DOMAIN T.table)
  IN  IF T.is_del
      THEN IF same THEN Turn(T, Without(inserted, k), 0, 0) ELSE Turn(T, inserted, 1, 0)
      ELSE Turn(T, With(inserted, k, inserted[k] + 1), inserted[k] + 1, 0)

\* STC: insert one, and count if that did not insert
InsertOne_Counted(T, k) ==
  LET inserted == IF Absent(T, k) THEN With(T.table, k, 1) ELSE T.table
      counted == With(inserted, k, inserted[k] + 1)
  IN  IF T.is_del THEN Toggled(T, k, 1, 0) ELSE Turn(T, counted, counted[k], 0)
InsertOne(T, k) ==
  LET inserted == IF Absent(T, k) THEN With(T.table, k, 1) ELSE T.table
      counted == IF Absent(T, k) THEN inserted ELSE With(inserted, k, inserted[k] + 1)
  IN  IF T.is_del THEN Toggled(T, k, 1, 0) ELSE Turn(T, counted, counted[k], 0)

\* uthash: find, add if nothing is found, count; the keys are counted apart
FindThenAdd(T, k) ==
  LET found == IF Absent(T, k) THEN With(T.table, k, 0) ELSE T.table
  IN  IF T.is_del THEN Toggled(T, k, 1, 1)
      ELSE Turn(T, With(found, k, found[k] + 1), found[k] + 1, IF Absent(T, k) THEN 1 ELSE 0)

\* dmap: get, then insert the sum; nothing is added to z when it deletes
GetThenInsert(T, k) ==
  LET v == 1 + IF Absent(T, k) THEN 0 ELSE T.table[k]
  IN  IF T.is_del THEN Toggled(T, k, 0, 1)
      ELSE Turn(T, With(T.table, k, v), v, IF Absent(T, k) THEN 1 ELSE 0)

\* hashtrie: a value of zero says that the key is new; there is no deletion
Upsert(T, k) ==
  LET found == IF Absent(T, k) THEN With(T.table, k, 0) ELSE T.table
  IN  IF T.is_del THEN T
      ELSE Turn(T, With(found, k, found[k] + 1), found[k] + 1, IF found[k] = 0 THEN 1 ELSE 0)

\* kavl: insert the node p and take another if it stayed in the tree; there
\* is no deletion, and the one node in the tree is given every key
InsertSpare(T, k) ==
  LET q == IF Absent(T, k) THEN With(T.table, k, 0) ELSE T.table
  IN  IF T.is_del THEN Turn(T, [x \in {k} |-> 0], 0, 0)
      ELSE Turn(T, With(q, k, q[k] + 1), q[k] + 1, 0)

\* python: counts nothing
Contains(T, k) ==
  IF T.is_del THEN Toggled(T, k, 0, 0)
  ELSE IF Absent(T, k) THEN Turn(T, With(T.table, k, 1), 0, 0) ELSE T

\* mlib's bulk program: update_sum, or update_del, which is told the default
\* value if the key is new, and says 1 then and 0 otherwise
Update(T, k) ==
  LET old == IF Absent(T, k) THEN 0 ELSE T.table[k]
  IN  IF T.is_del THEN Toggled(T, k, 1, 0) ELSE Turn(T, With(T.table, k, old + 1), old + 1, 0)

Turned(T, k) ==
  CASE T.lib = "khashl" -> Put(T, k)
    [] T.lib = "kbtree" -> GetThenPut(T, k)
    [] T.lib = "verstable" -> GetOrInsert(T, k)
    [] T.lib = "STC" -> InsertOne(T, k)
    [] T.lib = "uthash" -> FindThenAdd(T, k)
    [] T.lib = "dmap" -> GetThenInsert(T, k)
    [] T.lib = "hashtrie" -> Upsert(T, k)
    [] T.lib = "kavl" -> InsertSpare(T, k)
    [] T.lib = "_python" -> Contains(T, k)
    [] T.lib = "mlib bulk" -> Update(T, k)

\* what is measured as the size of the table
SizeOf(T) ==
  IF T.lib \in {"uthash", "dmap", "hashtrie"} THEN T.cnt ELSE Cardinality(DOMAIN T.table)

(***************************************************************************)
(* The loop.  Dividing by zero stops the program.                          *)
(***************************************************************************)
Entered(T, k) == [Turned(T, k) EXCEPT !.i = @ + 1, !.drawn[k] = @ + 1]

Input(k) ==
  /\ t.status = "running" /\ t.j < t.n_cp /\ t.i < t.n /\ t.lib # "mlib bulk"
  /\ t' = Entered(t, k)
  /\ answer' = Silent

\* the bulk program draws a buffer of keys, fewer before a checkpoint
BufferLength == IF t.n - t.i < BUF_N THEN t.n - t.i ELSE BUF_N

RECURSIVE EnteredAll(_, _)
EnteredAll(T, ks) == IF ks = <<>> THEN T ELSE EnteredAll(Entered(T, Head(ks)), Tail(ks))

BulkInput ==
  /\ t.status = "running" /\ t.j < t.n_cp /\ t.i < t.n /\ t.lib = "mlib bulk"
  /\ \E ks \in [1..BufferLength -> Keys(t.n)] : t' = EnteredAll(t, ks)
  /\ answer' = Silent

NoKey ==
  /\ t.status = "running" /\ t.j < t.n_cp /\ t.i < t.n /\ t.n \div 4 = 0
  /\ t' = [t EXCEPT !.status = "trapped"]
  /\ answer' = Silent

Measure ==
  /\ t.status = "running" /\ t.j < t.n_cp /\ t.i >= t.n
  /\ t' = [t EXCEPT !.cp = [n_input |-> t.n, table_size |-> SizeOf(t), checksum |-> t.z],
                    !.j = @ + 1, !.n = @ + t.step]
  /\ answer' = Silent

Return ==
  /\ t.status = "running" /\ t.j = t.n_cp
  /\ t' = [t EXCEPT !.status = "done"]
  /\ answer' = Silent

NoStep == [n_input |-> 0, table_size |-> 0, checksum |-> 0]

\* main calls udb_traverse_rng, then test_int computes the step
Start(lib, del, a) ==
  LET traps == (a.N > 0 /\ a.N \div 4 = 0) \/ a.n_cp = 1
  IN  [lib |-> lib, is_del |-> del, n_cp |-> a.n_cp, j |-> 0, i |-> 0, n |-> a.n0,
       step |-> IF traps THEN 0 ELSE (a.N - a.n0) \div (a.n_cp - 1),
       z |-> 0, cnt |-> 0, table |-> [k \in {} |-> 0], cp |-> NoStep,
       drawn |-> [k \in Keys(a.N) |-> 0],
       status |-> IF traps THEN "trapped" ELSE "running"]

Init ==
  /\ \E lib \in Library, del \in BOOLEAN, a \in Arguments : t = Start(lib, del, a)
  /\ answer = Silent

Next ==
  \/ NoKey
  \/ Measure
  \/ Return
  \/ BulkInput
  \/ \E k \in Keys(t.n) : Input(k)

Spec == Init /\ [][Next]_vars

-----------------------------------------------------------------------------
RECURSIVE SumOver(_, _)
SumOver(f, S) ==
  IF S = {} THEN 0 ELSE LET k == CHOOSE x \in S : TRUE IN f[k] + SumOver(f, S \ {k})

Total(f) == SumOver(f, DOMAIN f)
Size(p(_)) == Cardinality({k \in DOMAIN t.drawn : p(t.drawn[k])})

\* The size and the checksum depend on what was drawn only, not on the
\* library: a key drawn c times adds 1 + ... + c when keys are counted, and is
\* there after every odd time when they are deleted, each insertion adding 1.
\* Exempt: deletion by dmap, hashtrie and kavl, and every checksum of python.
ResultsAreComparable ==
  LET all == t.drawn
      counted == [k \in DOMAIN all |-> (all[k] * (all[k] + 1)) \div 2]
      entered == [k \in DOMAIN all |-> (all[k] + 1) \div 2]
  IN  /\ t.i = Total(all)
      /\ t.is_del /\ t.lib \notin {"hashtrie", "kavl"} =>
           SizeOf(t) = Size(LAMBDA c : c % 2 = 1)
      /\ t.is_del /\ t.lib \notin {"hashtrie", "kavl", "dmap", "_python"} =>
           t.z = Total(entered)
      /\ ~t.is_del => SizeOf(t) = Size(LAMBDA c : c > 0)
      /\ ~t.is_del /\ t.lib # "_python" => t.z = Total(counted)

\* Between a checkpoint and the next input the checkpoint says what was drawn.
CheckpointsAreMet ==
  t.status = "done" => t.cp = [n_input |-> t.i, table_size |-> SizeOf(t), checksum |-> t.z]

DriverIsRight == ResultsAreComparable /\ CheckpointsAreMet
=============================================================================
