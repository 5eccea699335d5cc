------------------------------ MODULE KhashEns ------------------------------
(***************************************************************************)
(* The ensemble of KHASHE_INIT (khashl/khashl.h): 1<<bits tables, and the  *)
(* low bits of a key's hash choose the one it lives in.                    *)
(*                                                                         *)
(* Each table is a Dict, which Khashl implements, with its own bindings    *)
(* and its own last answer.  A call of the ensemble is the step in which   *)
(* the call it makes to one table takes effect; its result is that table's *)
(* answer.                                                                 *)
(***************************************************************************)
EXTENDS Integers, FiniteSets

CONSTANTS
  Key, Val,
  Hash,          \* what __hash_fn returns for each key
  NSub,          \* 1 << g->bits
  MaxFailures    \* bound on failures

VARIABLES
  sub,           \* g->sub: the bindings of each table and its last answer
  count,         \* g->count
  last,          \* the table the last call went to: its "sub" field
  failures       \* puts that failed since the ensemble was last empty

vars == <<sub, count, last, failures>>

ASSUME EnsembleAssumption ==
  /\ NSub \in Nat \ {0}
  /\ Hash \in [Key -> Nat]
  /\ MaxFailures \in Nat

Subs == 0..(NSub - 1)

Table(t) == INSTANCE Dict WITH dict <- sub[t].dict, reply <- sub[t].reply

\* an answer about a key of K, and the state of a table that gave it
Reply(K) ==
       [op : {"none", "clear"}]
  \cup [op : {"get"}, key : K, found : BOOLEAN]
  \cup [op : {"put"}, key : K, status : {"absent", "present", "noMemory"}]
  \cup [op : {"del"}, key : K]

SubState(K) == [dict : SUBSET [key : Key, val : Val], reply : Reply(K)]

Init ==
  /\ sub = [t \in Subs |-> [dict |-> {}, reply |-> [op |-> "none"]]]
  /\ count = 0
  /\ last = 0
  /\ failures = 0

\* low = hash & ((1U << g->bits) - 1)
Route(k) == Hash[k] % NSub

\* a call about key k that reaches table t and no other
At(t, k) ==
  /\ last' = t
  /\ \E s \in SubState({k}) : sub' = [sub EXCEPT ![t] = s]

Get_LastTable(k) ==
  /\ At(last, k)
  /\ Table(last)!Get(k)
  /\ UNCHANGED <<count, failures>>

Get(k) ==
  /\ At(Route(k), k)
  /\ Table(Route(k))!Get(k)
  /\ UNCHANGED <<count, failures>>

\* if (*absent) ++g->count
Counted_Always(status) == count + 1

Counted(status) == IF status = "present" THEN count ELSE count + 1

Put_AnyTable(k) ==
  \E t \in Subs :
    /\ At(t, k)
    /\ Table(t)!PutNew(k) \/ Table(t)!PutOld(k)
    /\ count' = Counted(sub'[t].reply.status)
    /\ UNCHANGED failures

\* a put that fails leaves *absent at -1 and is counted too
Put(k) ==
  /\ At(Route(k), k)
  /\ \/ /\ \/ Table(Route(k))!PutNew(k)
           \/ Table(Route(k))!PutOld(k)
        /\ UNCHANGED failures
     \/ /\ failures < MaxFailures
        /\ Table(Route(k))!PutNoMemory(k)
        /\ failures' = failures + 1
  /\ count' = Counted(sub'[Route(k)].reply.status)

\* through the iterator of the last call
SetVal(k, v) ==
  /\ At(last, k)
  /\ Table(last)!SetVal(k, v)
  /\ UNCHANGED <<count, failures>>

Del(k) ==
  /\ At(last, k)
  /\ Table(last)!Del(k)
  /\ count' = count - 1
  /\ UNCHANGED failures

\* every table is cleared in turn; destroy followed by init does the same
Clear ==
  /\ count' = 0 /\ failures' = 0
  /\ sub' = [t \in Subs |-> [dict |-> {}, reply |-> [op |-> "clear"]]]
  /\ UNCHANGED last

Next ==
  \/ \E k \in Key : Get(k) \/ Put(k) \/ Del(k)
  \/ \E k \in Key, v \in Val : SetVal(k, v)
  \/ Clear

Spec == Init /\ [][Next]_vars
-----------------------------------------------------------------------------
All == UNION {sub[t].dict : t \in Subs}

\* The ensemble's variables keep their types.
TypeOK ==
  /\ sub \in [Subs -> SubState(Key)]
  /\ count \in Nat
  /\ last \in Subs
  /\ failures \in 0..MaxFailures

\* A key is bound in the table its hash selects and in no other, with one
\* value: getp and putp agree on where to look.
KeysAreRouted ==
  \A t \in Subs : \A b, c \in sub[t].dict :
    Route(b.key) = t /\ (b.key = c.key => b = c)

\* The last answer comes from the table of the key it is about, so that an
\* iterator leads back to the element it was given for.
AnswersAreRouted ==
  sub[last].reply.op \in {"get", "put", "del"} => Route(sub[last].reply.key) = last

\* kh_ens_size is the number of elements in all tables plus that of the puts
\* that failed, which putp takes for insertions.
SizeIsElements == count = Cardinality(All) + failures

\* The tables together are one map, with the answers of the table asked.
Whole == INSTANCE Dict WITH dict <- All, reply <- sub[last].reply

ImplementsDict == Whole!Spec
=============================================================================
