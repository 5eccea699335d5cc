--------------------------- MODULE ParallelPhmap ----------------------------
(***************************************************************************)
(* phmap::parallel_flat_hash_map (phmap/phmap.h, parallel_hash_set), the   *)
(* table the benchmark uses: submaps, each a flat table with a lock of its *)
(* own.  A call locks the submap of its key; a call that inserts or erases *)
(* first looks under the shared lock, lets go of it, takes the unique one  *)
(* and looks again.  What a thread does between locking and unlocking is   *)
(* one step, but for a client's lambda, which reads a value in one step    *)
(* and writes it in the next.                                              *)
(***************************************************************************)
EXTENDS Phmap

CONSTANTS
  Thread,
  Submap,
  Subidx,        \* subidx: the submap of a key
  Lambda(_, _, _),  \* what a client's lambda makes of a value: it is given
                 \* the call, the value it reads, and a value of the client
  SharedMutex    \* does the mutex have a shared mode?  If not, readers exclude
                 \* one another (std::mutex; NullMutex, with one thread)

\* t.set is the flat table of each submap, t.readers and t.writer who holds
\* its lock, t.call what each thread is at.
Idle == [pc |-> "idle"]

Mine(th) == Subidx[t.call[th].key]
MySet(th) == t.set[Mine(th)]
MyFound(th) == Found(MySet(th), t.call[th].key)
At(th, pc) == t.call[th].pc = pc
Owns(th) == t.writer[Mine(th)] = th

\* the value at the place a thread was told of
ValueAt(th) == MySet(th).slot[t.call[th].at].val
WithValue(th, v) == [t EXCEPT !.set[Mine(th)].slot[t.call[th].at].val = v]

(***************************************************************************)
(* The locks, given and returned as a state.                               *)
(***************************************************************************)
CanLockShared(s) == t.writer[s] = Null
CanLock(s) == t.writer[s] = Null /\ t.readers[s] = {}

LockedShared(T, s, th) == [T EXCEPT !.readers[s] = @ \cup {th}]
Locked(T, s, th) == [T EXCEPT !.writer[s] = th]

\* switch_to_unique unlocks first; where locks have no shared mode it does nothing
UnlockedShared(T, s, th) == [T EXCEPT !.readers[s] = @ \ {th}]
Released(T, s, th) ==
  [T EXCEPT !.readers[s] = @ \ {th}, !.writer[s] = IF @ = th THEN Null ELSE @, !.call[th] = Idle]

(***************************************************************************)
(* The calls: "find" stands for contains and if_contains, "insert" for     *)
(* try_emplace, emplace and operator[], "assign" for insert_or_assign,     *)
(* "update" for try_emplace_l and lazy_emplace_l, which call a lambda if   *)
(* the key is there, "modify" for modify_if, "erase" for erase, erase_if.  *)
(***************************************************************************)
Inserts == {"insert", "assign", "update"}
Lambdas == {"update", "modify"}

\* mutant: modify_if locks as if_contains does
WantsUnique_IfContains(op) == ~SharedMutex

\* find_ptr and modify_if lock for good, the others as ReadWriteLock does
WantsUnique(op) == op = "modify" \/ ~SharedMutex

Begin(th, op, k, v) ==
  LET s == Subidx[k]
      T == [t EXCEPT !.call[th] = [op |-> op, key |-> k, val |-> v, pc |-> "look"]]
  IN  /\ At(th, "idle")
      /\ IF WantsUnique(op) THEN CanLock(s) ELSE CanLockShared(s)
      /\ t' = IF WantsUnique(op) THEN Locked(T, s, th) ELSE LockedShared(T, s, th)
      /\ answer' = Silent

\* what the unique lock is needed for
NeedsUnique(th) ==
  IF MyFound(th) = {} THEN t.call[th].op \in Inserts ELSE t.call[th].op = "erase"

\* the key is not there, and nothing is to be done
Miss(th) ==
  /\ At(th, "look") /\ MyFound(th) = {} /\ ~NeedsUnique(th)
  /\ t' = Released(t, Mine(th), th)
  /\ answer' = Said(IF t.call[th].op = "erase" THEN "erase" ELSE "find", t.call[th].key, FALSE, {})

\* switch_to_unique, up to where it waits for the lock
SwitchToUnique(th) ==
  /\ At(th, "look") /\ NeedsUnique(th) /\ ~Owns(th)
  /\ t' = UnlockedShared([t EXCEPT !.call[th].pc = "switch"], Mine(th), th)
  /\ answer' = Silent

\* and from there
LockUnique(th) ==
  /\ At(th, "switch") /\ CanLock(Mine(th))
  /\ t' = Locked([t EXCEPT !.call[th].pc = "look"], Mine(th), th)
  /\ answer' = Silent

\* the key is at a place that is good as long as the lock is held
Meet(th) ==
  /\ At(th, "look")
  /\ NeedsUnique(th) => Owns(th)
  /\ \E i \in MyFound(th) :
       t' = [t EXCEPT !.call[th] = [op |-> @.op, key |-> @.key, val |-> @.val, pc |-> "act", at |-> i]]
  /\ answer' = Silent

\* the value is read or assigned, or the element erased, and the lock released
Act(th) ==
  /\ At(th, "act")
  /\ LET c == t.call[th]
     IN  \/ /\ c.op \in {"find", "insert"}
            /\ t' = Released(t, Mine(th), th)
            /\ answer' = Said(c.op, c.key, TRUE, IF c.op = "find" THEN {ValueAt(th)} ELSE {})
         \/ /\ c.op = "assign"
            /\ t' = Released(WithValue(th, c.val), Mine(th), th)
            /\ answer' = Said("assign", c.key, TRUE, {c.val})
         \/ /\ c.op = "erase"
            /\ t' = Released([t EXCEPT !.set[Mine(th)] = Erased(@, c.at)], Mine(th), th)
            /\ answer' = Said("erase", c.key, TRUE, {})
         \* erase_if's lambda said no
         \/ /\ c.op = "erase"
            /\ t' = Released(t, Mine(th), th)
            /\ answer' = Silent

\* a lambda is called with the value: it reads it under the lock that was taken
\* to look for the key, which is the shared one if the key was there
CallLambda(th) ==
  /\ At(th, "act") /\ t.call[th].op \in Lambdas
  /\ t' = [t EXCEPT !.call[th] = [op |-> @.op, key |-> @.key, val |-> @.val, pc |-> "lambda",
                                  at |-> @.at, read |-> ValueAt(th)]]
  /\ answer' = Silent

\* and writes what it makes of it
LambdaReturns(th) ==
  /\ At(th, "lambda")
  /\ LET c == t.call[th]
     IN  /\ t' = Released(WithValue(th, Lambda(c.op, c.read, c.val)), Mine(th), th)
         /\ answer' = [op |-> "update", key |-> c.key,
                       by |-> [v \in Stored[c.key] |-> Lambda(c.op, v, c.val)]]

\* prepare_insert: the table has room, and counts the element
MakePlaceIn(th, P, i) ==
  /\ WithinBound(P)
  /\ t' = [t EXCEPT !.set[Mine(th)] = Counted(P, i),
                    !.call[th] = [op |-> @.op, key |-> @.key, val |-> @.val, pc |-> "emplace", at |-> i]]

\* mutant: the key is not looked for again
MakePlace_Unlooked(th) ==
  /\ At(th, "look") /\ t.call[th].op \in Inserts /\ Owns(th)
  /\ \E P \in {Prepared(MySet(th), t.call[th].key)} :
       MakePlaceIn(th, P, FindFirstNonFull(P, t.call[th].key))
  /\ answer' = Silent

MakePlace(th) ==
  /\ At(th, "look") /\ MyFound(th) = {} /\ NeedsUnique(th) /\ Owns(th)
  /\ \E P \in {Prepared(MySet(th), t.call[th].key)} :
       MakePlaceIn(th, P, FindFirstNonFull(P, t.call[th].key))
  /\ answer' = Silent

\* emplace_at and set_ctrl
Emplace(th) ==
  /\ At(th, "emplace")
  /\ LET c == t.call[th]
     IN  /\ t' = Released([t EXCEPT !.set[Mine(th)] = Put(@, c.at, [key |-> c.key, val |-> c.val])],
                          Mine(th), th)
         /\ answer' = IF c.op = "assign" THEN Said("assign", c.key, TRUE, {c.val})
                      ELSE Said("insert", c.key, FALSE, {})

\* clear and rehash do this to one submap after the other
ClearSubmap(s) ==
  /\ CanLock(s)
  /\ t' = [t EXCEPT !.set[s] = IF @.size = 0 THEN @ ELSE NewTable(@.capacity, 0)]
  /\ answer' = [op |-> "clear part", keys |-> {k \in Key : Subidx[k] = s}]

RehashSubmap(s, n) ==
  /\ CanLock(s)
  /\ WithinBound(Rehashed(t.set[s], n))
  /\ t' = [t EXCEPT !.set[s] = Rehashed(@, n)]
  /\ answer' = Silent

ParallelInit ==
  /\ t = [set |-> [s \in Submap |-> NewTable(0, 0)], readers |-> [s \in Submap |-> {}],
          writer |-> [s \in Submap |-> Null], call |-> [th \in Thread |-> Idle]]
  /\ answer = Silent

ParallelNext ==
  \/ \E th \in Thread, op \in {"find", "erase"}, k \in Key : Begin(th, op, k, Null)
  \/ \E th \in Thread, op \in Inserts \cup Lambdas, k \in Key :
       \E v \in Stored[k] : Begin(th, op, k, v)
  \/ \E th \in Thread :
       \/ Miss(th)
       \/ SwitchToUnique(th)
       \/ LockUnique(th)
       \/ Meet(th)
       \/ Act(th)
       \/ CallLambda(th)
       \/ LambdaReturns(th)
       \/ MakePlace(th)
       \/ Emplace(th)
  \/ \E s \in Submap : ClearSubmap(s) \/ \E n \in Requested : RehashSubmap(s, n)

ParallelSpec == ParallelInit /\ [][ParallelNext]_vars

(***************************************************************************)
(* What is checked.                                                        *)
(***************************************************************************)
\* The bindings of the abstract map.
ParallelBindings == UNION {BindingsOf(t.set[s]) : s \in Submap}

\* Whenever nobody is writing to a submap, it is a sound table of keys that
\* are its own, each once: the second look finds what came in between.
SubmapsAreSound ==
  \A s \in Submap : t.writer[s] = Null =>
    /\ IsSound(t.set[s])
    /\ \A b \in BindingsOf(t.set[s]) : Subidx[b.key] = s

\* The place a thread was told of, before it calls a lambda or constructs an
\* element, is still that key's, or still free, when it comes to use it; and
\* where the lock is the unique one, modify_if's and that of any call with a
\* mutex that has no readers, the value a lambda read is still there when it
\* writes: no update is lost.
PlacesHold ==
  \A th \in Thread :
    /\ At(th, "act") \/ At(th, "lambda") => MyFound(th) = {t.call[th].at}
    /\ At(th, "lambda") /\ (t.call[th].op = "modify" \/ ~SharedMutex) =>
         ValueAt(th) = t.call[th].read
    /\ At(th, "emplace") =>
         MyFound(th) = {} /\ MySet(th).ctrl[t.call[th].at] \in {kEmpty, kDeleted}

ParallelIsSound == SubmapsAreSound /\ PlacesHold

\* What phmap.h says of try_emplace_l and lazy_emplace_l as well: the lambda is
\* called "under write lock protection", so that no other thread changes the
\* value between its reading and its writing it.
LambdaIsProtected ==
  \A th \in Thread : At(th, "lambda") => ValueAt(th) = t.call[th].read
=============================================================================
