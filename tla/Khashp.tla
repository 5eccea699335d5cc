------------------------------- MODULE Khashp -------------------------------
(***************************************************************************)
(* The type-erased hash table of khashp/khashp.c and its string tables.    *)
(*                                                                         *)
(* The algorithm is Khashl's; what is new is what a bucket holds.  In a    *)
(* table of kind "generic" it is the key itself, in one of kind "string"   *)
(* the address of the client's string, and in one of kind "dup" (h->dup)   *)
(* the address of a copy the table owns.  Hashing or comparing a bucket    *)
(* reads through the address, so the table depends on what it has freed.   *)
(*                                                                         *)
(* A call is one step.  The heap of string copies is passed to every       *)
(* operator that follows an address, as it is at that point of the call.   *)
(***************************************************************************)
EXTENDS Probing, FiniteSets

CONSTANTS
  Val,           \* values a client stores
  Addr,          \* addresses malloc gives to copies (bound: copies alive)
  ResizeRequest, \* sizes a client passes to khp_resize
  AllocFailure,  \* what malloc may refuse: "flags", "buckets", "tmp", "copy"
  NoBucket,      \* content of a bucket whose flag is clear
  Freed,         \* content of an address that is not allocated
  NoKey          \* no call has a result to offer

Element == [key : Key \cup Addr, val : Val]

ASSUME ElementAssumption ==
  /\ Key \cap Addr = {}
  /\ Freed \notin Key
  /\ NoKey \notin Key
  /\ NoBucket \notin Element
  /\ ResizeRequest \subseteq Nat

VARIABLES
  kind,          \* "generic", "string" or "dup"
  h,             \* the table: [cap, b, used, count]
  strings,       \* the heap of copies: Addr -> Key or Freed
  memory,        \* blocks the table has allocated: "table", "buckets", "flags"
  pc,            \* "ready", "destroyed" or "crashed"
  op, arg,       \* the last call, and the key it was given
  pos, absent    \* what it returned, and *absent

call == <<op, arg, pos, absent>>
vars == <<kind, h, strings, memory, pc, call>>

Empty == [cap |-> 0, b |-> <<>>, used |-> {}, count |-> 0]

\* realloc to n buckets: what is there stays, what is new is indeterminate
Realloc(b, n) == [x \in Buckets(n) |-> IF x \in DOMAIN b THEN b[x] ELSE NoBucket]

\* the key a bucket stands for, in heap m: a client's string is its own address
KeyAt(m, e) == IF e.key \in Addr THEN m[e.key] ELSE e.key

HomeOf(m, e, cap) == Home(KeyAt(m, e), cap)

\* where a probe from bucket "from" meets the first bucket of S
Nearest(S, from, cap) ==
  CHOOSE x \in S : \A y \in S : Dist(from, x, cap) <= Dist(from, y, cap)

(***************************************************************************)
(* khp_get.  Its loop goes on while the bucket is used and key_eq is not   *)
(* 0, which is while the bucket holds the key asked for.                   *)
(***************************************************************************)
GetIndex(k) ==
  LET stops == {x \in Buckets(h.cap) : x \notin h.used \/ KeyAt(strings, h.b[x]) # k}
      s == Nearest(stops, Home(k, h.cap), h.cap)
  IN  IF stops = {} \/ s \notin h.used THEN h.cap ELSE s

(***************************************************************************)
(* khp_resize: g is the table, old and new its flag arrays, j the bucket   *)
(* its outer loop is at.  The element in hand stays in bucket j of the     *)
(* array it is taken from; a swap uses the block tmp, whose allocation is  *)
(* not tested.                                                             *)
(***************************************************************************)
Target(g, cap) == Nearest(Buckets(cap) \ g.new, HomeOf(strings, g.b[g.j], cap), cap)

Skip(g) == [g EXCEPT !.j = @ + 1]

Take(g) == [g EXCEPT !.old = @ \ {g.j}, !.hand = TRUE]

Swap_Copied(g, i) ==
  [g EXCEPT !.b = [@ EXCEPT ![i] = g.b[g.j]],
            !.old = @ \ {i}, !.new = @ \cup {i}, !.swap = TRUE]

Swap(g, i) ==
  [g EXCEPT !.b = [@ EXCEPT ![i] = g.b[g.j], ![g.j] = g.b[i]],
            !.old = @ \ {i}, !.new = @ \cup {i}, !.swap = TRUE]

Place(g, i) ==
  [g EXCEPT !.b = [@ EXCEPT ![i] = g.b[g.j]],
            !.new = @ \cup {i}, !.hand = FALSE, !.j = @ + 1]

Turn(g, cap) ==
  IF g.j = h.cap THEN g
  ELSE IF g.hand
    THEN IF Target(g, cap) \in g.old THEN Swap(g, Target(g, cap)) ELSE Place(g, Target(g, cap))
  ELSE IF g.j \in g.old THEN Take(g) ELSE Skip(g)

\* one turn for each bucket and one for each element
Moved(cap) ==
  LET turn[n \in Nat] ==
        IF n = 0
          THEN [b |-> IF h.cap < cap THEN Realloc(h.b, cap) ELSE h.b,
                old |-> h.used, new |-> {}, j |-> 0, hand |-> FALSE, swap |-> FALSE]
          ELSE Turn(turn[n - 1], cap)
  IN  turn[h.cap + Cardinality(h.used)]

\* buckets without a flag are never read; their content is forgotten
Rehashed(cap) ==
  LET g == Moved(cap)
      b == Realloc(g.b, cap)
  IN  [cap |-> cap, used |-> g.new, count |-> h.count,
       b |-> [x \in DOMAIN b |-> IF x \in g.new THEN b[x] ELSE NoBucket]]

TooSmall(cap) == h.count > MaxCount(cap)

\* memset runs on the flag array before it is tested for null
FlagsNotAllocated == "flags" \in AllocFailure

BucketsNotAllocated(cap) == h.cap < cap /\ "buckets" \in AllocFailure

TmpNotAllocated(cap) == "tmp" \in AllocFailure /\ Moved(cap).swap

(***************************************************************************)
(* Calls.                                                                  *)
(***************************************************************************)
Call(o, k) == pc = "ready" /\ op' = o /\ arg' = k

Return(p, a) == pc' = "ready" /\ pos' = p /\ absent' = a

ReturnNothing(o) == Call(o, NoKey) /\ Return(0, 0)

Crash ==
  /\ pc' = "crashed" /\ pos' = 0 /\ absent' = 0
  /\ UNCHANGED <<kind, h, strings, memory>>

Init ==
  /\ kind \in {"generic", "string", "dup"}
  /\ h = Empty
  /\ strings = [a \in Addr |-> Freed]
  /\ memory = {"table"}
  /\ pc = "ready" /\ op = "none" /\ arg = NoKey /\ pos = 0 /\ absent = 0

Get(k) ==
  /\ Call("get", k)
  /\ Return(IF h.cap = 0 THEN 0 ELSE GetIndex(k), 0)
  /\ UNCHANGED <<kind, h, strings, memory>>

(***************************************************************************)
(* khp_put in table g, and what khp_str_put does with the new bucket.      *)
(***************************************************************************)
PutIndex(g, k) ==
  LET stops == {x \in Buckets(g.cap) : x \notin g.used \/ KeyAt(strings, g.b[x]) = k}
  IN  IF stops = {} THEN Home(k, g.cap) ELSE Nearest(stops, Home(k, g.cap), g.cap)

\* malloc and memcpy of khp_str_put: the address the copy of k gets
Copy(a, k) ==
  /\ strings[a] = Freed
  /\ strings' = [strings EXCEPT ![a] = k]

Insert(g, k) ==
  LET s == PutIndex(g, k)
      Write(a) == \E v \in Val :
        h' = [g EXCEPT !.b[s] = [key |-> a, val |-> v],
                       !.used = @ \cup {s}, !.count = @ + 1]
  IN  /\ s \notin g.used
      /\ IF kind = "dup"
           THEN \E a \in Addr : Copy(a, k) /\ Write(a)
           ELSE Write(k) /\ UNCHANGED strings
      /\ Return(s, 1)

Keep_Overwrites(g, k) ==
  /\ PutIndex(g, k) \in g.used
  /\ \E v \in Val : h' = [g EXCEPT !.b[PutIndex(g, k)].val = v]
  /\ Return(PutIndex(g, k), 1)
  /\ UNCHANGED strings

Keep(g, k) ==
  /\ PutIndex(g, k) \in g.used
  /\ h' = g
  /\ Return(PutIndex(g, k), 0)
  /\ UNCHANGED strings

CopyNotAllocated(g, k) ==
  "copy" \in AllocFailure /\ kind = "dup" /\ PutIndex(g, k) \notin g.used

Full == h.count >= MaxCount(h.cap)

Put(k) ==
  /\ Call("put", k)
  /\ ~Full
  /\ \/ (Insert(h, k) \/ Keep(h, k)) /\ UNCHANGED <<kind, memory>>
     \/ CopyNotAllocated(h, k) /\ Crash

PutGrow(k) ==
  /\ Call("put", k)
  /\ Full
  /\ \E cap \in Capacity :
       /\ RoundsUpTo(h.cap + 1, cap)
       /\ \/ /\ Insert(Rehashed(cap), k) \/ Keep(Rehashed(cap), k)
             /\ memory' = memory \cup {"flags", "buckets"}
             /\ UNCHANGED kind
          \/ /\ \/ FlagsNotAllocated
                \/ TmpNotAllocated(cap)
                \/ CopyNotAllocated(Rehashed(cap), k)
             /\ Crash

PutCannotGrow(k) ==
  /\ Call("put", k)
  /\ Full
  /\ \E cap \in Capacity : RoundsUpTo(h.cap + 1, cap) /\ BucketsNotAllocated(cap)

\* khp_put leaves *absent at -1 and returns the end index ...
PutNoMemory(k) ==
  /\ PutCannotGrow(k)
  /\ kind = "generic"
  /\ Return(h.cap, -1)
  /\ UNCHANGED <<kind, h, strings, memory>>

\* ... which khp_str_put takes for a new bucket: it writes behind the last one,
\* through a null pointer if the table is empty, else over memory that is not
\* the table's, with whatever consequence; if there is none, the copy is lost.
StrPutNoMemory(k) ==
  /\ PutCannotGrow(k)
  /\ kind # "generic"
  /\ \/ Crash
     \/ /\ h.cap # 0
        /\ IF kind = "dup" THEN \E a \in Addr : Copy(a, k) ELSE UNCHANGED strings
        /\ Return(h.cap, -1)
        /\ UNCHANGED <<kind, h, memory>>

(***************************************************************************)
(* khp_resize called by the client.                                        *)
(***************************************************************************)
Resize(n) ==
  \E cap \in Capacity :
    /\ RoundsUpTo(n, cap)
    /\ ~TooSmall(cap)
    /\ \/ /\ ReturnNothing("resize")
          /\ h' = Rehashed(cap)
          /\ memory' = memory \cup {"flags", "buckets"}
          /\ UNCHANGED <<kind, strings>>
       \/ /\ Call("resize", NoKey)
          /\ FlagsNotAllocated \/ TmpNotAllocated(cap)
          /\ Crash

ResizeRefused(n) ==
  /\ \E cap \in Capacity :
       RoundsUpTo(n, cap) /\ (TooSmall(cap) \/ BucketsNotAllocated(cap))
  /\ ReturnNothing("resize")
  /\ UNCHANGED <<kind, h, strings, memory>>

(***************************************************************************)
(* khp_del(i) by backward shift: q is the bucket after the scan position j *)
(* and m the heap, from which khp_str_del has already freed the copy.      *)
(***************************************************************************)
MayFill_NoWrap(m, b, hole, q) ==
  LET k == HomeOf(m, b[q], h.cap)
  IN  q > hole /\ (k <= hole \/ k > q)

MayFill(m, b, hole, q) ==
  LET k == HomeOf(m, b[q], h.cap)
  IN  \/ q > hole /\ (k <= hole \/ k > q)
      \/ q < hole /\ (k <= hole /\ k > q)

Scan(m, s) ==
  LET q == NextBucket(s.j, h.cap)
  IN  IF q = s.hole \/ q \notin h.used THEN s
      ELSE IF MayFill(m, s.b, s.hole, q)
        THEN [b |-> [s.b EXCEPT ![s.hole] = s.b[q]], hole |-> q, j |-> q]
      ELSE [s EXCEPT !.j = q]

\* the scan stops before it is back at p
Shift(m, p) ==
  LET turn[n \in Nat] ==
        IF n = 0 THEN [b |-> h.b, hole |-> p, j |-> p] ELSE Scan(m, turn[n - 1])
      s == turn[h.cap]
  IN  [h EXCEPT !.b = [s.b EXCEPT ![s.hole] = NoBucket],
                !.used = @ \ {s.hole}, !.count = @ - 1]

\* The client holds an index put returned.  (One from get designates no
\* element it asked for: see GetIndex.)
Holds == pc = "ready" /\ op = "put" /\ absent # -1

FreeCopy(m, e) == IF kind = "dup" THEN [m EXCEPT ![e.key] = Freed] ELSE m

Del_CopyKept ==
  /\ Holds
  /\ h' = Shift(strings, pos)
  /\ Return(0, 0)
  /\ op' = "del"
  /\ UNCHANGED <<kind, strings, memory, arg>>

Del ==
  /\ Holds
  /\ strings' = FreeCopy(strings, h.b[pos])
  /\ h' = Shift(strings', pos)
  /\ Return(0, 0)
  /\ op' = "del"
  /\ UNCHANGED <<kind, memory, arg>>

DelEmpty ==
  /\ h.cap = 0
  /\ ReturnNothing("none")
  /\ UNCHANGED <<kind, h, strings, memory>>

SetVal(v) ==
  /\ Holds
  /\ h' = [h EXCEPT !.b[pos].val = v]
  /\ UNCHANGED <<kind, strings, memory, pc, call>>

\* khp_clear, which string tables have no variant of: the copies stay
Clear ==
  /\ ReturnNothing("clear")
  /\ h' = [h EXCEPT !.used = {}, !.count = 0, !.b = [x \in DOMAIN @ |-> NoBucket]]
  /\ UNCHANGED <<kind, strings, memory>>

\* khp_str_destroy frees the copies in the table; khp_destroy the buckets and
\* the table, not the flags
Destroy ==
  /\ pc = "ready"
  /\ pc' = "destroyed" /\ op' = "destroy" /\ arg' = NoKey /\ pos' = 0 /\ absent' = 0
  /\ strings' = IF kind = "dup"
                  THEN [a \in Addr |-> IF \E x \in h.used : h.b[x].key = a
                                         THEN Freed ELSE strings[a]]
                  ELSE strings
  /\ memory' = memory \ {"buckets", "table"}
  /\ h' = Empty
  /\ UNCHANGED kind

Over == pc \in {"destroyed", "crashed"} /\ UNCHANGED vars

Next ==
  \/ \E k \in Key :
       Get(k) \/ Put(k) \/ PutGrow(k) \/ PutNoMemory(k) \/ StrPutNoMemory(k)
  \/ \E n \in ResizeRequest : Resize(n) \/ ResizeRefused(n)
  \/ \E v \in Val : SetVal(v)
  \/ Del \/ DelEmpty \/ Clear \/ Destroy \/ Over

Spec == Init /\ [][Next]_vars
=============================================================================
