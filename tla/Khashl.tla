------------------------------- MODULE Khashl -------------------------------
(***************************************************************************)
(* The hash table that KHASHL_INIT of khashl/khashl.h generates: linear    *)
(* probing, deletion by backward shift (no tombstones), and a resize that  *)
(* rehashes in place by kicking elements out of the bucket array.          *)
(*                                                                         *)
(* A call runs to completion before the next one starts, but each turn of  *)
(* each loop is a step of its own, so what holds between two turns can be  *)
(* stated, checked and proved.  A bucket holds a key with its value: the   *)
(* code copies the two together everywhere.                                *)
(***************************************************************************)
EXTENDS Probing, FiniteSets

CONSTANTS
  Val,           \* values a client stores with kh_val
  ResizeRequest, \* sizes a client passes to resize
  AllocFailure,  \* which allocations of resize may fail: "used", "keys"
  NoBucket,      \* content of a bucket whose used flag is clear
  NoKey          \* no call has a result to offer

VARIABLES
  \* struct HType
  nBuckets,      \* h->keys ? 1 << h->bits : 0
  count,         \* h->count
  used,          \* the buckets whose bit is set in h->used
  keys,          \* h->keys
  \* the call in progress, or the last one that returned
  pc,            \* where the code is; "idle" between calls
  op,            \* "get", "put", "del", "resize", "clear", or "none"
  arg,           \* the key given to get or put, or of the element to delete
  pos,           \* the bucket number get or put returned
  absent,        \* *absent as put left it
  \* local variables of the call in progress
  i,             \* probe position (get, put, resize); the hole (del)
  j,             \* the scan position (resize, del)
  newBuckets,    \* new_n_buckets of resize
  newUsed,       \* new_used of resize
  hand           \* the element resize is moving: its local "key"

struct == <<nBuckets, count, used, keys>>
result == <<pos, absent>>
locals == <<i, j, newBuckets, newUsed, hand>>
vars   == <<struct, pc, op, arg, result, locals>>

ASSUME ElementAssumption ==
  /\ NoKey \notin Key
  /\ NoBucket \notin [key : Key, val : Val]
  /\ ResizeRequest \subseteq Nat

Element == [key : Key, val : Val]

\* realloc to n buckets: what is there stays, what is new is indeterminate
Realloc(b, n) == [x \in Buckets(n) |-> IF x \in DOMAIN b THEN b[x] ELSE NoBucket]

Forget(b, S) == [x \in DOMAIN b |-> IF x \in S THEN NoBucket ELSE b[x]]

ClearLocals ==
  /\ i' = 0 /\ j' = 0 /\ newBuckets' = 0 /\ newUsed' = {} /\ hand' = NoBucket

(***************************************************************************)
(* Entering and leaving a call.                                            *)
(***************************************************************************)
Begin(o, k) == pc = "idle" /\ op' = o /\ arg' = k

\* the call returns with no element for the client to refer to
Finish(o) == pc' = "idle" /\ op' = o /\ arg' = NoKey /\ pos' = 0 /\ absent' = 0

ReturnNothing == Finish("none")

\* get and put return bucket number p and, for put, *absent
Return(p, a) == pc' = "idle" /\ pos' = p /\ absent' = a

ForgetResult == pos' = 0 /\ absent' = 0

(***************************************************************************)
(* The client holds the index of an element: get found one, or put was not *)
(* left at -1.  del and kh_val are called only with such an index.         *)
(***************************************************************************)
Holds ==
  /\ pc = "idle"
  /\ \/ op = "get" /\ pos # nBuckets
     \/ op = "put" /\ absent # -1

Init ==
  /\ nBuckets = 0 /\ count = 0 /\ used = {} /\ keys = Realloc(<<>>, 0)
  /\ pc = "idle" /\ op = "none" /\ arg = NoKey /\ pos = 0 /\ absent = 0
  /\ i = 0 /\ j = 0 /\ newBuckets = 0 /\ newUsed = {} /\ hand = NoBucket

(***************************************************************************)
(* The probe loop of getp_core and putp_core:                              *)
(*   while (used(i) && !eq(keys[i], *key)) { i = next; if (i == last) .. } *)
(***************************************************************************)
Mismatch == i \in used /\ keys[i].key # arg

LastProbe == NextBucket(i, nBuckets) = Home(arg, nBuckets)

Probe(loop) ==
  /\ pc = loop
  /\ Mismatch /\ ~LastProbe
  /\ i' = NextBucket(i, nBuckets)
  /\ UNCHANGED <<struct, pc, op, arg, result, j, newBuckets, newUsed, hand>>

(***************************************************************************)
(* getp_core                                                               *)
(***************************************************************************)
GetEmpty(k) ==
  /\ Begin("get", k)
  /\ nBuckets = 0
  /\ Return(0, 0)
  /\ UNCHANGED <<struct, locals>>

GetCall(k) ==
  /\ Begin("get", k)
  /\ nBuckets # 0
  /\ pc' = "get" /\ i' = Home(k, nBuckets)
  /\ ForgetResult
  /\ UNCHANGED <<struct, j, newBuckets, newUsed, hand>>

GetReturn_FlagNotTested ==
  /\ pc = "get"
  /\ Mismatch => LastProbe
  /\ Return(IF ~Mismatch THEN i ELSE nBuckets, 0)
  /\ ClearLocals
  /\ UNCHANGED <<struct, op, arg>>

GetReturn ==
  /\ pc = "get"
  /\ Mismatch => LastProbe
  /\ Return(IF i \in used /\ ~Mismatch THEN i ELSE nBuckets, 0)
  /\ ClearLocals
  /\ UNCHANGED <<struct, op, arg>>

(***************************************************************************)
(* resize(new_n_buckets), called by a client or by put.  It gives up if    *)
(* the elements do not fit, and reports -1 if the bucket array cannot be   *)
(* reallocated.  The flag array is cleared before it is tested for null,   *)
(* so that a failure to allocate it stops the program.  Giving memory back *)
(* (the realloc of a shrinking table) is taken to succeed.                 *)
(***************************************************************************)
TooSmall(cap) == count > MaxCount(cap)

FlagsNotAllocated(cap) == ~TooSmall(cap) /\ "used" \in AllocFailure

BucketsNotAllocated(cap) ==
  ~TooSmall(cap) /\ nBuckets < cap /\ "keys" \in AllocFailure

StartMoving(cap) ==
  /\ ~TooSmall(cap)
  /\ keys' = IF nBuckets < cap THEN Realloc(keys, cap) ELSE keys
  /\ pc' = "move" /\ j' = 0 /\ newBuckets' = cap /\ newUsed' = {}
  /\ ForgetResult
  /\ UNCHANGED <<nBuckets, count, used, i, hand>>

Crash == pc' = "crashed" /\ ForgetResult /\ UNCHANGED <<struct, locals>>

ResizeRefused(n) ==
  /\ pc = "idle"
  /\ \E cap \in Capacity :
       RoundsUpTo(n, cap) /\ (TooSmall(cap) \/ BucketsNotAllocated(cap))
  /\ ReturnNothing
  /\ UNCHANGED <<struct, locals>>

ResizeCall(n) ==
  /\ Begin("resize", NoKey)
  /\ \E cap \in Capacity :
       /\ RoundsUpTo(n, cap)
       /\ StartMoving(cap) \/ (FlagsNotAllocated(cap) /\ Crash)

(***************************************************************************)
(* for (j = 0; j != n_buckets; ++j): bucket j is empty, or its element is  *)
(* taken in hand and its old flag cleared.                                 *)
(***************************************************************************)
MoveSkip ==
  /\ pc = "move"
  /\ j # nBuckets /\ j \notin used
  /\ j' = j + 1
  /\ UNCHANGED <<struct, pc, op, arg, result, i, newBuckets, newUsed, hand>>

MoveTake ==
  /\ pc = "move"
  /\ j # nBuckets /\ j \in used
  /\ hand' = keys[j]
  /\ used' = used \ {j}
  /\ keys' = Forget(keys, {j})
  /\ i' = Home(keys[j].key, newBuckets)
  /\ pc' = "kick"
  /\ UNCHANGED <<nBuckets, count, op, arg, result, j, newBuckets, newUsed>>

\* while (used(new_used, i)) i = (i + 1) & new_mask
KickProbe ==
  /\ pc = "kick"
  /\ i \in newUsed
  /\ i' = NextBucket(i, newBuckets)
  /\ UNCHANGED <<struct, pc, op, arg, result, j, newBuckets, newUsed, hand>>

\* the target still holds an element of the old table: exchange the two
KickSwap ==
  /\ pc = "kick"
  /\ i \notin newUsed
  /\ i < nBuckets /\ i \in used
  /\ newUsed' = newUsed \cup {i}
  /\ used' = used \ {i}
  /\ keys' = [keys EXCEPT ![i] = hand]
  /\ hand' = keys[i]
  /\ i' = Home(keys[i].key, newBuckets)
  /\ UNCHANGED <<nBuckets, count, pc, op, arg, result, j, newBuckets>>

\* the target is free: write the element and go on with the outer loop
KickPlace ==
  /\ pc = "kick"
  /\ i \notin newUsed
  /\ ~(i < nBuckets /\ i \in used)
  /\ newUsed' = newUsed \cup {i}
  /\ keys' = [keys EXCEPT ![i] = hand]
  /\ hand' = NoBucket
  /\ i' = 0
  /\ j' = j + 1
  /\ pc' = "move"
  /\ UNCHANGED <<nBuckets, count, used, op, arg, result, newBuckets>>

(***************************************************************************)
(* The end of resize; put goes on with its probe in the new table.         *)
(***************************************************************************)
MoveDone ==
  /\ pc = "move"
  /\ j = nBuckets
  /\ keys' = Realloc(keys, newBuckets)
  /\ used' = newUsed
  /\ nBuckets' = newBuckets
  /\ j' = 0 /\ newBuckets' = 0 /\ newUsed' = {}
  /\ IF op = "put"
       THEN /\ pc' = "put" /\ i' = Home(arg, newBuckets)
            /\ UNCHANGED <<op, arg, result>>
       ELSE /\ ReturnNothing /\ UNCHANGED i
  /\ UNCHANGED <<count, hand>>

(***************************************************************************)
(* putp_core.  *absent starts at -1 and stays there if resize fails.       *)
(***************************************************************************)
Full == count >= MaxCount(nBuckets)

PutCall(k) ==
  /\ Begin("put", k)
  /\ ~Full
  /\ pc' = "put" /\ i' = Home(k, nBuckets)
  /\ ForgetResult
  /\ UNCHANGED <<struct, j, newBuckets, newUsed, hand>>

PutGrow(k) ==
  /\ Begin("put", k)
  /\ Full
  /\ \E cap \in Capacity :
       /\ RoundsUpTo(nBuckets + 1, cap)
       /\ \/ StartMoving(cap)
          \/ FlagsNotAllocated(cap) /\ Crash
          \/ /\ BucketsNotAllocated(cap)
             /\ Return(nBuckets, -1)
             /\ UNCHANGED <<struct, locals>>

\* where the probe loop of put stops: the loop condition fails at i, or the
\* probe has come round to where it started
Stop == IF Mismatch THEN Home(arg, nBuckets) ELSE i

PutReturn_Overwrites ==
  /\ pc = "put"
  /\ Mismatch => LastProbe
  /\ \E v \in Val : keys' = [keys EXCEPT ![Stop] = [key |-> arg, val |-> v]]
  /\ used' = used \cup {Stop}
  /\ count' = IF Stop \in used THEN count ELSE count + 1
  /\ Return(Stop, IF Stop \in used THEN 0 ELSE 1)
  /\ ClearLocals
  /\ UNCHANGED <<nBuckets, op, arg>>

PutReturn ==
  /\ pc = "put"
  /\ Mismatch => LastProbe
  /\ IF Stop \notin used
       THEN /\ \E v \in Val : keys' = [keys EXCEPT ![Stop] = [key |-> arg, val |-> v]]
            /\ used' = used \cup {Stop}
            /\ count' = count + 1
            /\ Return(Stop, 1)
       ELSE /\ Return(Stop, 0)
            /\ UNCHANGED <<count, used, keys>>
  /\ ClearLocals
  /\ UNCHANGED <<nBuckets, op, arg>>

(***************************************************************************)
(* del(i): i is the hole, j looks for an element that may fill it.         *)
(***************************************************************************)
DelEmpty ==
  /\ pc = "idle" /\ nBuckets = 0
  /\ ReturnNothing
  /\ UNCHANGED <<struct, locals>>

DelCall ==
  /\ Holds
  /\ pc' = "del" /\ op' = "del"
  /\ i' = pos /\ j' = pos
  /\ ForgetResult
  /\ UNCHANGED <<struct, arg, newBuckets, newUsed, hand>>

MayFill_NoWrap(hole, q) ==
  LET k == Home(keys[q].key, nBuckets)
  IN  q > hole /\ (k <= hole \/ k > q)

\* k = h2b(keys[q]) is not (circularly) in (hole, q]: q's element may move
MayFill(hole, q) ==
  LET k == Home(keys[q].key, nBuckets)
  IN  \/ q > hole /\ (k <= hole \/ k > q)
      \/ q < hole /\ (k <= hole /\ k > q)

DelScan_FromHole ==
  LET q == NextBucket(i, nBuckets)
  IN  /\ pc = "del"
      /\ NextBucket(j, nBuckets) # i /\ NextBucket(j, nBuckets) \in used
      /\ j' = q
      /\ IF MayFill(i, q)
           THEN keys' = [keys EXCEPT ![i] = keys[q]] /\ i' = q
           ELSE UNCHANGED <<keys, i>>
      /\ UNCHANGED <<nBuckets, count, used, pc, op, arg, result,
                     newBuckets, newUsed, hand>>

DelScan ==
  LET q == NextBucket(j, nBuckets)
  IN  /\ pc = "del"
      /\ q # i /\ q \in used
      /\ j' = q
      /\ IF MayFill(i, q)
           THEN keys' = [keys EXCEPT ![i] = keys[q]] /\ i' = q
           ELSE UNCHANGED <<keys, i>>
      /\ UNCHANGED <<nBuckets, count, used, pc, op, arg, result,
                     newBuckets, newUsed, hand>>

DelReturn ==
  LET q == NextBucket(j, nBuckets)
  IN  /\ pc = "del"
      /\ q = i \/ q \notin used
      /\ used' = used \ {i}
      /\ keys' = Forget(keys, {i})
      /\ count' = count - 1
      /\ ReturnNothing
      /\ ClearLocals
      /\ UNCHANGED nBuckets

(***************************************************************************)
(* kh_val(h, x) = v through an index the client holds; clear; destroy      *)
(* followed by init.                                                       *)
(***************************************************************************)
SetVal(v) ==
  /\ Holds
  /\ keys' = [keys EXCEPT ![pos].val = v]
  /\ UNCHANGED <<nBuckets, count, used, pc, op, arg, result, locals>>

Clear ==
  /\ pc = "idle"
  /\ used' = {} /\ count' = 0
  /\ keys' = Forget(keys, DOMAIN keys)
  /\ Finish("clear")
  /\ UNCHANGED <<nBuckets, locals>>

DestroyInit ==
  /\ pc = "idle"
  /\ nBuckets' = 0 /\ count' = 0 /\ used' = {} /\ keys' = Realloc(<<>>, 0)
  /\ Finish("clear")
  /\ UNCHANGED locals

\* a program that has been stopped does nothing more
Crashed == pc = "crashed" /\ UNCHANGED vars

Call ==
  \/ \E k \in Key : GetEmpty(k) \/ GetCall(k) \/ PutCall(k) \/ PutGrow(k)
  \/ \E n \in ResizeRequest : ResizeRefused(n) \/ ResizeCall(n)
  \/ \E v \in Val : SetVal(v)
  \/ DelEmpty \/ DelCall \/ Clear \/ DestroyInit

Step ==
  \/ Probe("get") \/ GetReturn
  \/ Probe("put") \/ PutReturn
  \/ MoveSkip \/ MoveTake \/ KickProbe \/ KickSwap \/ KickPlace \/ MoveDone
  \/ DelScan \/ DelReturn

Next == Call \/ Step \/ Crashed

(***************************************************************************)
(* A thread that is inside a call keeps running; clients need not call.    *)
(***************************************************************************)
Spec == Init /\ [][Next]_vars /\ WF_vars(Step)
=============================================================================
