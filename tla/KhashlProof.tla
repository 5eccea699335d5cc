---------------------------- MODULE KhashlProof ----------------------------
(***************************************************************************)
(* Proofs about Khashl: its invariants hold for every set of keys, every   *)
(* hash function, every word size and every capacity.                      *)
(***************************************************************************)
EXTENDS KhashlProps, FiniteSetTheorems

\* The sizes are numbers, the flag sets finite, and the bucket array spans both the
\* old and the new capacity.
LEMMA TableFacts ==
  ASSUME TypeOK
  PROVE  /\ nBuckets \in Nat /\ newBuckets \in Nat
         /\ IsFiniteSet(used) /\ IsFiniteSet(newUsed)
         /\ Cardinality(used) \in Nat /\ Cardinality(newUsed) \in Nat
         /\ Larger(nBuckets, newBuckets) \in Nat
         /\ Buckets(nBuckets) \subseteq DOMAIN keys
         /\ Buckets(newBuckets) \subseteq DOMAIN keys
<1>1. nBuckets \in Nat /\ newBuckets \in Nat
  BY CapacityAssumption DEF TypeOK
<1>2. IsFiniteSet(Buckets(nBuckets)) /\ IsFiniteSet(Buckets(newBuckets))
  BY <1>1, FS_Interval DEF Buckets
<1>3. IsFiniteSet(used) /\ IsFiniteSet(newUsed)
  BY <1>2, FS_Subset DEF TypeOK
<1>4. Cardinality(used) \in Nat /\ Cardinality(newUsed) \in Nat
  BY <1>3, FS_CardinalityType
<1>5. /\ Larger(nBuckets, newBuckets) \in Nat
      /\ Buckets(nBuckets) \subseteq DOMAIN keys
      /\ Buckets(newBuckets) \subseteq DOMAIN keys
  BY <1>1 DEF TypeOK, Larger, Buckets
<1> QED
  BY <1>1, <1>3, <1>4, <1>5

\* The load limit keeps a flag clear.
LEMMA SomeFlagIsClear ==
  ASSUME TypeOK, CountIsElements, nBuckets # 0
  PROVE  ~(Buckets(nBuckets) \subseteq used)
<1> SUFFICES ASSUME Buckets(nBuckets) \subseteq used PROVE FALSE
  OBVIOUS
<1>1. nBuckets \in Capacity
  BY DEF TypeOK
<1>2. MaxCount(nBuckets) \in Nat /\ MaxCount(nBuckets) < nBuckets /\ nBuckets \in Nat
  BY <1>1, MaxCountBelow
<1>3. Cardinality(Buckets(nBuckets)) = nBuckets
  BY <1>2, FS_Interval DEF Buckets
<1>4. Cardinality(Buckets(nBuckets)) <= Cardinality(used)
  BY FS_Subset, TableFacts
<1>5. Cardinality(used) <= count
  BY TableFacts DEF CountIsElements, TypeOK
<1> QED
  BY <1>2, <1>3, <1>4, <1>5, TableFacts DEF CountIsElements, TypeOK

\* Elements that stay where they are keep their keys apart.
LEMMA UniqueKeysStay ==
  ASSUME IInv, pc' # "kick", Live' \subseteq Live, \A x \in Live' : keys'[x] = keys[x]
  PROVE  UniqueKeys'
<1>1. \A x, y \in Live : keys[x].key = keys[y].key => x = y
  BY DEF IInv, UniqueKeys
<1> QED
  BY <1>1 DEF UniqueKeys

(***************************************************************************)
(* A call that begins or ends without touching the table.                  *)
(***************************************************************************)
LEMMA TableStays ==
  ASSUME IInv, pc = "idle", UNCHANGED <<struct, locals>>,
         pc' \in {"idle", "crashed"},
         op' \in {"none", "get", "put", "del", "resize", "clear"},
         arg' \in Key \cup {NoKey}, pos' \in Nat, absent' \in {-1, 0, 1},
         op' \in {"get", "put"} => arg' \in Key,
         AnswerIsRight'
  PROVE  IInv'
<1> USE DEF IInv, LoopInvariant, struct, locals
<1>1. TypeOK'
  BY DEF TypeOK
<1>2. FlaggedIsPlaced'
  BY DEF FlaggedIsPlaced
<1>3. CallShape'
  BY DEF CallShape, Resizing
<1>4. ProbeLoop' /\ MoveLoop' /\ DelLoop'
  BY DEF ProbeLoop, MoveLoop, DelLoop, Resizing
<1>5. ProbeInvariant' /\ NewProbeInvariant'
  BY DEF ProbeInvariant, NewProbeInvariant, Resizing
<1>6. UniqueKeys'
  BY DEF UniqueKeys, Live
<1>7. CountIsElements'
  BY DEF CountIsElements
<1> QED
  BY <1>1, <1>2, <1>3, <1>4, <1>5, <1>6, <1>7

\* getp_core returns 0 at once when no bucket array was ever allocated.
LEMMA GetEmptyStep ==
  ASSUME IInv, NEW k \in Key, GetEmpty(k)
  PROVE  IInv'
<1>1. used = {}
  BY DEF GetEmpty, IInv, TypeOK, Buckets
<1>2. AnswerIsRight'
  BY <1>1 DEF GetEmpty, Begin, Return, AnswerIsRight, Holds, struct
<1> QED
  BY <1>2, TableStays DEF GetEmpty, Begin, Return

\* A resize that is refused and a del of an empty table change nothing.
LEMMA ReturnNothingStep ==
  ASSUME IInv, pc = "idle", ReturnNothing, UNCHANGED <<struct, locals>>
  PROVE  IInv'
<1>1. AnswerIsRight'
  BY DEF ReturnNothing, Finish, AnswerIsRight, Holds
<1> QED
  BY <1>1, TableStays DEF ReturnNothing, Finish

\* The memset of a flag array that was not allocated stops the program.
LEMMA CrashStep ==
  ASSUME IInv, NEW o \in {"put", "resize"}, NEW k \in Key \cup {NoKey},
         Begin(o, k), o = "put" => k \in Key, Crash
  PROVE  IInv'
<1>1. AnswerIsRight'
  BY DEF Crash, AnswerIsRight, Holds
<1> QED
  BY <1>1, TableStays DEF Begin, Crash, ForgetResult

\* put gave up: *absent is still -1
LEMMA PutRefusedStep ==
  ASSUME IInv, NEW k \in Key, Begin("put", k), Return(nBuckets, -1),
         UNCHANGED <<struct, locals>>
  PROVE  IInv'
<1>1. AnswerIsRight'
  BY DEF Begin, Return, AnswerIsRight, Holds
<1> QED
  BY <1>1, TableStays, TableFacts DEF Begin, Return, IInv

(***************************************************************************)
(* The probe loops of get and put.                                         *)
(***************************************************************************)
LEMMA ProbeBegins ==
  ASSUME IInv, pc = "idle", NEW k \in Key, nBuckets # 0,
         NEW o \in {"get", "put"}, op' = o, pc' = o, arg' = k,
         o = "put" => count < MaxCount(nBuckets),
         i' = Home(k, nBuckets), ForgetResult,
         UNCHANGED <<struct, j, newBuckets, newUsed, hand>>
  PROVE  IInv'
<1> USE DEF IInv, LoopInvariant, struct, ForgetResult
<1>1. nBuckets \in Nat /\ Home(k, nBuckets) \in Buckets(nBuckets)
  BY TableFacts, HomeInBuckets
<1>2. TypeOK'
  BY <1>1 DEF TypeOK, Buckets
<1>3. FlaggedIsPlaced'
  BY DEF FlaggedIsPlaced
<1>4. CallShape'
  BY DEF CallShape, Resizing
<1>5. ProbeLoop'
  BY <1>1, PathAtHome DEF ProbeLoop
<1>6. MoveLoop' /\ DelLoop'
  BY DEF MoveLoop, DelLoop, Resizing
<1>7. ProbeInvariant' /\ NewProbeInvariant'
  BY DEF ProbeInvariant, NewProbeInvariant, Resizing
<1>8. UniqueKeys' /\ CountIsElements'
  BY DEF UniqueKeys, Live, CountIsElements
<1>9. AnswerIsRight'
  BY DEF AnswerIsRight, Holds
<1> QED
  BY <1>2, <1>3, <1>4, <1>5, <1>6, <1>7, <1>8, <1>9

\* A turn of the probe loop of getp_core or putp_core: one more bucket passed over.
LEMMA ProbeStep ==
  ASSUME IInv, NEW loop \in {"get", "put"}, Probe(loop)
  PROVE  IInv'
<1> USE DEF IInv, LoopInvariant, struct, result, Probe
<1>1. nBuckets \in Nat /\ i \in Buckets(nBuckets) /\ arg \in Key
  BY TableFacts DEF ProbeLoop, CallShape
<1>2. nBuckets > 0
  BY <1>1 DEF Buckets
<1>3. /\ Home(arg, nBuckets) \in Buckets(nBuckets)
      /\ NextBucket(i, nBuckets) \in Buckets(nBuckets)
  BY <1>1, <1>2, HomeInBuckets, NextBucketType
<1>4. TypeOK'
  BY <1>1, <1>3 DEF TypeOK, Buckets
<1>5. FlaggedIsPlaced'
  BY DEF FlaggedIsPlaced
<1>6. CallShape'
  BY DEF CallShape, Resizing
<1>7. ProbeLoop'
  BY <1>1, <1>3, PathNext DEF ProbeLoop, Mismatch
<1>8. MoveLoop' /\ DelLoop'
  BY DEF MoveLoop, DelLoop, Resizing
<1>9. ProbeInvariant' /\ NewProbeInvariant'
  BY DEF ProbeInvariant, NewProbeInvariant, Resizing
<1>10. UniqueKeys' /\ CountIsElements' /\ AnswerIsRight'
  BY DEF UniqueKeys, Live, CountIsElements, AnswerIsRight, Holds
<1> QED
  BY <1>4, <1>5, <1>6, <1>7, <1>8, <1>9, <1>10

\* A probe that stops at a clear flag has proved the key absent: an element
\* with that key would have its whole probe sequence flagged.
LEMMA ClearFlagMeansAbsent ==
  ASSUME IInv, pc \in {"get", "put"}, i \notin used, NEW x \in used
  PROVE  keys[x].key # arg
<1> SUFFICES ASSUME keys[x].key = arg PROVE FALSE
  OBVIOUS
<1> DEFINE h == Home(arg, nBuckets)
<1>1. nBuckets \in Nat /\ i \in Buckets(nBuckets) /\ arg \in Key
  BY TableFacts DEF IInv, LoopInvariant, ProbeLoop, CallShape
<1>2. h \in Buckets(nBuckets)
  BY <1>1, HomeInBuckets DEF Buckets
<1>3. x \in Buckets(nBuckets) /\ x # i
  BY DEF IInv, TypeOK
<1>4. Path(h, x, nBuckets) \subseteq used
  BY DEF IInv, ProbeInvariant, Resizing
<1>5. \A b \in Path(h, i, nBuckets) : keys[b].key # arg
  BY DEF IInv, LoopInvariant, ProbeLoop
<1>6. x \in Path(h, i, nBuckets) \/ i \in Path(h, x, nBuckets)
  BY <1>1, <1>2, <1>3, PathTotal
<1> QED
  BY <1>4, <1>5, <1>6

\* A probe that has come round has seen every bucket.
LEMMA RoundMeansAbsent ==
  ASSUME IInv, pc \in {"get", "put"}, Mismatch, LastProbe
  PROVE  \A x \in Buckets(nBuckets) : x \in used /\ keys[x].key # arg
<1>1. nBuckets \in Nat /\ i \in Buckets(nBuckets) /\ arg \in Key
  BY TableFacts DEF IInv, LoopInvariant, ProbeLoop, CallShape
<1>2. Home(arg, nBuckets) \in Buckets(nBuckets)
  BY <1>1, HomeInBuckets DEF Buckets
<1>3. Buckets(nBuckets) \subseteq Path(Home(arg, nBuckets), i, nBuckets) \cup {i}
  BY <1>1, <1>2, PathRound DEF LastProbe
<1> QED
  BY <1>3 DEF IInv, LoopInvariant, ProbeLoop, Mismatch

\* getp_core returns: what stopped the probe decides the answer.
LEMMA GetReturnStep ==
  ASSUME IInv, GetReturn
  PROVE  IInv'
<1> USE DEF IInv, LoopInvariant, struct, GetReturn, Return, ClearLocals
<1>1. nBuckets \in Nat /\ i \in Buckets(nBuckets) /\ op = "get" /\ arg \in Key
  BY TableFacts DEF ProbeLoop, CallShape
<1>2. TypeOK'
  BY <1>1 DEF TypeOK, Buckets, CallShape, Resizing
<1>3. FlaggedIsPlaced'
  BY DEF FlaggedIsPlaced
<1>4. CallShape'
  BY DEF CallShape, Resizing
<1>5. ProbeLoop' /\ MoveLoop' /\ DelLoop'
  BY DEF ProbeLoop, MoveLoop, DelLoop, Resizing
<1>6. ProbeInvariant' /\ NewProbeInvariant'
  BY DEF ProbeInvariant, NewProbeInvariant, Resizing
<1>7. UniqueKeys' /\ CountIsElements'
  BY DEF UniqueKeys, Live, CountIsElements, CallShape, Resizing
<1>8. AnswerIsRight'
  <2>1. CASE i \in used /\ ~Mismatch
    BY <1>1, <2>1 DEF AnswerIsRight, Holds, Mismatch, Buckets
  <2>2. CASE i \notin used
    BY <1>1, <2>2, ClearFlagMeansAbsent DEF AnswerIsRight, Holds
  <2>3. CASE Mismatch
    BY <1>1, <2>3, RoundMeansAbsent DEF AnswerIsRight, Holds, TypeOK
  <2> QED
    BY <2>1, <2>2, <2>3
<1> QED
  BY <1>2, <1>3, <1>4, <1>5, <1>6, <1>7, <1>8

\* putp_core returns: its probe cannot have come round, because some flag is clear,
\* so it stands at the element or at the bucket where the element belongs.
LEMMA PutReturnStep ==
  ASSUME IInv, PutReturn
  PROVE  IInv'
<1> USE DEF IInv, LoopInvariant, struct
<1>1. /\ nBuckets \in Nat /\ i \in Buckets(nBuckets) /\ op = "put" /\ arg \in Key
      /\ newUsed = {} /\ newBuckets = 0 /\ pc = "put" /\ count < MaxCount(nBuckets)
  BY TableFacts DEF ProbeLoop, CallShape, PutReturn, Resizing
<1>2. nBuckets # 0
  BY <1>1 DEF Buckets
<1>3. ~Mismatch
  BY <1>1, <1>2, RoundMeansAbsent, SomeFlagIsClear DEF PutReturn
<1>4. Stop = i
  BY <1>3 DEF Stop
<1>5. /\ pc' = "idle" /\ op' = "put" /\ arg' = arg /\ pos' = i /\ i' = 0 /\ j' = 0
      /\ newUsed' = {} /\ newBuckets' = 0 /\ hand' = NoBucket /\ nBuckets' = nBuckets
  BY <1>1, <1>4 DEF PutReturn, Return, ClearLocals
<1>6. CASE i \in used
  <2>1. UNCHANGED <<used, keys, count>> /\ absent' = 0
    BY <1>4, <1>6 DEF PutReturn, Return
  <2>2. keys[i].key = arg
    BY <1>3, <1>6 DEF Mismatch
  <2>3. TypeOK'
    BY <1>1, <1>5, <2>1 DEF TypeOK, Buckets
  <2>4. FlaggedIsPlaced'
    BY <1>5, <2>1 DEF FlaggedIsPlaced
  <2>5. CallShape' /\ ProbeLoop' /\ MoveLoop' /\ DelLoop'
    BY <1>1, <1>5 DEF CallShape, Resizing, ProbeLoop, MoveLoop, DelLoop
  <2>6. ProbeInvariant' /\ NewProbeInvariant'
    BY <1>1, <1>5, <2>1 DEF ProbeInvariant, NewProbeInvariant, Resizing
  <2>7. UniqueKeys' /\ CountIsElements'
    <3>1. Live' = Live
      BY <1>1, <1>5, <2>1 DEF Live
    <3>2. UniqueKeys'
      BY <1>5, <2>1, <3>1, UniqueKeysStay
    <3>3. CountIsElements'
      BY <1>1, <1>5, <2>1 DEF CountIsElements
    <3> QED
      BY <3>2, <3>3
  <2>8. AnswerIsRight'
    BY <1>5, <1>6, <2>1, <2>2 DEF AnswerIsRight, Holds
  <2> QED
    BY <2>3, <2>4, <2>5, <2>6, <2>7, <2>8
<1>7. CASE i \notin used
  <2>1. used' = used \cup {i} /\ count' = count + 1 /\ absent' = 1
    BY <1>4, <1>7 DEF PutReturn, Return
  <2>2. PICK v \in Val : keys' = [keys EXCEPT ![i] = [key |-> arg, val |-> v]]
    BY <1>4, <1>7 DEF PutReturn
  <2>3. i \in DOMAIN keys /\ [key |-> arg, val |-> v] \in Placed
    BY <1>1, TableFacts DEF Placed
  <2>4. /\ DOMAIN keys' = DOMAIN keys
        /\ keys'[i] = [key |-> arg, val |-> v]
        /\ \A x \in used : x # i /\ keys'[x] = keys[x] /\ keys[x].key # arg
    BY <1>1, <1>7, <2>2, <2>3, ClearFlagMeansAbsent DEF TypeOK
  <2>5. TypeOK'
    BY <1>1, <1>5, <2>1, <2>2, <2>3 DEF TypeOK
  <2>6. FlaggedIsPlaced'
    BY <1>1, <1>5, <2>1, <2>3, <2>4 DEF FlaggedIsPlaced
  <2>7. CallShape' /\ ProbeLoop' /\ MoveLoop' /\ DelLoop'
    BY <1>1, <1>5 DEF CallShape, Resizing, ProbeLoop, MoveLoop, DelLoop
  <2>8. ProbeInvariant' /\ NewProbeInvariant'
    <3>1. Path(Home(arg, nBuckets), i, nBuckets) \subseteq used
      BY <1>1 DEF ProbeLoop
    <3> QED
      BY <1>1, <1>5, <2>1, <2>4, <3>1 DEF ProbeInvariant, NewProbeInvariant, Resizing
  <2>9. UniqueKeys'
    BY <1>1, <1>5, <2>1, <2>4 DEF UniqueKeys, Live
  <2>10. CountIsElements'
    <3>1. Cardinality(used') = Cardinality(used) + 1
      BY <1>7, <2>1, TableFacts, FS_AddElement
    <3>2. nBuckets \in Capacity
      BY <1>2 DEF TypeOK
    <3>3. count + 1 <= MaxCount(nBuckets)
      BY <1>1, <3>2, MaxCountBelow DEF TypeOK
    <3>4. newUsed' = newUsed /\ pc # "kick" /\ pc' # "kick"
      BY <1>1, <1>5
    <3>5. count + 1 = (Cardinality(used) + 1) + Cardinality(newUsed) + 0
      BY <3>4, TableFacts DEF CountIsElements, TypeOK
    <3> QED
      BY <1>5, <2>1, <3>1, <3>3, <3>4, <3>5 DEF CountIsElements
  <2>11. AnswerIsRight'
    BY <1>5, <2>1, <2>4 DEF AnswerIsRight, Holds
  <2> QED
    BY <2>5, <2>6, <2>7, <2>8, <2>9, <2>10, <2>11
<1> QED
  BY <1>6, <1>7

(***************************************************************************)
(* resize.  The load limit of the new capacity admits every element, and   *)
(* one more when put is the caller.                                        *)
(***************************************************************************)
LEMMA StartMovingStep ==
  ASSUME IInv, NEW o \in {"put", "resize"}, NEW k \in Key \cup {NoKey},
         Begin(o, k), o = "put" => k \in Key,
         NEW cap \in Capacity, StartMoving(cap),
         o = "put" => count < MaxCount(cap)
  PROVE  IInv'
<1> USE DEF IInv, LoopInvariant, StartMoving, Begin, ForgetResult
<1>1. /\ cap \in Nat /\ cap > 0 /\ nBuckets \in Nat /\ newUsed = {} /\ newBuckets = 0
      /\ newBuckets' = cap /\ newUsed' = {} /\ pc = "idle" /\ pc' = "move"
  BY CapacityAssumption, TableFacts DEF CallShape, Resizing
<1>2. keys \in [Buckets(nBuckets) -> Placed \cup {NoBucket}]
  BY <1>1 DEF TypeOK, Larger
<1>3. /\ keys' \in [Buckets(Larger(nBuckets, cap)) -> Placed \cup {NoBucket}]
      /\ \A x \in Buckets(nBuckets) : x \in DOMAIN keys' /\ keys'[x] = keys[x]
  <2>1. CASE nBuckets < cap
    BY <1>1, <1>2, <2>1 DEF Larger, Realloc, Buckets
  <2>2. CASE ~(nBuckets < cap)
    BY <1>1, <1>2, <2>2 DEF Larger
  <2> QED
    BY <2>1, <2>2
<1>4. \A x \in used : x \in DOMAIN keys' /\ keys'[x] = keys[x]
  BY <1>3 DEF TypeOK
<1>5. TypeOK'
  BY <1>1, <1>3 DEF TypeOK
<1>6. FlaggedIsPlaced'
  BY <1>1, <1>4 DEF FlaggedIsPlaced
<1>7. CallShape' /\ ProbeLoop' /\ DelLoop'
  BY <1>1 DEF CallShape, ProbeLoop, DelLoop, Resizing
<1>8. MoveLoop'
  <2>1. count <= MaxCount(cap)
    BY MaxCountBelow DEF TooSmall, TypeOK
  <2>2. \A x \in used : x >= 0
    BY DEF TypeOK, Buckets
  <2> QED
    BY <1>1, <2>1, <2>2 DEF MoveLoop, Resizing
<1>9. ProbeInvariant' /\ NewProbeInvariant'
  BY <1>1 DEF ProbeInvariant, NewProbeInvariant, Resizing
<1>10. UniqueKeys'
  BY <1>1, <1>4 DEF UniqueKeys, Live
<1>11. CountIsElements' /\ AnswerIsRight'
  BY <1>1 DEF CountIsElements, AnswerIsRight, Holds
<1> QED
  BY <1>5, <1>6, <1>7, <1>8, <1>9, <1>10, <1>11

\* resize passes over an empty bucket of the old table.
LEMMA MoveSkipStep ==
  ASSUME IInv, MoveSkip
  PROVE  IInv'
<1> USE DEF IInv, LoopInvariant, MoveSkip, struct, result
<1>1. TypeOK' /\ FlaggedIsPlaced' /\ CallShape' /\ ProbeLoop' /\ DelLoop'
  BY DEF TypeOK, FlaggedIsPlaced, CallShape, ProbeLoop, DelLoop, Resizing
<1>2. MoveLoop'
  <2>1. j + 1 <= nBuckets
    BY TableFacts DEF MoveLoop, Resizing, TypeOK
  <2>2. \A x \in used : x >= j + 1
    BY TableFacts DEF MoveLoop, Resizing, TypeOK, Buckets
  <2> QED
    BY <2>1, <2>2 DEF MoveLoop, Resizing
<1>3. /\ ProbeInvariant' /\ NewProbeInvariant' /\ UniqueKeys'
      /\ CountIsElements' /\ AnswerIsRight'
  BY DEF ProbeInvariant, NewProbeInvariant, UniqueKeys, Live, CountIsElements,
         AnswerIsRight, Holds, Resizing
<1> QED
  BY <1>1, <1>2, <1>3

\* resize takes an element in hand and clears its old flag.
LEMMA MoveTakeStep ==
  ASSUME IInv, MoveTake
  PROVE  IInv'
<1> USE DEF IInv, LoopInvariant, MoveTake, result
<1>1. /\ pc = "move" /\ pc' = "kick" /\ newBuckets \in Capacity /\ newBuckets \in Nat
      /\ nBuckets \in Nat /\ j \in Nat /\ j < nBuckets /\ j \in used /\ j \notin newUsed
  BY TableFacts DEF MoveLoop, Resizing, TypeOK, Buckets
<1>2. j \in DOMAIN keys /\ keys[j] \in Placed /\ keys[j].key \in Key
  BY <1>1 DEF FlaggedIsPlaced, Placed
<1>3. newBuckets > 0
  BY <1>1, MaxCountBelow
<1>4. Home(keys[j].key, newBuckets) \in Buckets(newBuckets)
  BY <1>1, <1>2, <1>3, HomeInBuckets
<1>5. /\ DOMAIN keys' = DOMAIN keys
      /\ \A x \in DOMAIN keys : x # j => keys'[x] = keys[x]
      /\ keys' \in [Buckets(Larger(nBuckets, newBuckets)) -> Placed \cup {NoBucket}]
  BY DEF Forget, TypeOK
<1>6. TypeOK'
  <2>1. i' \in Nat /\ used' \subseteq Buckets(nBuckets) /\ hand' \in Placed
    BY <1>1, <1>2, <1>4 DEF Buckets, TypeOK
  <2> QED
    BY <1>1, <1>5, <2>1 DEF TypeOK
<1>7. FlaggedIsPlaced'
  BY <1>1, <1>2, <1>5 DEF FlaggedIsPlaced
<1>8. CallShape' /\ ProbeLoop' /\ DelLoop'
  BY <1>1 DEF CallShape, ProbeLoop, DelLoop, Resizing
<1>9. MoveLoop'
  BY <1>1, <1>4, PathAtHome DEF MoveLoop, Resizing
<1>10. ProbeInvariant' /\ NewProbeInvariant'
  BY <1>1, <1>5 DEF ProbeInvariant, NewProbeInvariant, Resizing, FlaggedIsPlaced
<1>11. UniqueKeys'
  BY <1>1, <1>5 DEF UniqueKeys, Live, FlaggedIsPlaced
<1>12. CountIsElements'
  <2>1. Cardinality(used') = Cardinality(used) - 1
    BY <1>1, TableFacts, FS_RemoveElement
  <2> QED
    BY <1>1, <2>1, TableFacts DEF CountIsElements, TypeOK
<1>13. AnswerIsRight'
  BY <1>1 DEF AnswerIsRight, Holds
<1> QED
  BY <1>6, <1>7, <1>8, <1>9, <1>10, <1>11, <1>12, <1>13

\* Where the kick-out stands: within the new table, an element in hand.
LEMMA KickFacts ==
  ASSUME IInv, pc = "kick"
  PROVE  /\ newBuckets \in Capacity /\ newBuckets \in Nat /\ newBuckets > 0
         /\ nBuckets \in Nat /\ j \in Nat /\ j < nBuckets /\ j \notin used
         /\ i \in Buckets(newBuckets) /\ i \in DOMAIN keys
         /\ hand \in Placed /\ hand.key \in Key
         /\ Home(hand.key, newBuckets) \in Buckets(newBuckets)
<1>1. newBuckets \in Capacity /\ j < nBuckets /\ j \notin used /\ i \in Buckets(newBuckets)
  BY DEF IInv, LoopInvariant, MoveLoop, Resizing
<1>2. newBuckets \in Nat /\ newBuckets > 0
  BY <1>1, MaxCountBelow
<1>3. nBuckets \in Nat /\ j \in Nat /\ i \in DOMAIN keys
  BY <1>1, TableFacts DEF IInv, TypeOK
<1>4. hand \in Placed /\ hand.key \in Key
  BY DEF IInv, FlaggedIsPlaced, Placed
<1> QED
  BY <1>1, <1>2, <1>3, <1>4, HomeInBuckets

\* The kick-out passes over a bucket of the new table that is already filled.
LEMMA KickProbeStep ==
  ASSUME IInv, KickProbe
  PROVE  IInv'
<1> USE DEF IInv, LoopInvariant, KickProbe, struct, result
<1>1. NextBucket(i, newBuckets) \in Buckets(newBuckets)
  BY KickFacts, NextBucketType
<1>2. TypeOK' /\ FlaggedIsPlaced' /\ CallShape' /\ ProbeLoop' /\ DelLoop'
  BY <1>1, KickFacts DEF TypeOK, FlaggedIsPlaced, CallShape, ProbeLoop, DelLoop, Resizing, Buckets
<1>3. MoveLoop'
  <2>1. Path(Home(hand.key, newBuckets), i, newBuckets) \subseteq newUsed
    BY DEF MoveLoop, Resizing
  <2>2. Path(Home(hand.key, newBuckets), i', newBuckets) \subseteq newUsed
    BY <2>1, KickFacts, PathNext
  <2> QED
    BY <1>1, <2>2 DEF MoveLoop, Resizing
<1>4. /\ ProbeInvariant' /\ NewProbeInvariant' /\ UniqueKeys'
      /\ CountIsElements' /\ AnswerIsRight'
  BY DEF ProbeInvariant, NewProbeInvariant, UniqueKeys, Live, CountIsElements,
         AnswerIsRight, Holds, Resizing
<1> QED
  BY <1>2, <1>3, <1>4

\* The kick-out exchanges the element in hand with one of the old table.
LEMMA KickSwapStep ==
  ASSUME IInv, KickSwap
  PROVE  IInv'
<1> USE DEF IInv, LoopInvariant, KickSwap, result
<1>1. keys[i] \in Placed /\ keys[i].key \in Key
  BY DEF FlaggedIsPlaced, Placed
<1>2. Home(keys[i].key, newBuckets) \in Buckets(newBuckets)
  BY <1>1, KickFacts, HomeInBuckets
<1>3. /\ DOMAIN keys' = DOMAIN keys
      /\ \A x \in DOMAIN keys : x # i => keys'[x] = keys[x]
      /\ keys'[i] = hand
      /\ keys' \in [DOMAIN keys -> Placed \cup {NoBucket}]
  BY KickFacts DEF TypeOK
<1>4. TypeOK'
  BY <1>1, <1>2, <1>3, KickFacts DEF TypeOK, Buckets
<1>5. FlaggedIsPlaced'
  BY <1>1, <1>3, KickFacts DEF FlaggedIsPlaced
<1>6. CallShape' /\ ProbeLoop' /\ DelLoop'
  BY DEF CallShape, ProbeLoop, DelLoop, Resizing
<1>7. MoveLoop'
  BY <1>2, KickFacts, PathAtHome DEF MoveLoop, Resizing
<1>8. ProbeInvariant' /\ NewProbeInvariant'
  <2>1. Path(Home(hand.key, newBuckets), i, newBuckets) \subseteq newUsed
    BY DEF MoveLoop, Resizing
  <2> QED
    BY <1>3, <2>1 DEF ProbeInvariant, NewProbeInvariant, Resizing, FlaggedIsPlaced
<1>9. UniqueKeys'
  <2>1. Live' = Live
    BY DEF Live
  <2>2. \A x \in Live : x \in DOMAIN keys
    BY DEF Live, FlaggedIsPlaced
  <2>3. i \in Live
    BY DEF Live
  <2> QED
    BY <1>3, <2>1, <2>2, <2>3 DEF UniqueKeys
<1>10. CountIsElements'
  <2>1. Cardinality(used') = Cardinality(used) - 1
    BY TableFacts, FS_RemoveElement
  <2>2. Cardinality(newUsed') = Cardinality(newUsed) + 1
    BY TableFacts, FS_AddElement
  <2> QED
    BY <2>1, <2>2, TableFacts DEF CountIsElements, TypeOK
<1>11. AnswerIsRight'
  BY DEF AnswerIsRight, Holds
<1> QED
  BY <1>4, <1>5, <1>6, <1>7, <1>8, <1>9, <1>10, <1>11

\* The kick-out ends at a bucket neither table uses.
LEMMA KickPlaceStep ==
  ASSUME IInv, KickPlace
  PROVE  IInv'
<1> USE DEF IInv, LoopInvariant, KickPlace, result
<1>1. i \notin used
  BY KickFacts DEF TypeOK, Buckets
<1>2. /\ DOMAIN keys' = DOMAIN keys
      /\ \A x \in DOMAIN keys : x # i => keys'[x] = keys[x]
      /\ keys'[i] = hand
      /\ keys' \in [DOMAIN keys -> Placed \cup {NoBucket}]
  BY KickFacts DEF TypeOK
<1>3. TypeOK'
  BY <1>2, KickFacts DEF TypeOK
<1>4. FlaggedIsPlaced'
  BY <1>1, <1>2, KickFacts DEF FlaggedIsPlaced
<1>5. CallShape' /\ ProbeLoop' /\ DelLoop'
  BY DEF CallShape, ProbeLoop, DelLoop, Resizing
<1>6. MoveLoop'
  <2>1. \A x \in used : x >= j + 1
    BY KickFacts DEF MoveLoop, Resizing, TypeOK, Buckets
  <2> QED
    BY <1>1, <2>1, KickFacts DEF MoveLoop, Resizing
<1>7. ProbeInvariant' /\ NewProbeInvariant'
  <2>1. Path(Home(hand.key, newBuckets), i, newBuckets) \subseteq newUsed
    BY DEF MoveLoop, Resizing
  <2> QED
    BY <1>2, <2>1 DEF ProbeInvariant, NewProbeInvariant, Resizing, FlaggedIsPlaced
<1>8. UniqueKeys'
  BY <1>1, <1>2 DEF UniqueKeys, Live, FlaggedIsPlaced
<1>9. CountIsElements'
  <2>1. Cardinality(newUsed') = Cardinality(newUsed) + 1
    BY TableFacts, FS_AddElement
  <2> QED
    BY <2>1, TableFacts DEF CountIsElements, TypeOK
<1>10. AnswerIsRight'
  BY DEF AnswerIsRight, Holds
<1> QED
  BY <1>3, <1>4, <1>5, <1>6, <1>7, <1>8, <1>9, <1>10

\* The outer loop ends with no element left in the old table, so that the
\* table just built is all there is.
LEMMA MoveDoneStep ==
  ASSUME IInv, MoveDone
  PROVE  IInv'
<1> USE DEF IInv, LoopInvariant, MoveDone
<1>1. /\ newBuckets \in Capacity /\ newBuckets \in Nat /\ newBuckets > 0
      /\ count <= MaxCount(newBuckets) /\ op \in {"put", "resize"}
      /\ (op = "put" => count < MaxCount(newBuckets) /\ arg \in Key)
  BY MaxCountBelow DEF MoveLoop, Resizing, CallShape
<1>2. used = {}
  BY TableFacts DEF MoveLoop, Resizing, TypeOK, Buckets
<1>3. /\ nBuckets' = newBuckets /\ newBuckets' = 0 /\ newUsed' = {} /\ used' = newUsed
      /\ pc = "move" /\ pc' \in {"idle", "put"} /\ count' = count /\ hand' = hand /\ j' = 0
  BY DEF ReturnNothing, Finish
<1>4. /\ keys' \in [Buckets(newBuckets) -> Placed \cup {NoBucket}]
      /\ \A x \in newUsed : x \in DOMAIN keys' /\ keys'[x] = keys[x]
  BY TableFacts DEF Realloc, TypeOK
<1>5. /\ pc' = "put" => /\ op = "put" /\ op' = "put" /\ arg' = arg /\ arg \in Key
                         /\ i' = Home(arg, newBuckets)
                         /\ pos' = pos /\ absent' = absent
      /\ pc' = "idle" => /\ op' = "none" /\ arg' = NoKey /\ i' = i
                          /\ pos' = 0 /\ absent' = 0
  BY <1>1 DEF ReturnNothing, Finish, result
<1>6. \A k \in Key : Home(k, newBuckets) \in Buckets(newBuckets)
  BY <1>1, HomeInBuckets
<1>7. TypeOK'
  <2>1. Larger(newBuckets, 0) = newBuckets
    BY <1>1 DEF Larger
  <2>2. i' \in Nat /\ pos' \in Nat /\ absent' \in {-1, 0, 1}
    BY <1>1, <1>3, <1>5, <1>6 DEF TypeOK, Buckets
  <2> QED
    BY <1>1, <1>3, <1>4, <1>5, <2>1, <2>2 DEF TypeOK
<1>8. FlaggedIsPlaced'
  BY <1>3, <1>4 DEF FlaggedIsPlaced
<1>9. CallShape' /\ MoveLoop' /\ DelLoop'
  BY <1>3, <1>5 DEF CallShape, MoveLoop, DelLoop, Resizing
<1>10. ProbeLoop'
  BY <1>1, <1>3, <1>5, <1>6, PathAtHome DEF ProbeLoop
<1>11. ProbeInvariant' /\ NewProbeInvariant'
  BY <1>3, <1>4 DEF ProbeInvariant, NewProbeInvariant, Resizing
<1>12. UniqueKeys'
  BY <1>2, <1>3, <1>4 DEF UniqueKeys, Live
<1>13. CountIsElements'
  <2>1. Cardinality(used) = 0 /\ Cardinality(newUsed') = 0
    BY <1>2, <1>3, FS_EmptySet
  <2> QED
    BY <1>1, <1>3, <2>1, TableFacts DEF CountIsElements
<1>14. AnswerIsRight'
  BY <1>3, <1>5 DEF AnswerIsRight, Holds
<1> QED
  BY <1>7, <1>8, <1>9, <1>10, <1>11, <1>12, <1>13, <1>14

(***************************************************************************)
(* del                                                                     *)
(***************************************************************************)
LEMMA DelCallStep ==
  ASSUME IInv, DelCall
  PROVE  IInv'
<1> USE DEF IInv, LoopInvariant, DelCall, struct, ForgetResult
<1>1. pos \in used /\ pos \in Buckets(nBuckets) /\ nBuckets \in Nat /\ pc = "idle"
  BY TableFacts DEF AnswerIsRight, TypeOK, Holds
<1>2. TypeOK' /\ FlaggedIsPlaced' /\ CallShape' /\ ProbeLoop' /\ MoveLoop'
  BY <1>1 DEF TypeOK, FlaggedIsPlaced, CallShape, ProbeLoop, MoveLoop, Resizing
<1>3. DelLoop'
  BY <1>1, DistInjective DEF DelLoop, TypeOK
<1>4. /\ ProbeInvariant' /\ NewProbeInvariant' /\ UniqueKeys'
      /\ CountIsElements' /\ AnswerIsRight'
  BY <1>1 DEF ProbeInvariant, NewProbeInvariant, UniqueKeys, Live, CountIsElements,
              AnswerIsRight, Holds, Resizing
<1> QED
  BY <1>2, <1>3, <1>4

\* The code's test says exactly that the hole is on the probe sequence of q.
LEMMA MayFillMeansOnPath ==
  ASSUME NEW hole \in Buckets(nBuckets), NEW q \in Buckets(nBuckets), hole # q,
         nBuckets \in Nat, keys[q].key \in Key
  PROVE  MayFill(hole, q) <=> hole \in Path(Home(keys[q].key, nBuckets), q, nBuckets)
<1>1. nBuckets > 0
  BY DEF Buckets
<1> DEFINE k == Home(keys[q].key, nBuckets)
<1>2. k \in Buckets(nBuckets)
  BY <1>1, HomeInBuckets
<1> HIDE DEF k
<1>3. (\/ q > hole /\ (k <= hole \/ k > q)
       \/ q < hole /\ (k <= hole /\ k > q)) <=> hole \in Path(k, q, nBuckets)
  BY <1>2 DEF Path, Dist, Buckets
<1> QED
  BY <1>3 DEF MayFill, k

\* A turn of the backward shift: the hole moves to q, or q is known not to need it.
LEMMA DelScanStep ==
  ASSUME IInv, DelScan
  PROVE  IInv'
<1> USE DEF IInv, LoopInvariant, result
<1> DEFINE q == NextBucket(j, nBuckets)
           h(x) == Home(keys[x].key, nBuckets)
<1>1. /\ nBuckets \in Nat /\ i \in used /\ i \in Buckets(nBuckets)
      /\ j \in Buckets(nBuckets) /\ pc = "del" /\ newUsed = {} /\ newBuckets = 0
  BY TableFacts DEF DelScan, DelLoop, TypeOK, CallShape, Resizing
<1>2. q \in Buckets(nBuckets) /\ q \in used /\ q # i
  BY <1>1, NextBucketType DEF DelScan
<1>3. \A x \in used : /\ x \in DOMAIN keys /\ keys[x] \in Placed /\ keys[x].key \in Key
                       /\ x \in Buckets(nBuckets)
  BY DEF FlaggedIsPlaced, Placed, TypeOK
<1>4. nBuckets > 0
  BY <1>1 DEF Buckets
<1>5. \A x \in used : h(x) \in Buckets(nBuckets)
  BY <1>1, <1>3, <1>4, HomeInBuckets
<1>6. MayFill(i, q) <=> i \in Path(h(q), q, nBuckets)
  BY <1>1, <1>2, <1>3, MayFillMeansOnPath
<1>7. \A x \in used : Path(h(x), x, nBuckets) \subseteq used
  BY <1>1 DEF ProbeInvariant, Resizing
<1>8. /\ j' = q
      /\ UNCHANGED <<nBuckets, count, used, pc, op, arg, pos, absent, newBuckets, newUsed, hand>>
  BY DEF DelScan
<1> HIDE DEF q
<1>9. CASE MayFill(i, q)
  <2>1. keys' = [keys EXCEPT ![i] = keys[q]] /\ i' = q
    BY <1>9 DEF DelScan, q
  <2>2. /\ DOMAIN keys' = DOMAIN keys /\ keys'[i] = keys[q]
        /\ \A x \in used : x # i => keys'[x] = keys[x]
    BY <1>1, <1>3, <2>1
  <2>3. TypeOK'
    BY <1>1, <1>2, <1>3, <1>8, <2>1 DEF TypeOK, Buckets
  <2>4. FlaggedIsPlaced'
    BY <1>1, <1>2, <1>3, <1>8, <2>2 DEF FlaggedIsPlaced
  <2>5. CallShape' /\ ProbeLoop' /\ MoveLoop'
    BY <1>1, <1>8 DEF CallShape, ProbeLoop, MoveLoop, Resizing
  <2>6. DelLoop'
    BY <1>1, <1>2, <1>3, <1>8, <2>1, DistInjective DEF DelLoop
  <2>7. ProbeInvariant' /\ NewProbeInvariant'
    <3>1. Path(h(q), i, nBuckets) \subseteq used
      BY <1>1, <1>2, <1>5, <1>6, <1>7, <1>9, PathShorter
    <3> QED
      BY <1>1, <1>7, <1>8, <2>2, <3>1 DEF ProbeInvariant, NewProbeInvariant, Resizing
  <2>8. UniqueKeys'
    <3>1. Live = used \ {i} /\ Live' = used \ {q}
      BY <1>1, <1>8, <2>1 DEF Live
    <3> QED
      BY <1>1, <1>2, <1>8, <2>2, <3>1 DEF UniqueKeys
  <2>9. CountIsElements' /\ AnswerIsRight'
    BY <1>1, <1>8 DEF CountIsElements, AnswerIsRight, Holds
  <2> QED
    BY <2>3, <2>4, <2>5, <2>6, <2>7, <2>8, <2>9
<1>10. CASE ~MayFill(i, q)
  <2>1. keys' = keys /\ i' = i
    BY <1>10 DEF DelScan, q
  <2>2. TypeOK' /\ FlaggedIsPlaced'
    BY <1>1, <1>2, <1>8, <2>1 DEF TypeOK, FlaggedIsPlaced, Buckets
  <2>3. CallShape' /\ ProbeLoop' /\ MoveLoop'
    BY <1>1, <1>8 DEF CallShape, ProbeLoop, MoveLoop, Resizing
  <2>4. DelLoop'
    <3> SUFFICES ASSUME NEW x \in used \ {i}, Dist(i, x, nBuckets) <= Dist(i, q, nBuckets)
                 PROVE  i \notin Path(h(x), x, nBuckets)
      BY <1>1, <1>2, <1>8, <2>1 DEF DelLoop
    <3>1. Dist(i, q, nBuckets) = Dist(i, j, nBuckets) + 1
      BY <1>1, <1>2, DistNext DEF q
    <3>2. x = q \/ Dist(i, x, nBuckets) <= Dist(i, j, nBuckets)
      BY <1>1, <1>2, <1>3, <3>1, DistInjective
    <3>3. CASE x = q
      BY <1>6, <1>10, <3>3
    <3>4. CASE Dist(i, x, nBuckets) <= Dist(i, j, nBuckets)
      BY <1>1, <3>4 DEF DelLoop
    <3> QED
      BY <3>2, <3>3, <3>4
  <2>5. ProbeInvariant' /\ NewProbeInvariant' /\ UniqueKeys'
    BY <1>1, <1>8, <2>1 DEF ProbeInvariant, NewProbeInvariant, UniqueKeys, Live, Resizing
  <2>6. CountIsElements' /\ AnswerIsRight'
    BY <1>1, <1>8 DEF CountIsElements, AnswerIsRight, Holds
  <2> QED
    BY <2>2, <2>3, <2>4, <2>5, <2>6
<1> QED
  BY <1>9, <1>10

\* When the scan stops, no element needs the hole: one further on would need
\* the clear flag the scan stopped at as well.
LEMMA NoElementNeedsTheHole ==
  ASSUME IInv, DelReturn, NEW x \in used \ {i}
  PROVE  i \notin Path(Home(keys[x].key, nBuckets), x, nBuckets)
<1> DEFINE q == NextBucket(j, nBuckets)
           h == Home(keys[x].key, nBuckets)
<1>1. /\ nBuckets \in Nat /\ i \in Buckets(nBuckets) /\ j \in Buckets(nBuckets)
      /\ pc = "del" /\ x \in Buckets(nBuckets) /\ keys[x].key \in Key
  BY TableFacts DEF IInv, LoopInvariant, DelReturn, DelLoop, TypeOK, FlaggedIsPlaced, Placed
<1>2. q \in Buckets(nBuckets) /\ h \in Buckets(nBuckets)
  <2>1. nBuckets > 0
    BY <1>1 DEF Buckets
  <2> QED
    BY <1>1, <2>1, NextBucketType, HomeInBuckets
<1>3. q = i \/ q \notin used
  BY DEF DelReturn
<1> HIDE DEF q, h
<1>4. CASE Dist(i, x, nBuckets) <= Dist(i, j, nBuckets)
  BY <1>1, <1>4 DEF IInv, LoopInvariant, DelLoop, h
<1>5. CASE ~(Dist(i, x, nBuckets) <= Dist(i, j, nBuckets))
  <2>1. q # i
    BY <1>1, <1>5, DistNext DEF q
  <2>2. Dist(i, q, nBuckets) = Dist(i, j, nBuckets) + 1 /\ x # q
    BY <1>1, <1>3, <2>1, DistNext DEF q
  <2>3. Dist(i, q, nBuckets) < Dist(i, x, nBuckets)
    BY <1>1, <1>2, <1>5, <2>2, DistInjective
  <2>4. i \in Path(h, x, nBuckets) => q \in Path(h, x, nBuckets)
    BY <1>1, <1>2, <2>3, PathBetween
  <2>5. Path(h, x, nBuckets) \subseteq used
    BY <1>1 DEF IInv, ProbeInvariant, Resizing, h
  <2> QED
    BY <1>3, <2>1, <2>4, <2>5 DEF h
<1> QED
  BY <1>4, <1>5

\* del clears the flag of the last hole.
LEMMA DelReturnStep ==
  ASSUME IInv, DelReturn
  PROVE  IInv'
<1> USE DEF IInv, LoopInvariant
<1>1. /\ pc = "del" /\ i \in used /\ newUsed = {} /\ newBuckets = 0 /\ nBuckets \in Nat
  BY TableFacts DEF DelReturn, DelLoop, CallShape, Resizing
<1>2. /\ pc' = "idle" /\ op' = "none" /\ arg' = NoKey /\ pos' = 0 /\ absent' = 0
      /\ i' = 0 /\ j' = 0 /\ newBuckets' = 0 /\ newUsed' = {} /\ hand' = NoBucket
      /\ nBuckets' = nBuckets /\ used' = used \ {i} /\ count' = count - 1
      /\ keys' = Forget(keys, {i})
  BY DEF DelReturn, ReturnNothing, Finish, ClearLocals
<1>3. /\ keys' \in [Buckets(Larger(nBuckets, newBuckets)) -> Placed \cup {NoBucket}]
      /\ \A x \in used \ {i} : x \in DOMAIN keys' /\ keys'[x] = keys[x]
  BY <1>2 DEF Forget, TypeOK, FlaggedIsPlaced
<1>4. Cardinality(used') = Cardinality(used) - 1
  BY <1>1, <1>2, TableFacts, FS_RemoveElement
<1>5. CountIsElements' /\ count' \in Nat
  <2>1. nBuckets \in Capacity
    BY <1>1 DEF TypeOK, Buckets
  <2>2. Cardinality(used') \in Nat
    BY <1>2, TableFacts, FS_Subset, FS_CardinalityType
  <2>3. count = Cardinality(used) + Cardinality(newUsed) /\ Cardinality(newUsed') = Cardinality(newUsed)
    BY <1>1, <1>2, TableFacts DEF CountIsElements
  <2>4. count' = Cardinality(used') + Cardinality(newUsed') /\ count' \in Nat
    BY <1>2, <1>4, <2>2, <2>3, TableFacts
  <2>5. count' <= MaxCount(nBuckets)
    BY <1>2, <2>1, MaxCountBelow DEF CountIsElements, TypeOK
  <2> QED
    BY <1>2, <2>4, <2>5, TableFacts DEF CountIsElements
<1>6. TypeOK'
  BY <1>1, <1>2, <1>3, <1>5 DEF TypeOK
<1>7. FlaggedIsPlaced'
  BY <1>2, <1>3, <1>1 DEF FlaggedIsPlaced
<1>8. CallShape' /\ ProbeLoop' /\ MoveLoop' /\ DelLoop'
  BY <1>2 DEF CallShape, ProbeLoop, MoveLoop, DelLoop, Resizing
<1>9. ProbeInvariant' /\ NewProbeInvariant'
  <2>1. \A x \in used \ {i} : Path(Home(keys[x].key, nBuckets), x, nBuckets) \subseteq used \ {i}
    BY <1>1, NoElementNeedsTheHole DEF ProbeInvariant, Resizing
  <2> QED
    BY <1>2, <1>3, <2>1 DEF ProbeInvariant, NewProbeInvariant, Resizing
<1>10. UniqueKeys'
  <2>1. Live = used \ {i} /\ Live' = used \ {i}
    BY <1>1, <1>2 DEF Live
  <2> QED
    BY <1>2, <1>3, <2>1, UniqueKeysStay
<1>11. AnswerIsRight'
  BY <1>2 DEF AnswerIsRight, Holds
<1> QED
  BY <1>5, <1>6, <1>7, <1>8, <1>9, <1>10, <1>11

(***************************************************************************)
(* kh_val, clear, and destroy followed by init.                            *)
(***************************************************************************)
LEMMA SetValStep ==
  ASSUME IInv, NEW v \in Val, SetVal(v)
  PROVE  IInv'
<1> USE DEF IInv, LoopInvariant, SetVal, struct, result, locals
<1>1. pc = "idle" /\ pos \in used /\ newUsed = {} /\ newBuckets = 0
  BY DEF Holds, AnswerIsRight, CallShape, Resizing
<1>2. pos \in DOMAIN keys /\ keys[pos] \in Placed
  BY <1>1 DEF FlaggedIsPlaced
<1>3. [keys[pos] EXCEPT !.val = v] \in Placed /\ [keys[pos] EXCEPT !.val = v].key = keys[pos].key
  BY <1>2 DEF Placed
<1>4. /\ keys' \in [Buckets(Larger(nBuckets, newBuckets)) -> Placed \cup {NoBucket}]
      /\ \A x \in used : /\ x \in DOMAIN keys' /\ keys'[x] \in Placed
                         /\ keys'[x].key = keys[x].key
  BY <1>2, <1>3 DEF TypeOK, FlaggedIsPlaced
<1> HIDE DEF SetVal
<1>5. UNCHANGED <<nBuckets, count, used, pc, op, arg, result, locals>>
  BY DEF SetVal
<1>6. TypeOK' /\ FlaggedIsPlaced'
  BY <1>1, <1>4, <1>5 DEF TypeOK, FlaggedIsPlaced
<1>7. CallShape' /\ ProbeLoop' /\ MoveLoop' /\ DelLoop'
  BY <1>1, <1>5 DEF CallShape, ProbeLoop, MoveLoop, DelLoop, Resizing
<1>8. /\ ProbeInvariant' /\ NewProbeInvariant'
      /\ UniqueKeys'
      /\ CountIsElements'
  <2>1. ProbeInvariant' /\ NewProbeInvariant'
    BY <1>1, <1>4, <1>5 DEF ProbeInvariant, NewProbeInvariant, Resizing
  <2>2. UniqueKeys'
    BY <1>1, <1>4, <1>5 DEF UniqueKeys, Live
  <2>3. CountIsElements'
    BY <1>1, <1>5 DEF CountIsElements
  <2> QED
    BY <2>1, <2>2, <2>3
<1>9. AnswerIsRight'
  BY <1>1, <1>4, <1>5 DEF AnswerIsRight, Holds
<1> QED
  BY <1>6, <1>7, <1>8, <1>9

\* An empty table of any capacity satisfies the invariant.
LEMMA EmptyTable ==
  ASSUME IInv, pc = "idle", Finish("clear"), used' = {}, count' = 0,
         nBuckets' \in Capacity \cup {0},
         keys' \in [Buckets(nBuckets') -> Placed \cup {NoBucket}],
         UNCHANGED locals
  PROVE  IInv'
<1> USE DEF IInv, LoopInvariant, locals, Finish
<1>1. newUsed' = {} /\ newBuckets' = 0 /\ nBuckets' \in Nat
  BY CapacityAssumption DEF CallShape, Resizing
<1>2. Larger(nBuckets', 0) = nBuckets'
  BY <1>1 DEF Larger
<1>3. TypeOK' /\ FlaggedIsPlaced'
  BY <1>1, <1>2 DEF TypeOK, FlaggedIsPlaced
<1>4. CallShape' /\ ProbeLoop' /\ MoveLoop' /\ DelLoop'
  BY <1>1 DEF CallShape, ProbeLoop, MoveLoop, DelLoop, Resizing
<1>5. ProbeInvariant' /\ NewProbeInvariant' /\ UniqueKeys' /\ AnswerIsRight'
  BY <1>1 DEF ProbeInvariant, NewProbeInvariant, UniqueKeys, Live, AnswerIsRight, Holds, Resizing
<1>6. MaxCount(nBuckets') \in Nat
  BY <1>1, MaxCountType
<1>7. CountIsElements'
  <2>1. Cardinality(used') = 0 /\ Cardinality(newUsed') = 0
    BY <1>1, FS_EmptySet
  <2>2. 0 <= MaxCount(nBuckets')
    BY <1>6
  <2> QED
    BY <2>1, <2>2 DEF CountIsElements
<1> QED
  BY <1>3, <1>4, <1>5, <1>7

\* clear forgets every flag and keeps the capacity.
LEMMA ClearStep ==
  ASSUME IInv, Clear
  PROVE  IInv'
<1>1. newBuckets = 0 /\ pc = "idle"
  BY DEF Clear, IInv, LoopInvariant, CallShape, Resizing
<1>2. Larger(nBuckets, 0) = nBuckets
  BY TableFacts DEF Larger, IInv
<1>3. keys' \in [Buckets(nBuckets') -> Placed \cup {NoBucket}] /\ nBuckets' \in Capacity \cup {0}
  BY <1>1, <1>2 DEF Clear, Forget, IInv, TypeOK
<1> QED
  BY <1>1, <1>3, EmptyTable DEF Clear

\* destroy followed by init gives an empty table without buckets.
LEMMA DestroyInitStep ==
  ASSUME IInv, DestroyInit
  PROVE  IInv'
<1>1. keys' \in [Buckets(nBuckets') -> Placed \cup {NoBucket}]
  BY DEF DestroyInit, Realloc, Buckets
<1> QED
  BY <1>1, EmptyTable DEF DestroyInit

(***************************************************************************)
(* A put that has to grow finds room for its element in the new table.     *)
(***************************************************************************)
LEMMA GrowMakesRoom ==
  ASSUME IInv, Full, NEW cap \in Capacity, RoundsUpTo(nBuckets + 1, cap)
  PROVE  count < MaxCount(cap)
<1>1. nBuckets \in Nat /\ nBuckets < cap /\ count \in Nat /\ count <= MaxCount(nBuckets)
  BY TableFacts, MaxCountBelow DEF IInv, TypeOK, RoundsUpTo, CountIsElements
<1>2. CASE nBuckets = 0
  BY <1>1, <1>2, MaxCountBelow DEF MaxCount
<1>3. CASE nBuckets \in Capacity
  BY <1>1, <1>3, MaxCountGrows, MaxCountBelow
<1> QED
  BY <1>2, <1>3 DEF IInv, TypeOK

\* putp_core calls resize: it starts to move, stops the program or is refused.
LEMMA PutGrowStep ==
  ASSUME IInv, NEW k \in Key, PutGrow(k)
  PROVE  IInv'
<1>1. PICK cap \in Capacity :
        /\ RoundsUpTo(nBuckets + 1, cap)
        /\ \/ StartMoving(cap)
           \/ FlagsNotAllocated(cap) /\ Crash
           \/ /\ BucketsNotAllocated(cap)
              /\ Return(nBuckets, -1)
              /\ UNCHANGED <<struct, locals>>
  BY DEF PutGrow
<1>2. Begin("put", k) /\ Full
  BY DEF PutGrow
<1>3. CASE StartMoving(cap)
  BY <1>1, <1>2, <1>3, GrowMakesRoom, StartMovingStep
<1>4. CASE FlagsNotAllocated(cap) /\ Crash
  BY <1>2, <1>4, CrashStep
<1>5. CASE Return(nBuckets, -1) /\ UNCHANGED <<struct, locals>>
  BY <1>2, <1>5, PutRefusedStep
<1> QED
  BY <1>1, <1>3, <1>4, <1>5

\* A resize the client asks for starts to move or stops the program.
LEMMA ResizeCallStep ==
  ASSUME IInv, NEW n \in ResizeRequest, ResizeCall(n)
  PROVE  IInv'
<1>1. PICK cap \in Capacity : StartMoving(cap) \/ (FlagsNotAllocated(cap) /\ Crash)
  BY DEF ResizeCall
<1>2. Begin("resize", NoKey)
  BY DEF ResizeCall
<1>3. CASE StartMoving(cap)
  BY <1>2, <1>3, StartMovingStep
<1>4. CASE FlagsNotAllocated(cap) /\ Crash
  BY <1>2, <1>4, CrashStep
<1> QED
  BY <1>1, <1>3, <1>4

\* getp_core and putp_core begin their probe at the home of the key.
LEMMA CallBeginsProbe ==
  ASSUME IInv, NEW k \in Key, GetCall(k) \/ PutCall(k)
  PROVE  IInv'
<1>1. CASE GetCall(k)
  BY <1>1, ProbeBegins DEF GetCall, Begin
<1>2. CASE PutCall(k)
  <2>1. count \in Nat /\ nBuckets \in Nat /\ MaxCount(nBuckets) \in Nat
    BY TableFacts, MaxCountType DEF IInv, TypeOK
  <2>2. count < MaxCount(nBuckets)
    BY <1>2, <2>1 DEF PutCall, Full
  <2>3. nBuckets # 0
    BY <2>1, <2>2 DEF MaxCount
  <2> QED
    BY <1>2, <2>2, <2>3, ProbeBegins DEF PutCall, Begin
<1> QED
  BY <1>1, <1>2

(***************************************************************************)
(* The inductive invariant.                                                *)
(***************************************************************************)
LEMMA InitEstablishes == Init => IInv
<1> SUFFICES ASSUME Init PROVE IInv
  OBVIOUS
<1> USE DEF Init
<1>1. keys \in [Buckets(0) -> Placed \cup {NoBucket}]
  BY DEF Realloc, Buckets
<1>2. Larger(0, 0) = 0
  BY DEF Larger
<1>3. TypeOK /\ FlaggedIsPlaced
  BY <1>1, <1>2 DEF TypeOK, FlaggedIsPlaced
<1>4. CallShape /\ ProbeLoop /\ MoveLoop /\ DelLoop
  BY DEF CallShape, ProbeLoop, MoveLoop, DelLoop, Resizing
<1>5. ProbeInvariant /\ NewProbeInvariant /\ UniqueKeys /\ AnswerIsRight
  BY DEF ProbeInvariant, NewProbeInvariant, UniqueKeys, Live, AnswerIsRight, Holds, Resizing
<1>6. CountIsElements
  BY FS_EmptySet DEF CountIsElements, MaxCount
<1> QED
  BY <1>3, <1>4, <1>5, <1>6 DEF IInv, LoopInvariant

\* Every step of every call keeps the invariant.
LEMMA StepPreserves == IInv /\ [Next]_vars => IInv'
<1> SUFFICES ASSUME IInv, [Next]_vars PROVE IInv'
  OBVIOUS
<1>1. CASE UNCHANGED vars
  BY <1>1 DEF vars, struct, result, locals, IInv, LoopInvariant, TypeOK, FlaggedIsPlaced,
     CallShape, ProbeLoop, MoveLoop, DelLoop, ProbeInvariant, NewProbeInvariant, UniqueKeys,
     Live, CountIsElements, AnswerIsRight, Holds, Resizing
<1>2. CASE Call
  <2>1. CASE \E k \in Key : GetEmpty(k) \/ GetCall(k) \/ PutCall(k) \/ PutGrow(k)
    BY <2>1, GetEmptyStep, CallBeginsProbe, PutGrowStep
  <2>2. CASE \E n \in ResizeRequest : ResizeRefused(n) \/ ResizeCall(n)
    BY <2>2, ReturnNothingStep, ResizeCallStep DEF ResizeRefused
  <2>3. CASE \E v \in Val : SetVal(v)
    BY <2>3, SetValStep
  <2>4. CASE DelEmpty
    BY <2>4, ReturnNothingStep DEF DelEmpty
  <2>5. CASE DelCall \/ Clear \/ DestroyInit
    BY <2>5, DelCallStep, ClearStep, DestroyInitStep
  <2> QED
    BY <1>2, <2>1, <2>2, <2>3, <2>4, <2>5 DEF Call
<1>3. CASE Step
  <2>1. CASE Probe("get") \/ Probe("put")
    BY <2>1, ProbeStep
  <2>2. CASE GetReturn \/ PutReturn
    BY <2>2, GetReturnStep, PutReturnStep
  <2>3. CASE MoveSkip \/ MoveTake \/ MoveDone
    BY <2>3, MoveSkipStep, MoveTakeStep, MoveDoneStep
  <2>4. CASE KickProbe \/ KickSwap \/ KickPlace
    BY <2>4, KickProbeStep, KickSwapStep, KickPlaceStep
  <2>5. CASE DelScan \/ DelReturn
    BY <2>5, DelScanStep, DelReturnStep
  <2> QED
    BY <1>3, <2>1, <2>2, <2>3, <2>4, <2>5 DEF Step
<1> QED
  BY <1>1, <1>2, <1>3 DEF Next, Crashed

\* The invariant holds in every reachable state of khashl's table.
THEOREM InvariantHolds == Spec => []IInv
<1>1. Init => IInv
  BY InitEstablishes
<1>2. IInv /\ [Next]_vars => IInv'
  BY StepPreserves
<1> QED
  BY <1>1, <1>2, PTL DEF Spec

\* khashl.h: no bucket and no flag outside its array is ever read or written,
\* whether by a probe, by the kick-out, which moves elements of two tables in
\* one array, by the backward shift, or through the index a client holds.
THEOREM IndicesStayInBounds == Spec => []IndicesInBounds
<1>1. ASSUME IInv PROVE IndicesInBounds
  <2>1. nBuckets \in Nat /\ newBuckets \in Nat /\ j \in Nat
    BY <1>1, TableFacts DEF IInv, TypeOK
  <2>2. Buckets(nBuckets) \cup Buckets(newBuckets) \subseteq DOMAIN keys
    BY <1>1, <2>1 DEF IInv, TypeOK, Buckets, Larger
  <2>3. pc \in {"get", "put"} => i \in Buckets(nBuckets)
    BY <1>1 DEF IInv, LoopInvariant, ProbeLoop
  <2>4. pc = "move" /\ j # nBuckets => j \in Buckets(nBuckets)
    BY <1>1, <2>1 DEF IInv, LoopInvariant, MoveLoop, Resizing, Buckets
  <2>5. pc = "kick" => i \in Buckets(newBuckets) /\ j \in Buckets(nBuckets)
    BY <1>1, <2>1 DEF IInv, LoopInvariant, MoveLoop, Resizing, Buckets
  <2>6. pc = "del" => {i, j, NextBucket(j, nBuckets)} \subseteq Buckets(nBuckets)
    <3>1. pc = "del" => i \in Buckets(nBuckets) /\ j \in Buckets(nBuckets)
      BY <1>1 DEF IInv, TypeOK, LoopInvariant, DelLoop
    <3> QED
      BY <2>1, <3>1, NextBucketType
  <2>7. Holds => pos \in Buckets(nBuckets)
    BY <1>1 DEF IInv, TypeOK, AnswerIsRight
  <2> QED
    BY <2>2, <2>3, <2>4, <2>5, <2>6, <2>7 DEF IndicesInBounds
<1> QED
  BY <1>1, InvariantHolds, PTL

\* getp_core may stop at the first clear flag: del and resize leave no gap in
\* the probe sequence of any element.
THEOREM ProbesAreUnbroken == Spec => [](ProbeInvariant /\ NewProbeInvariant)
<1>1. IInv => ProbeInvariant /\ NewProbeInvariant
  BY DEF IInv
<1> QED
  BY <1>1, InvariantHolds, PTL

\* putp_core, del and the kick-out of resize never duplicate a key, and
\* h->count is the number of elements.
THEOREM KeysAreUniqueAndCounted == Spec => [](UniqueKeys /\ CountIsElements)
<1>1. IInv => UniqueKeys /\ CountIsElements
  BY DEF IInv
<1> QED
  BY <1>1, InvariantHolds, PTL

\* The bucket getp_core and putp_core return holds the key asked for, and
\* the end index means the key is in no bucket.
THEOREM AnswersAreRight == Spec => []AnswerIsRight
<1>1. IInv => AnswerIsRight
  BY DEF IInv
<1> QED
  BY <1>1, InvariantHolds, PTL

-----------------------------------------------------------------------------
(***************************************************************************)
(* Khashl implements Dict: every step of the table is a step of the        *)
(* abstract map or leaves it alone.                                        *)
(***************************************************************************)
\* What Elements is outside the kick-out, and during it.
LEMMA ElementsIs ==
  /\ pc \notin {"del", "kick"} => Elements = {keys[x] : x \in used \cup newUsed}
  /\ pc = "kick" => Elements = {keys[x] : x \in used \cup newUsed} \cup {hand}
  /\ pc = "del" => Elements = {keys[x] : x \in used \ {i}}
BY DEF Elements, Live

\* Between calls, and during get and put, the elements are the flagged buckets.
LEMMA SteadyElements ==
  ASSUME IInv, ~Resizing, pc # "del"
  PROVE  Elements = {keys[x] : x \in used} /\ newUsed = {}
BY ElementsIs DEF IInv, LoopInvariant, CallShape, Resizing

\* Calls under way, del excepted, and calls without an answer show none.
LEMMA SilentReply ==
  (\/ pc \notin {"idle", "del"}
   \/ pc = "idle" /\ op \notin {"get", "put", "clear"})
    => Reply = [op |-> "none"]
BY DEF Reply

\* A call begins, ends without an answer, or is under way: the map sees nothing.
LEMMA QuietStep ==
  ASSUME Elements' = Elements,
         \/ pc' \notin {"idle", "del"}
         \/ pc' = "idle" /\ op' \notin {"get", "put", "clear"}
  PROVE  D!Next
<1>1. Reply' = [op |-> "none"]
  BY DEF Reply
<1> QED
  BY <1>1 DEF D!Next, D!Quiet, D!Silent

\* The elements are the same while flags and buckets are.
LEMMA SameTable ==
  ASSUME IInv, IInv', ~Resizing, pc # "del", ~Resizing', pc' # "del",
         UNCHANGED <<used, keys>>
  PROVE  Elements' = Elements
<1>1. Elements = {keys[x] : x \in used}
  BY SteadyElements
<1>2. Elements' = {keys'[x] : x \in used'}
  BY ElementsIs DEF IInv, LoopInvariant, CallShape, Resizing, Elements, Live
<1> QED
  BY <1>1, <1>2

\* An empty table is an empty map.
LEMMA InitRefines == Init => D!Init
<1> SUFFICES ASSUME Init PROVE D!Init
  OBVIOUS
<1>1. Elements = {}
  BY DEF Init, Elements, Live
<1>2. Reply = [op |-> "none"]
  BY DEF Init, Reply
<1> QED
  BY <1>1, <1>2 DEF D!Init, D!Silent

(***************************************************************************)
(* get                                                                     *)
(***************************************************************************)
LEMMA GetEmptyRefines ==
  ASSUME IInv, IInv', NEW k \in Key, GetEmpty(k)
  PROVE  D!Next
<1>1. Elements' = Elements
  BY SameTable DEF GetEmpty, Begin, Return, struct, Resizing
<1>2. Elements = {}
  BY SteadyElements DEF GetEmpty, Begin, Resizing, IInv, TypeOK, Buckets
<1>3. Reply' = [op |-> "get", key |-> k, found |-> FALSE]
  BY DEF GetEmpty, Begin, Return, struct, Reply
<1>4. (k \in D!Bound) = FALSE
  BY <1>2 DEF D!Bound
<1>5. D!Get(k)
  BY <1>1, <1>3, <1>4 DEF D!Get
<1> QED
  BY <1>5 DEF D!Next

\* getp_core answers whether the key is bound.
LEMMA GetReturnRefines ==
  ASSUME IInv, IInv', GetReturn
  PROVE  D!Next
<1>1. /\ op = "get" /\ arg \in Key /\ pc = "get"
      /\ pc' = "idle" /\ op' = op /\ arg' = arg
      /\ UNCHANGED <<used, keys, nBuckets>>
  BY DEF GetReturn, Return, IInv, LoopInvariant, CallShape, struct
<1>2. Elements' = Elements /\ Elements = {keys[x] : x \in used}
  BY <1>1, SameTable, SteadyElements DEF Resizing
<1>3. pos' # nBuckets <=> arg \in D!Bound
  <2>1. CASE pos' # nBuckets
    <3>1. pos' \in used /\ keys[pos'].key = arg
      BY <1>1, <2>1 DEF IInv, AnswerIsRight, Holds
    <3> QED
      BY <1>2, <2>1, <3>1 DEF D!Bound
  <2>2. CASE pos' = nBuckets
    <3>1. \A x \in used : keys[x].key # arg
      BY <1>1, <2>2 DEF IInv, AnswerIsRight
    <3> QED
      BY <1>2, <2>2, <3>1 DEF D!Bound
  <2> QED
    BY <2>1, <2>2
<1>4. Reply' = [op |-> "get", key |-> arg, found |-> pos' # nBuckets]
  BY <1>1 DEF Reply
<1>5. D!Get(arg)
  BY <1>2, <1>3, <1>4 DEF D!Get
<1> QED
  BY <1>1, <1>5 DEF D!Next

(***************************************************************************)
(* put                                                                     *)
(***************************************************************************)
LEMMA PutReturnRefines ==
  ASSUME IInv, IInv', PutReturn
  PROVE  D!Next
<1>1. /\ pc = "put" /\ op = "put" /\ arg \in Key /\ pc' = "idle" /\ op' = op /\ arg' = arg
      /\ i \in Buckets(nBuckets) /\ nBuckets # 0
  BY DEF PutReturn, Return, IInv, LoopInvariant, CallShape, ProbeLoop, Buckets
<1>2. ~Mismatch
  BY <1>1, RoundMeansAbsent, SomeFlagIsClear DEF PutReturn, IInv
<1>3. Stop = i
  BY <1>2 DEF Stop
<1>4. Elements = {keys[x] : x \in used}
  BY <1>1, SteadyElements DEF Resizing
<1>5. Elements' = {keys'[x] : x \in used'}
  BY <1>1, ElementsIs DEF IInv, LoopInvariant, CallShape, Resizing, Elements, Live
<1>6. CASE i \in used
  <2>1. UNCHANGED <<used, keys>> /\ absent' = 0
    BY <1>3, <1>6 DEF PutReturn, Return
  <2>2. Elements' = Elements
    BY <1>4, <1>5, <2>1
  <2>3. arg \in D!Bound
    BY <1>2, <1>4, <1>6 DEF Mismatch, D!Bound
  <2>4. Reply' = [op |-> "put", key |-> arg, status |-> "present"]
    BY <1>1, <2>1 DEF Reply
  <2>5. D!PutOld(arg)
    BY <2>2, <2>3, <2>4 DEF D!PutOld
  <2> QED
    BY <1>1, <2>5 DEF D!Next
<1>7. CASE i \notin used
  <2>1. used' = used \cup {i} /\ absent' = 1
    BY <1>3, <1>7 DEF PutReturn, Return
  <2>2. PICK v \in Val : keys' = [keys EXCEPT ![i] = [key |-> arg, val |-> v]]
    BY <1>3, <1>7 DEF PutReturn
  <2>3. /\ keys'[i] = [key |-> arg, val |-> v]
        /\ \A x \in used : keys'[x] = keys[x]
    BY <1>1, <1>7, <2>2, TableFacts DEF IInv, TypeOK
  <2>4. Elements' = Elements \cup {[key |-> arg, val |-> v]}
    BY <1>4, <1>5, <2>1, <2>3
  <2>5. arg \notin D!Bound
    BY <1>1, <1>4, <1>7, ClearFlagMeansAbsent DEF D!Bound
  <2>6. Reply' = [op |-> "put", key |-> arg, status |-> "absent"]
    BY <1>1, <2>1 DEF Reply
  <2>7. D!PutNew(arg)
    BY <2>4, <2>5, <2>6 DEF D!PutNew
  <2> QED
    BY <1>1, <2>7 DEF D!Next
<1> QED
  BY <1>6, <1>7

\* putp_core leaves *absent at -1 and the bindings alone when memory is short.
LEMMA PutRefusedRefines ==
  ASSUME IInv, IInv', NEW k \in Key, Begin("put", k), Return(nBuckets, -1),
         UNCHANGED <<struct, locals>>
  PROVE  D!Next
<1>1. Elements' = Elements
  BY SameTable DEF Begin, Return, struct, Resizing
<1>2. Reply' = [op |-> "put", key |-> k, status |-> "noMemory"]
  BY DEF Begin, Return, Reply
<1>3. D!PutNoMemory(k)
  BY <1>1, <1>2 DEF D!PutNoMemory
<1> QED
  BY <1>3 DEF D!Next

(***************************************************************************)
(* resize: the elements are the same at every turn of its loops.           *)
(***************************************************************************)
LEMMA StartMovingRefines ==
  ASSUME IInv, IInv', pc = "idle", NEW cap \in Capacity, StartMoving(cap)
  PROVE  D!Next
<1>1. \A x \in used : keys'[x] = keys[x]
  <2>1. \A x \in used : x \in DOMAIN keys /\ x \in Buckets(nBuckets)
    BY DEF IInv, TypeOK, FlaggedIsPlaced
  <2>2. CASE nBuckets < cap
    <3>1. keys' = Realloc(keys, cap)
      BY <2>2 DEF StartMoving
    <3>2. Buckets(nBuckets) \subseteq Buckets(cap)
      BY <2>2, TableFacts, CapacityAssumption DEF Buckets, IInv
    <3> QED
      BY <2>1, <3>1, <3>2 DEF Realloc
  <2>3. CASE ~(nBuckets < cap)
    BY <2>3 DEF StartMoving
  <2> QED
    BY <2>2, <2>3
<1>2. Elements = {keys[x] : x \in used}
  BY SteadyElements DEF Resizing
<1>3. Elements' = {keys'[x] : x \in used}
  BY ElementsIs DEF StartMoving, Elements, Live
<1> QED
  BY <1>1, <1>2, <1>3, QuietStep DEF StartMoving

\* A program that stops has not touched the bindings.
LEMMA CrashRefines ==
  ASSUME IInv, IInv', pc = "idle", Crash
  PROVE  D!Next
<1>1. Elements' = Elements
  BY SameTable DEF Crash, struct, Resizing
<1> QED
  BY <1>1, QuietStep DEF Crash

\* Between two turns of the kick-out no element is lost or duplicated.
LEMMA MoveRefines ==
  ASSUME IInv, IInv', MoveSkip \/ MoveTake \/ KickProbe \/ KickSwap \/ KickPlace
  PROVE  D!Next
<1> USE DEF struct, result
<1>1. pc' \in {"move", "kick"}
  BY DEF MoveSkip, MoveTake, KickProbe, KickSwap, KickPlace
<1>2. \A x \in used \cup newUsed : x \in DOMAIN keys
  BY DEF IInv, FlaggedIsPlaced
<1>3. CASE MoveSkip
  BY <1>1, <1>3, QuietStep DEF MoveSkip, Elements, Live
<1>4. CASE KickProbe
  BY <1>1, <1>4, QuietStep DEF KickProbe, Elements, Live
<1>5. CASE MoveTake
  <2>1. Elements = {keys[x] : x \in used \cup newUsed}
    BY <1>5, ElementsIs DEF MoveTake
  <2>2. Elements' = {keys'[x] : x \in used' \cup newUsed'} \cup {hand'}
    BY <1>5 DEF MoveTake, Elements, Live
  <2>3. j \in used /\ j \notin newUsed
    BY <1>5 DEF MoveTake, IInv, LoopInvariant, MoveLoop, Resizing
  <2>4. \A x \in (used \cup newUsed) \ {j} : keys'[x] = keys[x]
    BY <1>2, <1>5 DEF MoveTake, Forget
  <2>5. Elements' = Elements
    BY <1>5, <2>1, <2>2, <2>3, <2>4 DEF MoveTake
  <2> QED
    BY <1>1, <2>5, QuietStep
<1>6. CASE KickSwap
  <2>1. Elements = {keys[x] : x \in used \cup newUsed} \cup {hand}
    BY <1>6, ElementsIs DEF KickSwap
  <2>2. Elements' = {keys'[x] : x \in used' \cup newUsed'} \cup {hand'}
    BY <1>6 DEF KickSwap, Elements, Live
  <2>3. used' \cup newUsed' = used \cup newUsed /\ i \in used
    BY <1>6 DEF KickSwap
  <2>4. keys'[i] = hand /\ hand' = keys[i] /\ \A x \in used \cup newUsed : x # i => keys'[x] = keys[x]
    BY <1>2, <1>6 DEF KickSwap
  <2>5. Elements' = Elements
    BY <2>1, <2>2, <2>3, <2>4
  <2> QED
    BY <1>1, <2>5, QuietStep
<1>7. CASE KickPlace
  <2>1. Elements = {keys[x] : x \in used \cup newUsed} \cup {hand}
    BY <1>7, ElementsIs DEF KickPlace
  <2>2. Elements' = {keys'[x] : x \in used' \cup newUsed'}
    BY <1>7 DEF KickPlace, Elements, Live
  <2>3. i \in DOMAIN keys /\ i \notin used /\ i \notin newUsed
    BY <1>7, KickFacts DEF KickPlace, IInv, TypeOK, Buckets
  <2>4. used' \cup newUsed' = used \cup newUsed \cup {i}
    BY <1>7 DEF KickPlace
  <2>5. keys'[i] = hand /\ \A x \in used \cup newUsed : keys'[x] = keys[x]
    BY <1>2, <1>7, <2>3 DEF KickPlace
  <2>6. Elements' = Elements
    BY <2>1, <2>2, <2>4, <2>5
  <2> QED
    BY <1>1, <2>6, QuietStep
<1> QED
  BY <1>3, <1>4, <1>5, <1>6, <1>7

\* The new table replaces the old one without a change to the bindings.
LEMMA MoveDoneRefines ==
  ASSUME IInv, IInv', MoveDone
  PROVE  D!Next
<1>1. used = {}
  BY TableFacts DEF MoveDone, IInv, LoopInvariant, MoveLoop, Resizing, TypeOK, Buckets
<1>2. Elements = {keys[x] : x \in newUsed}
  BY <1>1, ElementsIs DEF MoveDone
<1>3. Elements' = {keys'[x] : x \in newUsed}
  BY DEF MoveDone, ReturnNothing, Finish, Elements, Live
<1>4. \A x \in newUsed : keys'[x] = keys[x]
  BY TableFacts DEF MoveDone, Realloc, IInv, TypeOK
<1>5. pc' = "put" \/ (pc' = "idle" /\ op' = "none")
  BY DEF MoveDone, ReturnNothing, Finish
<1> QED
  BY <1>2, <1>3, <1>4, <1>5, QuietStep

(***************************************************************************)
(* del: the element is gone from the map when the call begins.             *)
(***************************************************************************)
LEMMA ClientRefersTo ==
  ASSUME IInv, Holds
  PROVE  /\ arg \in Key /\ pos \in used /\ keys[pos].key = arg /\ D!RefersTo(arg)
         /\ Elements = {keys[x] : x \in used}
         /\ {b \in Elements : b.key # arg} = {keys[x] : x \in used \ {pos}}
<1>1. pc = "idle" /\ arg \in Key /\ pos \in used /\ keys[pos].key = arg
  BY DEF IInv, LoopInvariant, CallShape, AnswerIsRight, Holds
<1>2. Elements = {keys[x] : x \in used}
  BY <1>1, SteadyElements DEF Resizing
<1>3. D!RefersTo(arg)
  <2>1. CASE op = "get" /\ pos # nBuckets
    <3>1. Reply = [op |-> "get", key |-> arg, found |-> TRUE]
      BY <1>1, <2>1 DEF Reply
    <3> QED
      BY <3>1 DEF D!RefersTo
  <2>2. CASE op = "put" /\ absent # -1
    <3>1. \/ Reply = [op |-> "put", key |-> arg, status |-> "absent"]
          \/ Reply = [op |-> "put", key |-> arg, status |-> "present"]
      BY <1>1, <2>2 DEF Reply, IInv, TypeOK
    <3> QED
      BY <3>1 DEF D!RefersTo
  <2> QED
    BY <2>1, <2>2 DEF Holds
<1>4. \A x \in used : keys[x].key = arg <=> x = pos
  BY <1>1 DEF IInv, UniqueKeys, Live
<1>5. {b \in Elements : b.key # arg} = {keys[x] : x \in used \ {pos}}
  BY <1>2, <1>4
<1> QED
  BY <1>1, <1>2, <1>3, <1>5

\* del unbinds the key its index designates.
LEMMA DelCallRefines ==
  ASSUME IInv, IInv', DelCall
  PROVE  D!Next
<1>1. Holds /\ i' = pos /\ pc' = "del" /\ arg' = arg /\ UNCHANGED <<used, keys>>
  BY DEF DelCall, struct
<1>2. Elements' = {keys[x] : x \in used \ {pos}}
  BY <1>1 DEF Elements, Live
<1>3. Reply' = [op |-> "del", key |-> arg]
  BY <1>1 DEF Reply
<1>4. D!Del(arg)
  BY <1>1, <1>2, <1>3, ClientRefersTo DEF D!Del
<1> QED
  BY <1>1, <1>4, ClientRefersTo DEF D!Next

\* The backward shift moves elements and changes no binding.
LEMMA DelScanRefines ==
  ASSUME IInv, IInv', DelScan
  PROVE  UNCHANGED <<Elements, Reply>>
<1> DEFINE q == NextBucket(j, nBuckets)
<1>1. /\ pc = "del" /\ pc' = "del" /\ used' = used /\ i \in used /\ q \in used /\ q # i
      /\ i \in DOMAIN keys
  BY DEF DelScan, IInv, LoopInvariant, DelLoop, FlaggedIsPlaced
<1>2. Elements = {keys[x] : x \in used \ {i}} /\ Elements' = {keys'[x] : x \in used \ {i'}}
  BY <1>1 DEF Elements, Live
<1>3. \/ UNCHANGED <<keys, i>>
      \/ keys' = [keys EXCEPT ![i] = keys[q]] /\ i' = q
  BY DEF DelScan
<1> HIDE DEF q
<1>0. UNCHANGED Reply
  BY <1>1 DEF DelScan, result, Reply
<1>4. CASE keys' = [keys EXCEPT ![i] = keys[q]] /\ i' = q
  <2>1. keys'[i] = keys[q] /\ \A x \in used : x # i => keys'[x] = keys[x]
    BY <1>1, <1>4 DEF IInv, FlaggedIsPlaced
  <2> QED
    BY <1>0, <1>1, <1>2, <1>4, <2>1
<1> QED
  BY <1>0, <1>1, <1>2, <1>3, <1>4

\* The flag del clears at the end is that of a bucket without an element.
LEMMA DelReturnRefines ==
  ASSUME IInv, IInv', DelReturn
  PROVE  D!Next
<1>1. /\ pc = "del" /\ pc' = "idle" /\ op' = "none" /\ newUsed' = {} /\ used' = used \ {i}
      /\ keys' = Forget(keys, {i})
  BY DEF DelReturn, ReturnNothing, Finish, ClearLocals
<1>2. \A x \in used \ {i} : keys'[x] = keys[x]
  BY <1>1 DEF Forget, IInv, FlaggedIsPlaced
<1>3. Elements = {keys[x] : x \in used \ {i}} /\ Elements' = {keys'[x] : x \in used \ {i}}
  BY <1>1 DEF Elements, Live
<1> QED
  BY <1>1, <1>2, <1>3, QuietStep

(***************************************************************************)
(* kh_val, clear, destroy                                                  *)
(***************************************************************************)
LEMMA SetValRefines ==
  ASSUME IInv, IInv', NEW v \in Val, SetVal(v)
  PROVE  D!Next
<1>1. Holds /\ UNCHANGED <<nBuckets, used, pc, op, arg, pos, absent, newUsed>>
  BY DEF SetVal, result, locals
<1>2. /\ arg \in Key /\ pos \in used /\ D!RefersTo(arg)
      /\ {b \in Elements : b.key # arg} = {keys[x] : x \in used \ {pos}}
      /\ keys[pos].key = arg
  BY <1>1, ClientRefersTo
<1>3. keys[pos] \in Placed /\ pos \in DOMAIN keys
  BY <1>2 DEF IInv, FlaggedIsPlaced
<1>4. keys' = [keys EXCEPT ![pos] = [keys[pos] EXCEPT !.val = v]]
  BY DEF SetVal
<1>5. [keys[pos] EXCEPT !.val = v] = [key |-> arg, val |-> v]
  BY <1>2, <1>3 DEF Placed
<1>6. keys'[pos] = [key |-> arg, val |-> v] /\ \A x \in used : x # pos => keys'[x] = keys[x]
  BY <1>3, <1>4, <1>5 DEF IInv, FlaggedIsPlaced
<1>7. Elements' = {keys'[x] : x \in used}
  BY <1>1 DEF Elements, Live, Holds, IInv, LoopInvariant, CallShape, Resizing
<1>8. Elements' = {keys[x] : x \in used \ {pos}} \cup {[key |-> arg, val |-> v]}
  BY <1>2, <1>6, <1>7
<1>9. Reply' = Reply
  BY <1>1 DEF Reply
<1>10. D!SetVal(arg, v)
  BY <1>2, <1>8, <1>9 DEF D!SetVal
<1> QED
  BY <1>2, <1>10 DEF D!Next

\* clear, and destroy with init, unbind every key.
LEMMA EmptyTableRefines ==
  ASSUME IInv, IInv', pc = "idle", Finish("clear"), used' = {}, newUsed' = newUsed
  PROVE  D!Next
<1>1. newUsed' = {}
  BY DEF IInv, LoopInvariant, CallShape, Resizing
<1>2. Elements' = {}
  BY <1>1 DEF Finish, Elements, Live
<1>3. Reply' = [op |-> "clear"]
  BY DEF Finish, Reply
<1>4. D!Clear
  BY <1>2, <1>3 DEF D!Clear
<1> QED
  BY <1>4 DEF D!Next

\* A refused resize and a del of an empty table are invisible.
LEMMA ReturnNothingRefines ==
  ASSUME IInv, IInv', pc = "idle", ReturnNothing, UNCHANGED <<struct, locals>>
  PROVE  D!Next
<1>1. Elements' = Elements
  BY SameTable DEF ReturnNothing, Finish, struct, Resizing
<1> QED
  BY <1>1, QuietStep DEF ReturnNothing, Finish

\* Entering getp_core or putp_core is invisible.
LEMMA BeginProbeRefines ==
  ASSUME IInv, IInv', NEW k \in Key, GetCall(k) \/ PutCall(k)
  PROVE  D!Next
<1>1. UNCHANGED <<used, keys>> /\ pc = "idle" /\ pc' \in {"get", "put"}
  BY DEF GetCall, PutCall, Begin, struct
<1>2. Elements' = Elements
  BY <1>1, SameTable DEF Resizing
<1> QED
  BY <1>1, <1>2, QuietStep

\* A turn of a probe loop is invisible.
LEMMA ProbeRefines ==
  ASSUME IInv, IInv', NEW loop \in {"get", "put"}, Probe(loop)
  PROVE  D!Next
<1>1. UNCHANGED <<used, keys, pc>> /\ pc \in {"get", "put"}
  BY DEF Probe, struct
<1>2. Elements' = Elements
  BY <1>1, SameTable DEF Resizing
<1> QED
  BY <1>1, <1>2, QuietStep

\* putp_core growing the table is invisible unless it gives up.
LEMMA PutGrowRefines ==
  ASSUME IInv, IInv', NEW k \in Key, PutGrow(k)
  PROVE  D!Next
<1>1. Begin("put", k) /\ pc = "idle"
  BY DEF PutGrow, Begin
<1>2. PICK cap \in Capacity :
        \/ StartMoving(cap)
        \/ Crash
        \/ Return(nBuckets, -1) /\ UNCHANGED <<struct, locals>>
  BY DEF PutGrow
<1> QED
  BY <1>1, <1>2, StartMovingRefines, CrashRefines, PutRefusedRefines

\* Entering resize is invisible.
LEMMA ResizeCallRefines ==
  ASSUME IInv, IInv', NEW n \in ResizeRequest, ResizeCall(n)
  PROVE  D!Next
<1>1. PICK cap \in Capacity : StartMoving(cap) \/ Crash
  BY DEF ResizeCall
<1>2. pc = "idle"
  BY DEF ResizeCall, Begin
<1> QED
  BY <1>1, <1>2, StartMovingRefines, CrashRefines

(***************************************************************************)
(* The refinement.                                                         *)
(***************************************************************************)
LEMMA StepRefines == IInv /\ IInv' /\ [Next]_vars => [D!Next]_(D!vars)
<1> SUFFICES ASSUME IInv, IInv', [Next]_vars PROVE [D!Next]_(D!vars)
  OBVIOUS
<1>1. CASE UNCHANGED vars
  BY <1>1 DEF vars, struct, result, locals, D!vars, Elements, Live, Reply
<1>2. CASE Call
  <2>1. CASE \E k \in Key : GetEmpty(k) \/ GetCall(k) \/ PutCall(k) \/ PutGrow(k)
    BY <2>1, GetEmptyRefines, BeginProbeRefines, PutGrowRefines
  <2>2. CASE \E n \in ResizeRequest : ResizeRefused(n) \/ ResizeCall(n)
    BY <2>2, ReturnNothingRefines, ResizeCallRefines DEF ResizeRefused
  <2>3. CASE \E v \in Val : SetVal(v)
    BY <2>3, SetValRefines
  <2>4. CASE DelEmpty
    BY <2>4, ReturnNothingRefines DEF DelEmpty
  <2>5. CASE DelCall
    BY <2>5, DelCallRefines
  <2>6. CASE Clear \/ DestroyInit
    BY <2>6, EmptyTableRefines DEF Clear, DestroyInit, locals
  <2> QED
    BY <1>2, <2>1, <2>2, <2>3, <2>4, <2>5, <2>6 DEF Call
<1>3. CASE Step
  <2>1. CASE Probe("get") \/ Probe("put")
    BY <2>1, ProbeRefines
  <2>2. CASE GetReturn \/ PutReturn
    BY <2>2, GetReturnRefines, PutReturnRefines
  <2>3. CASE MoveSkip \/ MoveTake \/ KickProbe \/ KickSwap \/ KickPlace
    BY <2>3, MoveRefines
  <2>4. CASE MoveDone
    BY <2>4, MoveDoneRefines
  <2>5. CASE DelScan \/ DelReturn
    BY <2>5, DelScanRefines, DelReturnRefines DEF D!vars
  <2> QED
    BY <1>3, <2>1, <2>2, <2>3, <2>4, <2>5 DEF Step
<1> QED
  BY <1>1, <1>2, <1>3 DEF Next, Crashed

\* khashl.h is a map: whatever sequence of get, put, kh_val, del, resize,
\* clear and destroy a client calls, and wherever memory runs out, the answers
\* and the bindings are those of Dict.
THEOREM KhashlImplementsDict == Spec => ImplementsDict
<1>1. Init => D!Init
  BY InitRefines
<1>2. IInv /\ IInv' /\ [Next]_vars => [D!Next]_(D!vars)
  BY StepRefines
<1> QED
  BY <1>1, <1>2, InvariantHolds, PTL DEF Spec, ImplementsDict, D!Spec
=============================================================================
