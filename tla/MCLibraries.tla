---------------------------- MODULE MCLibraries -----------------------------
(***************************************************************************)
(* The libraries that the benchmark compares, for TLC.  Every program of   *)
(* the repository links one of them; which one, the initial state says.    *)
(* Each gets the smallest constants with which all that its code can do    *)
(* happens: keys that collide, chains and probes that wrap, every rehash.  *)
(***************************************************************************)
EXTENDS Integers, Sequences, FiniteSets, TLC

CONSTANT Null

VARIABLES
  program,   \* the program that runs
  t,         \* the state of its library
  answer     \* what the last call said

vars == <<program, t, answer>>

\* no action reads the answer: states that differ in nothing else are one
View == <<program, t>>

\* The values clients give a key: its own, so that a value which got to another
\* key shows, and to some keys a second one, to tell a value that was overwritten
\* from one that was kept.
Own(K, twice) == [k \in K |-> IF k \in twice THEN {k, 100 + k} ELSE {k}]

\* a lambda's result: key 1's other value, or the client's whatever it read
Other(v) == CASE v = 1 -> 101 [] v = 101 -> 1 [] OTHER -> v
Turns(call, read, given) == Other(read)
Overwrites(call, read, given) == IF call = "modify" THEN Other(read) ELSE given

Itself(S) == [k \in S |-> k]
High(S) == [k \in S |-> k \div 8]

-----------------------------------------------------------------------------
UthashKey == {0, 16, 32, 1}
Uthash == INSTANCE Uthash WITH
  Key <- UthashKey, Stored <- Own(UthashKey, {16}), Hash <- Itself(UthashKey),
  InitialBuckets <- 1, Threshold <- 1, MaxBuckets <- 16,
  Selected <- {16, 1}, ClientTables <- {"src"}

DmapKey == {0, 4, 8, 3}
Dmap == INSTANCE Dmap WITH
  Key <- DmapKey, Stored <- Own(DmapKey, {4}), Hash <- Itself(DmapKey),
  InitialCapacity <- 2, InitialFree <- 1, MaxCapacity <- 4, MaxDeleted <- 2

\* in four slots, which never grow
DmapOfFour == INSTANCE Dmap WITH
  Key <- DmapKey, Stored <- Own(DmapKey, {}), Hash <- Itself(DmapKey),
  InitialCapacity <- 2, InitialFree <- 2, MaxCapacity <- 2, MaxDeleted <- 4

StbDsKey == {0, 2, 5, 9, 3}
StbDs == INSTANCE StbDs WITH
  Key <- StbDsKey, Stored <- Own(StbDsKey, {5}), Hash <- Itself(StbDsKey), BucketLength <- 4, MaxSlots <- 8

\* a hash is a home and two bits: four keys of home 3, two of home 5; with the
\* second multiplier they are apart
RobinHoodKey == 0..5
RobinHood == INSTANCE RobinHood WITH
  Key <- RobinHoodKey, Stored <- Own(RobinHoodKey, {1}),
  Hash <- <<[k \in RobinHoodKey |-> IF k < 4 THEN 4 * 3 + k ELSE 4 * 5 + 1],
            [k \in RobinHoodKey |-> 4 * k + 2]>>,
  InfoBits <- 2, InfoMax <- 7, InitialSize <- 4, MaxLoad <- 80, Reserved <- {0, 5}, MaxSize <- 16

\* with the displacement's limit out of reach, and memory running out
VerstableKey == {0, 8, 16, 1, 3, 9}
Verstable == INSTANCE Verstable WITH
  Key <- VerstableKey, Stored <- Own(VerstableKey, {8}), Hash <- Itself(VerstableKey), Frag <- High(VerstableKey),
  MinBuckets <- 4, MaxLoad <- 90, Last <- 9, Reserved <- {4}, MallocFails <- BOOLEAN, MaxBuckets <- 16

\* with the displacement's limit within reach, and memory enough
VerstableLimit == INSTANCE Verstable WITH
  Key <- VerstableKey, Stored <- Own(VerstableKey, {8}), Hash <- Itself(VerstableKey), Frag <- High(VerstableKey),
  MinBuckets <- 4, MaxLoad <- 90, Last <- 3, Reserved <- {4}, MallocFails <- {FALSE}, MaxBuckets <- 16

Cc == INSTANCE CcMap WITH
  Key <- VerstableKey, Stored <- Own(VerstableKey, {8}), Hash <- Itself(VerstableKey), Frag <- High(VerstableKey),
  MinBuckets <- 4, MaxLoad <- 90, Last <- 9, Reserved <- {4}, MallocFails <- BOOLEAN, MaxBuckets <- 16

CcLimit == INSTANCE CcMap WITH
  Key <- VerstableKey, Stored <- Own(VerstableKey, {8}), Hash <- Itself(VerstableKey), Frag <- High(VerstableKey),
  MinBuckets <- 4, MaxLoad <- 90, Last <- 3, Reserved <- {4}, MallocFails <- {FALSE}, MaxBuckets <- 16

UnorderedDenseKey == 0..5
UnorderedDense == INSTANCE UnorderedDense WITH
  Key <- UnorderedDenseKey, Stored <- Own(UnorderedDenseKey, {0}),
  Hash <- (0 :> 0) @@ (1 :> 1) @@ (2 :> 5) @@ (3 :> 10) @@ (4 :> 15) @@ (5 :> 14),
  HashBits <- 4, Prints <- 2, InitialShifts <- 3, MaxBuckets <- 4, MaxLoad <- 80, Reserved <- {0, 4},
  Containers <- {<<>>, <<[key |-> 0, val |-> 0], [key |-> 0, val |-> 100], [key |-> 1, val |-> 1],
                         [key |-> 2, val |-> 2], [key |-> 1, val |-> 101]>>}

Emilib2Key == {0, 8, 16, 7}
Emilib2 == INSTANCE Emilib2 WITH
  Key <- Emilib2Key, Stored <- Own(Emilib2Key, {8}), Hash <- Itself(Emilib2Key), Rest <- [k \in Emilib2Key |-> k % 2],
  Simd <- 2, Jump <- 0, Near <- 4, Spare <- 1, Requested <- {3}, MaxBuckets <- 8

BytellKey == {0, 8, 16, 1, 9, 3}
Bytell == INSTANCE Bytell WITH
  Key <- BytellKey, Stored <- Own(BytellKey, {8}), Hash <- Itself(BytellKey),
  Jumps <- <<1, 3>>, MinGrown <- 3, Load <- 15, Reserved <- {5}, MaxSlots <- 8

StcKey == {6, 7, 15, 0, 14, 3, 8}
Stc == INSTANCE StcHmap WITH
  Key <- StcKey, Stored <- Own(StcKey, {7}), Hash <- Itself(StcKey), Hashx <- High(StcKey),
  DistMask <- 1023, Requested <- {0}, MaxBuckets <- 16

\* safe_get makes 0 the value of a new key, and two keys may be given another
MlibKey == {0, 8, 16, 1, 9, 2}
Mlib == INSTANCE MDict WITH
  Key <- MlibKey, Stored <- [k \in MlibKey |-> IF k \in {8, 16} THEN {k} ELSE {0}], Hash <- Itself(MlibKey),
  InitialValue <- 0, InitialSize <- 8, Requested <- {12}, MaxBuckets <- 32,
  Prefetch <- 2, Batches <- {<<0, 8, 16, 0>>, <<9, 2, 9, 1>>}

CtlKey == {0, 1, 2, 3, 6}
Ctl == INSTANCE Ctl WITH
  Key <- CtlKey, Stored <- Own(CtlKey, {2}), Hash <- Itself(CtlKey), Primes <- {2, 3, 5, 7, 11},
  InitialBuckets <- 2, Growth <- 1618, Desired <- {1, 4}, MaxBuckets <- 7

PhmapKey == 1..6
Phmap == INSTANCE Phmap WITH
  Key <- PhmapKey, Stored <- Own(PhmapKey, {1}), H1 <- <<4, 4, 4, 4, 0, 2>>, H2 <- <<0, 0, 1, 1, 0, 1>>,
  Width <- 4, Spare <- 3, Requested <- {0, 3}, MaxCapacity <- 7

\* two keys that collide in one submap, under a mutex that has readers; what
\* lambdas do under the shared lock does not depend on the value
SharedKey == {1, 2}
ParallelShared == INSTANCE ParallelPhmap WITH
  Key <- SharedKey, Stored <- Own(SharedKey, {1}), H1 <- <<4, 4>>, H2 <- <<0, 0>>,
  Width <- 4, Spare <- 3, Requested <- {0}, MaxCapacity <- 3,
  Thread <- {1, 2}, Submap <- {0}, Subidx <- [k \in SharedKey |-> 0], SharedMutex <- TRUE,
  Lambda <- Overwrites

\* one more in another submap, under a mutex that has no readers
ParallelKey == {1, 2, 3}
ParallelMutex == INSTANCE ParallelPhmap WITH
  Key <- ParallelKey, Stored <- Own(ParallelKey, {1}), H1 <- <<4, 4, 0>>, H2 <- <<0, 0, 0>>,
  Width <- 4, Spare <- 3, Requested <- {0}, MaxCapacity <- 3,
  Thread <- {1, 2}, Submap <- {0, 1}, Subidx <- [k \in ParallelKey |-> k \div 3], SharedMutex <- FALSE,
  Lambda <- Turns

\* one key, readers, and lambdas that turn the value they read into the other
ParallelLambda == INSTANCE ParallelPhmap WITH
  Key <- {1}, Stored <- Own({1}, {1}), H1 <- <<4>>, H2 <- <<0>>,
  Width <- 4, Spare <- 3, Requested <- {0}, MaxCapacity <- 3,
  Thread <- {1, 2}, Submap <- {0}, Subidx <- [k \in {1} |-> 0], SharedMutex <- TRUE,
  Lambda <- Turns

Kmempool == INSTANCE Kmempool WITH ChunkSize <- 2, Step <- 1, MaxChunks <- 3

Driver == INSTANCE Driver WITH
  Library <- {"khashl", "kbtree", "verstable", "STC", "uthash", "dmap", "hashtrie", "kavl", "_python", "mlib bulk"}, BUF_N <- 3,
  Arguments <- {[N |-> 12, n0 |-> 8, n_cp |-> 2], [N |-> 12, n0 |-> 8, n_cp |-> 1],
                [N |-> 12, n0 |-> 2, n_cp |-> 2], [N |-> 3, n0 |-> 0, n_cp |-> 2]}

-----------------------------------------------------------------------------
\* What the library's table stands for; a pool and the loop are no tables.
Bindings ==
  CASE program = "uthash" -> Uthash!Bindings
    [] program = "dmap" -> Dmap!Bindings
    [] program = "stb_ds" -> StbDs!Bindings
    [] program = "robin_hood" -> RobinHood!Bindings
    [] program = "verstable" -> Verstable!Bindings
    [] program = "verstable limit" -> VerstableLimit!Bindings
    [] program = "CC" -> Cc!Bindings
    [] program = "CC limit" -> CcLimit!Bindings
    [] program = "unordered_dense" -> UnorderedDense!Bindings
    [] program = "emilib2" -> Emilib2!Bindings
    [] program = "ska_bytell" -> Bytell!Bindings
    [] program = "STC" -> Stc!Bindings
    [] program = "mlib" -> Mlib!Bindings
    [] program = "ctl" -> Ctl!Bindings
    [] program = "phmap" -> Phmap!Bindings
    [] program = "phmap shared" -> ParallelShared!ParallelBindings
    [] program = "phmap mutex" -> ParallelMutex!ParallelBindings
    [] OTHER -> {}

Init ==
  \/ program = "uthash" /\ Uthash!Init
  \/ program = "dmap" /\ Dmap!Init
  \/ program = "stb_ds" /\ StbDs!Init
  \/ program = "robin_hood" /\ RobinHood!Init
  \/ program = "verstable" /\ Verstable!Init
  \/ program = "verstable limit" /\ VerstableLimit!Init
  \/ program = "CC" /\ Cc!Init
  \/ program = "CC limit" /\ CcLimit!Init
  \/ program = "unordered_dense" /\ UnorderedDense!Init
  \/ program = "emilib2" /\ Emilib2!Init
  \/ program = "ska_bytell" /\ Bytell!Init
  \/ program = "STC" /\ Stc!Init
  \/ program = "mlib" /\ Mlib!Init
  \/ program = "ctl" /\ Ctl!Init
  \/ program = "phmap" /\ Phmap!Init
  \/ program = "phmap shared" /\ ParallelShared!ParallelInit
  \/ program = "phmap mutex" /\ ParallelMutex!ParallelInit
  \/ program = "kmempool" /\ Kmempool!Init
  \/ program = "driver" /\ Driver!Init

Call ==
  \/ program = "uthash" /\ Uthash!Next
  \/ program = "dmap" /\ Dmap!Next
  \/ program = "stb_ds" /\ StbDs!Next
  \/ program = "robin_hood" /\ RobinHood!Next
  \/ program = "verstable" /\ Verstable!Next
  \/ program = "verstable limit" /\ VerstableLimit!Next
  \/ program = "CC" /\ Cc!CcNext
  \/ program = "CC limit" /\ CcLimit!CcNext
  \/ program = "unordered_dense" /\ UnorderedDense!Next
  \/ program = "emilib2" /\ Emilib2!Next
  \/ program = "ska_bytell" /\ Bytell!Next
  \/ program = "STC" /\ Stc!Next
  \/ program = "mlib" /\ Mlib!Next
  \/ program = "ctl" /\ Ctl!Next
  \/ program = "phmap" /\ Phmap!Next
  \/ program = "phmap shared" /\ ParallelShared!ParallelNext
  \/ program = "phmap mutex" /\ ParallelMutex!ParallelNext
  \/ program = "kmempool" /\ Kmempool!Next
  \/ program = "driver" /\ Driver!Next

Next == UNCHANGED program /\ Call

Spec == Init /\ [][Next]_vars

\* dmap in four slots
DmapSpec ==
  /\ program = "dmap" /\ DmapOfFour!Init
  /\ [][UNCHANGED program /\ DmapOfFour!Next]_vars

\* phmap's parallel table, with lambdas that depend on the value
LambdaSpec ==
  /\ program = "phmap shared" /\ ParallelLambda!ParallelInit
  /\ [][UNCHANGED program /\ ParallelLambda!ParallelNext]_vars

AnyKey == UNION {UthashKey, DmapKey, StbDsKey, RobinHoodKey, VerstableKey, UnorderedDenseKey,
                 Emilib2Key, BytellKey, StcKey, MlibKey, CtlKey, PhmapKey}

\* 0 is what M*LIB makes of a new value
Map == INSTANCE KeyedMap WITH
  Key <- AnyKey, Stored <- [k \in AnyKey |-> {k, 100 + k, 0}], map <- Bindings

-----------------------------------------------------------------------------
(***************************************************************************)
(* Properties.  Each library's are stated, and explained, in its module.   *)
(***************************************************************************)
\* Every call of every library is a step of one map, however the table is
\* rearranged behind it: no key is lost, doubled, resurrected or given
\* another's value by a rehash, a backward shift, a chain or a tombstone.  (A call
\* counts as what it does: ctl's insert_or_assign is an insertion.)
ImplementsKeyedMap == Map!Spec

\* uthash: buckets, hash list and insertion order agree, as HASH_FSCK checks.
UthashIsSound == program = "uthash" => Uthash!TableIsSound(t.src) /\ Uthash!Fsck(t.dst)

\* dmap: each place of the value array has one owner, and keys are reachable.
DmapIsSound == program = "dmap" => Dmap!MapIsSound

\* dmap: the place of a value does not change while its key is there.
DmapIndicesAreStable == [][program = "dmap" => Dmap!IndicesAreStable]_vars

\* phmap.h:3354 and 4047: the lambda of try_emplace_l and of lazy_emplace_l is
\* called with the value "under write lock protection".
LambdaIsProtected == ParallelLambda!LambdaIsProtected

\* dmap.c:366 and 396: every probe ends, because there is an empty slot.
ProbesEnd == DmapOfFour!ProbesEnd

\* stb_ds: the index and the array it points to agree, and probes end.
StbDsIsSound == program = "stb_ds" => StbDs!IndexIsSound

\* robin_hood: an info byte is the distance from home, in its order.
RobinHoodIsSound == program = "robin_hood" => RobinHood!TableIsSound

\* verstable: chains have their home's keys only, in the order of their
\* displacements, and a sweep that erases meets each key once; whether
\* memory runs out or a displacement reaches its limit.  CC's map, its port,
\* does the same with the same results.
VerstableIsSound ==
  /\ program = "verstable" => Verstable!TableIsSound /\ Verstable!SweepMeetsEachOnce
  /\ program = "verstable limit" => VerstableLimit!TableIsSound /\ VerstableLimit!SweepMeetsEachOnce
  /\ program = "CC" => Cc!TableIsSound /\ Cc!PortAgrees /\ Cc!EraseSweepMeetsEachOnce
  /\ program = "CC limit" => CcLimit!TableIsSound /\ CcLimit!PortAgrees /\ CcLimit!EraseSweepMeetsEachOnce

\* unordered_dense: buckets and the value vector agree, in probing order.
UnorderedDenseIsSound == program = "unordered_dense" => UnorderedDense!TableIsSound

\* emilib2: every element is in a group that the search for it looks at.
Emilib2IsSound == program = "emilib2" => Emilib2!TableIsSound

\* ska_bytell: the jump lists have their home's keys only, and end.
BytellIsSound == program = "ska_bytell" => Bytell!TableIsSound

\* STC: no empty bucket before an element, and an erasing sweep misses none.
StcIsSound == program = "STC" => Stc!TableIsSound

\* M*LIB: no empty bucket before an element, and one to end each probe.
MlibIsSound == program = "mlib" => Mlib!TableIsSound

\* ctl: a node is in its hash's bucket; no bucket is left behind.
CtlIsSound == program = "ctl" => Ctl!TableIsSound

\* phmap: what is left to grow accounts for the deleted slots, and no search
\* ends before its key.  With threads, it is so for every submap that nobody
\* writes to, and a place a thread was told of is good until it unlocks.
PhmapIsSound ==
  /\ program = "phmap" => Phmap!TableIsSound
  /\ program = "phmap shared" => ParallelShared!ParallelIsSound
  /\ program = "phmap mutex" => ParallelMutex!ParallelIsSound

\* kmempool: an object has one owner, and none is lost.
PoolIsSound == program = "kmempool" => Kmempool!ObjectsHaveOneOwner

\* The benchmark's size and checksum do not depend on the library.
DriverIsRight == program = "driver" => Driver!DriverIsRight
=============================================================================
