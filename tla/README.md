# Dictionaries of udb3: specifications, model checks and proofs

udb3 compares dictionary libraries by one program each: a shared driver generates keys, a
small `test.c` inserts and deletes them in one library and counts. Most of the repository's
bytes are third-party libraries copied in. What the repository brings of its own (or of its
author's) is a handful of dictionary implementations in C that exist nowhere else in this
form: **khashl** and its ensemble, **khashp**, **kbtree**, **kavl** with **kmempool**, and
the lock-free **hashtrie**. They are small, subtle, and hardly tested: a benchmark exercises
`put` and `del` on random integers and prints a checksum that nothing compares. This
directory specifies them in TLA+, checks the specifications with TLC, and proves with TLAPS that
khashl, its ensemble, khashp, kavl and hashtrie keep their promises, whatever their size. It also
specifies the part of each vendored library that the benchmark runs, its central table, because
there the same promise is kept in thirteen ways.

All paths below are relative to the repository (`src/`).

## 1. Inventory

### khashl: open-addressing hash table (`khashl/khashl.h`, `KHASHL_INIT`)

* *State*: a bucket array, one flag bit per bucket, the exponent of the capacity, a count.
* *Operations*: `getp`, `putp`, `resize`, `del`, `clear`, `destroy`, `kh_val`. The set and map
  front ends, and the variants that cache hashes, only change the element type.
* *Hard*: linear probing without tombstones. `del` closes the gap it makes by shifting later
  elements back, across the end of the array; `resize` rehashes *within* one array, kicking
  out elements that lie where another has to go, so that halfway through old and new tables
  share the array and one element is in a local variable. Every loop ends only because some
  flag is clear. `resize` allocates twice.
* *Correct if*: it is a map; no probe sequence is interrupted; no key is twice in the table or
  lost; the count is right and within the load limit; every call returns.

### khashl ensemble (`khashl/khashl.h`, `KHASHE_INIT`)

* *State*: `1<<bits` khashl tables and a total count. *Operations*: those of a table; the low bits
  of the hash choose the one that is called.
* *Hard*: the total is kept apart from the tables' counts and follows the code `putp` returns,
  a failure included; `del` uses an iterator that names the table.
* *Correct if*: the tables together are one map, and its size is right.

### khashp: type-erased table (`khashp/khashp.c`, `khashp/khashp.h`)

* *State*: as khashl, in untyped memory; string tables hold addresses of the client's strings, or
  of copies (`dup`) that the table owns.
* *Operations*: `khp_init`, `get`, `put`, `resize`, `del`, `clear`, `destroy`, value access, and the
  `khp_str_` variants.
* *Hard*: ownership. Hashing and comparing read through addresses, so what has been freed matters;
  copies must be freed once, by `khp_str_del` before the table is changed or by
  `khp_str_destroy`; four allocations can fail, each with other consequences.
* *Correct if*: it is a map; each bucket owns the copy it points to; no copy is lost.

### kbtree: B-tree (`kbtree/kbtree.h`)

* *State*: nodes of `t-1` to `2t-1` keys, the number of keys; an iterator is a stack of nodes and indices.
* *Operations*: `kb_init`, `getp`, `putp`, `delp`, `interval`, iteration, `kb_traverse`, `destroy`.
* *Hard*: both insertion and deletion restructure on the way *down*: a full node is split before
  it is entered, a poor one borrows or is merged first. Deletion from an inner node deletes the
  neighbouring key from a subtree that is restructured meanwhile. Rare paths (an inner node borrowing,
  the root collapsing) need three levels.
* *Correct if*: it is a map, ordered, with all leaves equally deep and nodes at least half full.

### kavl: intrusive AVL tree (`kavl/kavl.h`)

* *State*: the nodes' children, balance factors and subtree sizes; an iterator is a path.
* *Operations*: `find`, `interval`, `insert`, `erase`, `erase_first`, `kavl_free`, iteration both ways.
* *Hard*: rotations decide by balance factors and patch sizes relative to each other;
  a deletion can rotate at several levels; `kavl_free` takes the tree apart while walking it.
* *Correct if*: it is a set with ranks; balance factors are heights; sizes are sizes.

### hashtrie: lock-free hash trie (`hashtrie/test.c`, `upsert`)

* *State*: a 4-ary trie of hash digits that threads share; one arena per thread.
* *Operations*: `upsert` with an arena (find or insert) or without (find).
* *Hard*: a node is published by one compare-and-swap; the loser returns its node to
  its arena, and goes on from the winner's node. "Thread-safe" and "lock-free" are claims about every
  interleaving, and no program in the repository runs it with more than one thread.
* *Correct if*: it is linearizable, one node per key for good; no published node is freed;
  a thread that runs finishes whatever the others do.

### kmempool: fixed-size object pool (`kavl/kmempool.c`)

* *State*: chunks, how much of the last one is used, a buffer of freed entries. *Operations*: `kmp_init2`, `kmp_alloc`, `kmp_free`, `kmp_destroy`.
* *Hard*: two sources of free entries. *Correct if*: no entry has two owners and none is lost.

### dmap (`dmap/dmap.c`)

* *State*: an index table, a value array behind the client's pointer, a free list of places in it.
* *Operations*: `dmap_init`, `insert`, `get`, `delete`, `free`; growth copies all three parts.
* *Hard*: tombstones that are never reused or swept; a place must be free when it is given and stay put while its key
  lives. `dmap/test.c:17` notes "FIXME: not working" for deletions.
* *Correct if*: live keys have places of their own, which stay; and every probe ends (it does not: section 6).

### The vendored tables

Thirteen libraries, dmap among them, that promise one thing, a map, by twelve structures. What each search relies on is
what has to survive every rehash, displacement and failure:

| library | structure | hard |
| --- | --- | --- |
| uthash | chains, and a list in order of addition through the elements | expansion relinks everything; its rollback when memory runs out |
| stb_ds | index over an array of elements, tombstones | deletion moves the last element; three thresholds leave the empty slot |
| robin_hood | Robin Hood, distance and hash bits in a byte | the byte overflows: bits are narrowed, then the hash changed |
| verstable | chains inside the table, by displacement | a key not at home is evicted; the displacement has a limit |
| CC | verstable, ported by its author (`CC/cc.h:2329`) | the home is computed again on erasure; a rehash fills another container |
| unordered_dense | Robin Hood index over an array | deletion moves the last element, whose bucket must be found |
| emilib2 | groups of state bytes, tombstones, an offset per home | when a deleted slot may become empty |
| ska_bytell | lists inside the table, by jumps | a stranger's list is moved away, and the table may grow in the middle |
| STC | Robin Hood with stored distances | backward shift |
| M\*LIB | quadratic probing, two reserved keys | growing and shrinking inside the array that is read; bulk calls hash keys ahead of both |
| ctl | chains, prime or power-of-two bucket counts | rehash relinks nodes |
| phmap | groups of control bytes, tombstones | when a deleted slot may become empty; rearranging in place |
| phmap, parallel | submaps of that kind, each with a lock | between looking and inserting or erasing the lock is let go |

### The benchmark driver (`common.c`, every `test.c`)

* *State*: the input's number, the checkpoint, the table, a checksum. *Operations*: draw a key, do one library's calls, measure.
* *Hard*: each program makes other calls to the same end. *Correct if*: all that compute the checksum compute the same, and the sizes are those of
  the keys drawn; edges: `n/4` and `n_cp - 1` are divisors.

### Not modelled

* **The programs of ensembles and blocks** (`khashe/test.c`, `test-ens.cpp`, `common-block.c`): the driver's loop again, over several tables or over keys of 56 bytes, with no
  state that `KhashEns` and `Driver` do not have. (`emilib2/test-ens.cpp:25` calls `udb_hash32`, which the repository does not define.) **`_boost`, `_glib`, `_stl`**:
  adapters to libraries that are not in the repository.

### How the parts interact

There are no processes or messages. A `test.c` calls one library, and the contract between
calls is what the client holds: an index, an iterator or a pointer from the last call, valid
until the table changes. The models make that explicit: `Holds` (khashl, khashp, kbtree) says when a
client may write to or delete an element, and the client actions are guarded by it. The ensemble
calls tables; kavl's test takes nodes from kmempool; hashtrie's threads share the
trie and nothing else; threads of a client may share phmap's parallel table, which `phmap/test.cpp` runs with one. No program links two of the other libraries.

## 2. Modules

| module | models | kind |
| --- | --- | --- |
| `Probing` | capacities, load limit, Fibonacci hashing, circular distance | operators shared by the two hash tables, and lemmas about them |
| `Dict` | what every table promises: a partial map | abstract specification |
| `Khashl` | `KHASHL_INIT`, one step per loop turn | component |
| `KhashlProps` | its invariants, refinement of `Dict`, termination | properties |
| `KhashlProof` | | proofs |
| `KhashEns`, `KhashEnsProof` | `KHASHE_INIT` over tables that are `Dict`s | composition, proof |
| `Khashp`, `KhashpProps`, `KhashpProof` | khashp, one step per call | component, proofs |
| `Kbtree`, `KbtreeProps` | kbtree, one step per call | component |
| `RankedSet` | what kavl promises: a set with ranks | abstract specification |
| `Kavl`, `KavlProps` | kavl, one step per call | component |
| `KavlShape`, `KavlProof` | what single operations do to the nodes; what calls do to the tree | proofs |
| `Cells` | what `upsert` promises threads: one cell per key, each call atomic | abstract specification |
| `HashTrie`, `HashTrieProps`, `HashTrieProof` | `upsert`, one step per access to shared memory | component, proofs |
| `Iteration` | induction over numbers; a loop's turns as a function | lemmas the proofs of recursive functions rest on |
| `KeyedMap` | what the benchmarked libraries promise: a map called by key, whose keys have `Stored` values | abstract specification |
| `Uthash`, `Dmap`, `StbDs`, `RobinHood`, `Verstable`, `CcMap`, `UnorderedDense`, `Emilib2`, `Bytell`, `StcHmap`, `MDict`, `Ctl`, `Phmap` | one library each, one step per call | components |
| `ParallelPhmap` | phmap's parallel table over `Phmap`'s tables, one step per use of a lock | component |
| `Kmempool` | the pool | component |
| `Driver` | the loop of the test programs, with ten sequences of calls | component |
| `MCLibraries` | all of the last four rows, one program at a time | composition for TLC |
| `MCMaps` | `KhashEns` and `Kbtree`, one or the other | composition for TLC |
| `MC...` | TLC instances: hash functions, sessions, symmetry | |

Operators whose name has an underscore (`MayFill_NoWrap`, `Rotate1_ChildLost`) are plausible mistakes
in the operator they precede. Nothing uses them; substituting one makes the property it is meant for
fail, which is how each property is known to say something.

### Khashl

The variables are the fields of the struct (`nBuckets` for `bits`, `used` as a set), the call in
progress (`pc`, `op`, `arg`), its result (`pos`, `absent`), and the locals of the loops (`i`, `j`,
`newBuckets`, `newUsed`, `hand`). Calls do not overlap, but each turn of each loop is a step, so that the
invariants of the loops can be stated: the probe of `getp`/`putp` (`Probe`), the outer
and inner loop of the rehash (`MoveSkip`, `MoveTake`, `KickProbe`, `KickSwap`, `KickPlace`) and the
backward shift (`DelScan`). `putp` that has to grow runs the same resize steps first. A failing
allocation is a choice in `AllocFailure`: without the flag array the program stops at the `memset`
(`pc = "crashed"`); without the bucket array `resize` reports -1 and changes nothing. A bucket holds key
and value together, because the code copies them together; what an unflagged
bucket holds is forgotten (`NoBucket`), so that reading it would be a type error.

The word of the hash function is a parameter: `Word`, `Golden` and `MaxBits` stand for 2^32,
2654435769 and 31. `Home` is the code's multiplication modulo the word and shift.

### KhashEns

Each of the `NSub` tables is a `Dict` (an `INSTANCE` per table), which is what `Khashl` is proved to implement; so the
module composes the ensemble with the promise and not with the implementation. `count` follows `if
(*absent) ++g->count` exactly: a put that ran out of memory leaves -1 and is counted. `failures` is a
history variable that says how many were.

### Khashp

A call is one step; the loops are recursive functions of the number of turns, in the code's order. `strings` is the heap of
copies. Every operator that follows an address takes the heap as it is at that point of the
call, so that `khp_str_del`, which frees the copy and *then* shifts the cluster, is modelled as such. `memory` is the
set of blocks the table owns. `CopiesAreLostOnlyBy` names the calls after which copies are lost.

### Kbtree

A node is a record of keys and children; a tree is a value; the operators follow `__kb_putp_aux` and `__kb_delp_aux`
branch by branch (`Enter` borrows or merges before it descends, `DelReplaced` takes the neighbouring key out of
a subtree, `DelSlot`/`DelBelow` are the two other cases). A pointer to an element is its path, an iterator the
stack of the C code, the null pointers it pushes included.

### Kavl

A node is its key, since a tree has no two equal ones. `head` is `__head` of every node; `Root` plays the role of the
`fake` node of `kavl_erase`, so that replacing the root is replacing a child. The way down from the root and the loops on the way back up are functions of the depth. `Rotate1`, `Rotate2`, `InsertAbsent`, `EraseAt`,
`Rebalance` are the functions and loops of the same purpose; `Free` returns the nodes in the order in which the macro frees them.

### HashTrie

Per thread: `pc`, the slot `m`, how far the hash is shifted, the node allocated. Loads and
compare-and-swaps of slots are the steps; everything else a thread does is private to it. A node given back to an arena is
gone from `heap`, so a pointer to it would be noticed. `alloc`'s assertion stops the whole
program (`aborted`) when an arena has one node left.

### The libraries

Each module has the same frame: `t` is the library's state (a record of its arrays and counters), `answer` what the last call said, an action per
public call, and operators named as the functions they stand for. Allocated arrays are functions from indices, `NoTable` the state without any.
Hash values are constants: a home, and beside it whatever else the code stores of a hash (`Frag`, `Hashx`, `Prints`, `Rest`, `H2`), so that keys collide in either or both.
Widths (`InfoBits`, `Last`, `Jumps`, `Simd`, `Width`) are constants too: a table of eight buckets then shows what the code does at thousands.
Where the code throws, aborts or allocates without end, the call is guarded by `WithinBound`.

* `Uthash`: `hh` has the four links of every element's handle. `oom` chooses, per addition, whether the expansion's allocation fails. `src` and `dst` are the tables of `HASH_SELECT`.
* `Dmap`: a probe that finds no empty slot does not return: the call ends in `run = "probing"` (`Stuck`), after which there is no further call.
* `RobinHood`: `Overflows` sets the limit to 0, which makes the next insertion widen the info bytes (`IncreaseInfo`) or change the hash multiplier: `Hash` is a sequence, a function per multiplier.
* `Verstable`: two instances, one in which allocations fail and one in which the displacement limit is in reach (see section 5).
* `CcMap` extends `Verstable` and adds only what the port writes anew, as `CcNext`. `PortAgrees` says that its erasure, with the home or without, and its rehash,
  which does not look for the key first, have the results of verstable's. CC's vectors, lists and ordered maps, and its dispatch on types, are left out.
* `ParallelPhmap` extends `Phmap`: `t.set` has a flat table per submap, `t.readers` and `t.writer` its lock, `t.call` each thread's call. Locking and looking, letting go of
  the shared lock, taking the unique one, and what is done under it (`prepare_insert`, `emplace_at`) are steps of their own; a client's lambda reads the value in one step (`CallLambda`) and writes it in another (`LambdaReturns`). A call takes effect where it sets
  `answer`, so that `ImplementsKeyedMap` says that calls are atomic, whatever threads do in between; `clear` is so for one submap at a time only (`ClearPart`), and an update is `KeyedMap`'s `Update`: the lambda's result for the value the map has at that instant. A mutex
  has readers (`std::shared_mutex`) or not (`std::mutex`, where `switch_to_unique` does nothing). Values are words: of two that are written under the shared lock one stays.
* `MDict`: `BulkUpdate` is `_bulk_update` with the callbacks of `mlib/test-bulk.c`, one of which erases from the dictionary that calls it. `BulkIsOneByOne` says it is the
  calls for its keys in turn; it is evaluated in every state on the `Batches` of the instance, each longer than the ring of hashes computed ahead.
* `Driver`: `Library` names the ten sequences of calls; `drawn` counts how often each key came, which says what the checksum should be. "trapped" is a division by zero.

`MCLibraries` also has the small instances of `Dmap` and `ParallelPhmap` for the runs `dmap_probe` (`MCDmap.cfg`) and `phmap_lambda` (`MCPhmap.cfg`). It holds one variable of states; `program` says whose. The libraries are independent, so this explores the sum of their
state spaces and not a product.

## 3. What is checked

Every run is exhaustive for its bounds. `mutants` in `PROJECT.json` gives the mistake each property detects.

| run | instance | states | shows |
| --- | --- | --- | --- |
| `khashl` | 5 keys, 2 values, capacities 4, 8, 16, both allocations failing | 194 k | the inductive invariant, which has the answers, at every turn of every loop; every step is a step of the map; every call returns |
| `khashp` | 5 keys, 4 copies, all three kinds, four failing allocations | 43 k | probing and count, ownership, what loses copies, refinement of the map |
| `maps` | khashe: 3 keys, 2 values, 2 tables, 2 failing puts; or kbtree: 9 keys, t = 2 and 3 | 122 k | an ensemble of maps is a map, and its size is the elements and the failed puts; B-tree shape, order and size, interval search, iteration, refinement of the map |
| `kavl` | up to 7 nodes, and 10 to 12 | 73 k | balance and sizes, ranks, `kavl_free`, iteration, refinement of the ranked set |
| `hashtrie` | 3 threads, 3 colliding keys, arenas of 2 | 160 k | the trie's shape, published nodes stay, linearizability |
| `hashtrie_lockfree` | 2 threads of which one may stop anywhere | 37 k | the other finishes its call |
| `libraries` | thirteen libraries, the pool, the driver: 4 to 7 keys each; two threads on phmap's parallel table | 114 k | each library's structure; dmap's places; the pool's owners; the driver's sums; each library is a map |
| `khashl_no_memory`, `khashp_get`, `kavl_itr_find`, `dmap_probe`, `phmap_lambda` | small | | findings: see section 6 |

One invariant stands for all that must hold together of a component: `IInv` has khashl's `TypeOK`, `ProbeInvariant`, `UniqueKeys` and
`CountIsElements` among its conjuncts; `TableIsSound`, `TreeIsSound`, `IsAVLTree`, `TrieIsSound` and each library's `...IsSound` are conjunctions of
named parts too.

### Bounds and why they are enough

* **Hash tables.** With `Word = 16` and `Golden = 9` the multiplier is the golden-ratio fraction of the word, as 2654435769 is of 2^32. The
  keys are chosen so that homes collide and clusters wrap round the end at every capacity; `ResizeRequest`
  leads from capacity 4 to 8 and 16 and back, and asks for too little. The deletion shift, the kick-out chain and both failures of `resize` occur in all
  combinations at these sizes; the proof takes care of the others.
* **khashp.** Five keys suffice for one growth beyond the smallest capacity and a wrapped cluster. Addresses are symmetric.
* **kbtree.** Nine keys are the fewest with which, at t = 2, a tree has three levels and an inner node can lend a child to its
  neighbour. t = 3 is there because a leaf then has a choice between borrowing and merging. Each key has its own value, so that
  a value that got to another key shows, and key 4 a second one, to tell overwritten from kept; `kb_itr_get` is asked for key 5 only. Both limits only keep the instance small.
* **kavl.** All trees of up to seven nodes are reached from the empty one. A deletion that rotates at two levels needs
  a minimal AVL tree of height five, which has twelve nodes: the session `Long` starts with one and keeps at least ten nodes. It
  does not iterate; `Short` does.
* **hashtrie.** Two keys collide in every digit (they form a chain), the third in the first digit only. Three threads
  are enough for a race between two with a bystander that has passed the slot. An arena of 2 runs out; the liveness run has
  arenas of 4 so that it need not.

* **Libraries.** Each has as many keys as it takes to fill its smallest table, make it grow (or, where there is one, change its hash) and to have a
  chain or a cluster that wraps. `MCLibraries` says for each which keys collide. The answer is a function of the state before and is read by no
  action, so `View` leaves it out; that is sound for invariants, and for the action properties, which TLC checks on every step it generates.
  Clients store in each key a value of its own, so that a binding which got another key's value is one no map has, and in one key of each library a second value
  too, to tell overwritten from kept (`Own`, `Stored`): at any number of bindings. In M\*LIB, whose `safe_get` makes 0 of a new key, two keys have other values than 0.
* **Parallel table.** Two threads: the calls of others only make more changes to a submap between two of one thread's steps, and one thread can make all of them. With a mutex
  that has readers, two keys that collide in a submap that grows twice; with one that has not, a third key in a second submap. What a client's lambda makes of a value is
  the constant operator `Lambda`. Where updates exclude one another (`modify_if`, and every call with a mutex without readers) it turns the value it read into the
  key's other one (`Turns`). Under the shared lock updates do not exclude one another, calls are then not atomic, and `phmap_lambda` shows it on one key; the instance with readers in `libraries` therefore has
  lambdas that overwrite the value whatever it was (`Overwrites`), for which they are.
* **Driver.** Twelve inputs draw from at most three keys, in every order; two checkpoints, one (a division by zero), a first checkpoint
  with no key to draw from, and fewer than four inputs.

### Fairness

* `Khashl!Spec` assumes weak fairness of `Step`, the next turn of a loop: a call that has begun keeps running, because it is
  the calling thread that runs it. Clients need not call anything.
* `HashTrie!Spec` assumes weak fairness for the threads in `Fair` only. In `hashtrie_lockfree` that is one of two: lock-freedom
  must not depend on the other thread being scheduled.
* The other specifications have no liveness: a call is one step, or (`ParallelPhmap`) waits for locks that promise no order.

## 4. What is proved

Five components are proved about, each for every value of its constants that satisfies the named assumptions:

| assumption | module | says |
| --- | --- | --- |
| `WordAssumption`, `CapacityAssumption` | `Probing` | hashes are words; the least capacity is 4, and the next is at least twice as large (that much is used of powers of two) |
| `ElementAssumption` | `Khashl`, `Khashp` | null values are not elements; addresses are not keys |
| `EnsembleAssumption` | `KhashEns` | there is a table |
| `KavlAssumption` | `Kavl` | keys are finitely many integers; the null pointer and the root's place-holder are not keys; sessions insert keys |
| `HashTrieAssumption` | `HashTrie` | there is a key; hashes are sequences of digits; arenas have a size |

So neither the number of keys, threads or tables is bounded, nor capacities, hash functions or the height of trees, unless by
constants of the model whose value the theorems leave open.

### How recursion is proved about

The prover cannot instantiate induction theorems that take a predicate. `Iteration` therefore states induction about *sets* of numbers
(`InductionOnNat`, from the well-foundedness of the order on `Nat`), and derives from it that a loop has a history: if
each turn maps values to values, there is a function from the number of turns to the value after it (`LoopHasHistory`). With it, the recursive functions of
`Khashp`, `Kavl` and `HashTrieProps` are shown to be the functions that their definitions describe, and facts about a loop are proved turn by turn.

### khashl (`KhashlProof`)

`InvariantHolds` (`Spec => []IInv`), and from it `IndicesStayInBounds`, `ProbesAreUnbroken`, `KeysAreUniqueAndCounted` and `AnswersAreRight`.

The property one wants, `ProbeInvariant` (all buckets from an element's home to its bucket are
flagged), is not inductive: during `del` it is about to be broken, during `resize` there are two tables. The strengthening
has one conjunct per loop. *ProbeLoop*: a probe has passed only over other keys; so a clear flag, or a
full round, means the key is absent. *MoveLoop*: the old table has nothing below `j` left, old and new flags are
disjoint, bucket `j` is free for the element that is kicked out, and all buckets from the home of the
element in hand to `i` are taken in the new table. *DelLoop*: no element between the hole and the scan position needs the hole on its path, so that,
when the scan meets a clear flag, no element at all does and the hole may be opened.
`CountIsElements` gives the clear flag that ends each loop (the load limit leaves at least one).

`KhashlImplementsDict`: the bindings are the elements under old flags, under
new flags and in hand; during `del`, all but the one in the hole. Every loop turn leaves them unchanged,
`put`, `del` and `clear` change them in one step, and each returned index is that of the element asked for.

### The ensemble (`KhashEnsProof`)

`EnsembleInvariant`, `KeysStayRouted`, `SizeIsRight`, `EnsembleImplementsDict`: an ensemble of maps is a map.
The invariant adds that the last answer came from the table of its key, that the element a client
holds is bound, and that the count is the elements and the failed puts.

### khashp (`KhashpProof`)

`TableStaysSound`, `BucketsKeepTheirCopies`, `NoOtherCallLosesCopies`, `TableIsAMap`. A call is one step here, so the
loops' invariants are hypotheses and conclusions of lemmas instead of conjuncts of the state's: what the rehash moves in its turns (`Moving`: nothing
below `j` is left in the old flags, what is in hand and what is moved are together what was there), and what the
backward shift has scanned (`Shifting`). The inductive invariant `IInv` is that every element's key is live where its address leads (`Stored`), that
keys are different, probes unbroken and the count right. What a call does to the bindings is stated once for all three kinds of
keys (`Inserted`, `Kept`, `Removed`), with the heap as it is *after* the call: that a copy freed by `khp_str_del` is not read by the
shift that follows is part of it. This proof found a mistake in the specification: two cases of `Reply` overlapped, and TLC takes the first that is true.

### kavl (`KavlShape`, `KavlProof`)

`TreeStaysAVL`, `LookupsStayRight`, `AllAreFreedOnce`, `IterationKeepsOrder`, `TreeIsARankedSet`.

The invariant is that the nodes are a tree and that the iterator's stack leads down from its root. A tree is described by three functions of the nodes, which the code does not
have: `up` (whose child, on which side), `sub` (the set of nodes below) and `ht` (how high). Each is right if it is right at every node as seen from
its children (`Structure`, `Balanced`), so that no induction over trees is needed: an operation is shown to keep the tree by giving the new functions,
which differ from the old in a few places. That sizes are sizes, balance factors heights, and the order that of a search tree are conjuncts.

* *Rotations* (`TurnKeepsStructure`, `TurnBalances`, `DoubleTurnBalances`). A rotation is a turn of `p`, or a turn of `q` the other way and one of `p`; after it the subtree in `p`'s place has the same
  nodes, is balanced, and is as high as before the insertion, or as high or one lower after a deletion, as the code's balance factors tell.
* *Insertion* changes sizes on the whole path and balance factors below the lowest unbalanced node on it; that one is rotated, or is balanced now.
* *Deletion* takes out a node with one child at most, or puts the next node in its place first. The walk back up keeps `Rising`: the nodes are
  a search tree of right sizes, balanced but for the node the walk has reached, whose subtree is one lower on the side it comes from than its balance factor says. It stops where the height has not changed, or at the root.
* *kavl_free* has no stack: it turns the tree to the right at its root until the root has no left child, frees it and goes right. The nodes that are not freed are a tree throughout, with its root where the loop stands;
  a turn lengthens the tree's right edge and a free removes a node, so the loop ends within twice as many turns as there are nodes.
* *Iteration*: the nodes greater than the one the stack ends in, and reachable from it, are those right of it and of the nodes it goes left from.

### hashtrie (`HashTrieProof`)

`TrieStaysSound`, `NodesStayPublished`, `UpsertIsAtomic`, for any number of threads. `TrieIsSound` is itself inductive: a trie in which
each key has one node, on the path of its digits; nodes that are allocated and not published belong to one thread each, which is about to swap; and every call is at a
place that a search for its key reaches *now*, although it has read the pointers on the way there at different times (`CallIsOnItsWay`).
That holds because a pointer is written once, which `NodesStayPublished` says. The steps divide into those that publish nothing (`Unwritten`) and one that fills an empty place (`Filled`).
From it follows that the load or swap with which a call ends is the instant at which it takes effect.

### What a run checks of it

`IInv`, `KeysAreRouted`, `SizeIsElements`, `TableIsSound`, `BucketsOwnCopies`, `CopiesAreLostOnlyBy`, `IsAVLTree`, `LookupsAreRight`, `FreesEachOnce`,
`IterationInOrder`, `TrieIsSound`, `PublishedForGood`, the three `ImplementsDict`, `ImplementsRankedSet` and `ImplementsCells` are checked by the
runs on small instances and proved for all. `ProbesAreUnbroken`, `KeysAreUniqueAndCounted` and `AnswersAreRight` state conjuncts of khashl's `IInv`; `IndicesStayInBounds` (no loop reads or writes outside the array, and a returned index is inside it or the end) follows from several.

### Model-checked only

* Liveness (`CallReturns`, `LockFree`), which is outside the prover's logic here.
* `Kbtree`: a node is a value that holds its children, and the operators recur over such values. `Iteration` helps with functions of a number of turns only, and there is no set of all trees that could be the domain of a function.
* `kavl_itr_find`, whose property fails, and the other findings' properties.
* The vendored libraries, `Dmap`, `Kmempool` and the driver. Their loops are recursive operators, for which the prover has no SMT backend, `Kmempool` excepted. They are other people's tables, or
  small, and the five components above are where a test helps least.

## 5. What is left out

* khashl: the shrinking `realloc` (`khashl.h:200`) is taken to succeed; requests above 2^31 buckets, which shift by the
  word's width (`khashl.h:163`), are outside the modelled capacities; reference-type and cached-hash variants are not told apart.
* kbtree: failing `calloc` (no result is tested), `kb_get_first`, `n_nodes` (which mergers do not decrement), a `kb_delp`
  whose argument points into the tree, node sizes so small that `kb_init`'s subtraction wraps.
* kavl: `kavl_erase_first` of an empty tree, which writes in front of its path (`kavl.h:212`); the depth limit of 64.
* hashtrie: memory is sequentially consistent. Loads acquire and the swap releases, which suffices for a thread that sees a node to
  see its fields. Arenas are private to their threads, as giving memory back requires; hashes have as many digits as the instance says.
* dmap: `dmap_range`, which reads the free list that exists only after the first deletion (`dmap.c:474`).
* uthash: the tail of `HASH_SELECT`'s destination is never moved (`uthash.h:1016`), so that a later addition to it would cut its list: the property on
  lists speaks of the source. Bloom filters.
* robin_hood: `insert_move` throws in the middle of a rehash when even a new multiplier does not help, and the elements not yet moved are lost (`robin_hood.h:1453`).
* verstable: `evict` unlinks a key before it knows of a bucket in reach (`verstable.h:1088`); if there is none *and* the rehash cannot allocate, the
  key is in no chain. Each instance has only one of the two.
* unordered_dense: use after `extract`, whose buckets name values that are gone. emilib2: `rehash` to exactly the number of elements, which leaves no
  slot empty (`emilib2o.hpp:887`); copies of an empty map; probe lengths above a byte (`:988`).
* STC: distances above 1023 wrap (`hmap.h:403`); `clone` without memory (`:443`); `erase_at` while iterating (`:279`).
* M\*LIB: `bulk_get` and `bulk_set`, which no program calls; the assertion `lower_limit <= count` of debug builds, which reserve and then erase break (`m-dict.h:1385`).
* ctl: `erase` from a freed set (`unordered_set.h:1066`), `emplace_hint` at the end with a key that is there (`:981`). `insert_or_assign` does not assign: it frees the new value
  when the key is there (`unordered_map.h:24`). `Insert` models it as it is, so that ctl is a map under the name of what the function does and not under its own; no documentation or test in the repository says more of it than its name.
* phmap: `merge`, `for_each`, dumping; `rehash(0)` at a size above the load limit, where `growth_left` wraps (`phmap.h:1703`). The parallel table's `size` and
  `capacity`, which take no lock (`:2949`); an iterator used after `find` has unlocked; `swap`, which locks one table's submap and then the other's (`:3555`), so that
  `a.swap(b)` and `b.swap(a)` may wait for one another.
* common.c: `n0` above `N`, where the step wraps.
* Copying, iteration, allocators and the other containers of the vendored headers. They are most of those files' lines: the models cover
  the tables the programs run and no share of the rest.
* Timing, memory measurement, formatting.

## 6. Findings

Shown by a run:

1. `khashl_no_memory`: `resize` clears the new flag array before testing it for null (`khashl/khashl.h:171-172`), so the
   "not enough memory" return is never reached.
2. `khashp_get`: `khp_get`'s loop condition is inverted (`khashp/khashp.c:71`): it walks over the key it looks for and
   returns another bucket, or reports it absent. `khp_put` has it right, and no program calls `khp_get`.
3. `kavl_itr_find`: after a miss the iterator is at the last node passed, which may be the predecessor; the documentation says at or
   after the query, NULL if there is none.
4. `dmap_probe`: deleted slots are never emptied or swept, and growth counts live entries only; after two insertions and two deletions in four slots, two live
   keys fill the rest, and the search for an absent key does not end. `dmap.c:366` and `:396` call that unreachable.
5. `phmap_lambda`: the comments on `lazy_emplace_l` and `try_emplace_l` (`phmap/phmap.h:3354`, `:4047`) say that the lambda for a key that is there is called "under
   write lock protection"; only the shared lock is held, because `find_or_prepare_insert_with_hash` switches for an absent key only (`:3818`). Another thread may change the
   value between the lambda's reading and its writing it, and an update is lost.

Noted while modelling: `khp_destroy` frees the buckets and the table but not the flag array (`khashp.c:52`), although `khashp.h:45` says it
deallocates the table; `khp_clear` on a table of copies leaks them; `khashp.h:69` says what `*absent` means the wrong way round; `khp_str_put`
takes `*absent = -1` for an insertion and writes behind the buckets; an ensemble counts failed puts; `kb_itr_get` leaves in a
node the index at which it left the node above; `kb_delp` returns the caller's copy, not the tree's element, when the key's two
subtrees are merged. phmap's `insert_or_assign` writes under the shared lock too (`phmap.h:4112`). ctl's `insert_or_assign` does not assign. Section 5 has those of the other libraries.

## 7. Plan

Done, in this order: `Probing`, `Dict`, `Khashl` with its proofs; `HashTrie` with `Cells`; `Khashp`; `KhashEns` with its proof;
`Kbtree`; `Kavl` with `RankedSet`; `KeyedMap` and the libraries; `Kmempool`; `Driver`; `Iteration` and with it the proofs of `HashTrie`, `Khashp` and `Kavl`.

What would be next:

1. **`Kbtree`** with nodes in an array, as `Kavl` has them, so that a tree is a function and `up`, `sub` and `ht` can be used for it too.
2. **`Kmempool`**: one owner per object. **`Dmap`**: one place per live key (`DmapIsSound`), its probes written without recursion.
3. The ensemble over `Khashl` itself.
