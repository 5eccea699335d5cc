------------------------------ MODULE Probing ------------------------------
(***************************************************************************)
(* The arithmetic shared by the linear-probing tables of the repository    *)
(* (khashl.h, khashp.c): the load limit, the rounding of a requested size  *)
(* to a capacity, Fibonacci hashing, and the circular order of buckets     *)
(* that the correctness of a probe sequence is about.                      *)
(*                                                                         *)
(* Machine words are scaled: Word stands for 2^32 and Golden for           *)
(* 2654435769, so  hash * Golden  wraps exactly as the C product does.     *)
(* A capacity 1<<bits is represented by its value, never by bits alone.    *)
(***************************************************************************)
EXTENDS Integers, TLAPS

CONSTANTS
  Key,       \* the keys clients use
  Hash,      \* what __hash_fn returns for each key
  Word,      \* number of values of a khint_t (2^32 in the code)
  Golden,    \* the multiplier of Fibonacci hashing
  MaxBits    \* bound: no table grows beyond 2^MaxBits buckets

Capacity == {2^b : b \in 2..MaxBits}

ASSUME WordAssumption ==
  /\ Word \in Nat \ {0}
  /\ Golden \in Nat
  /\ Hash \in [Key -> 0..Word-1]

\* What the proofs use of powers of two: the smallest capacity is 4 and the
\* next one is at least twice as large.
ASSUME CapacityAssumption ==
  /\ MaxBits \in Nat
  /\ \A c \in Capacity : c \in Nat /\ c >= 4
  /\ \A c, d \in Capacity : c < d => 2 * c <= d

(***************************************************************************)
(* kh_max_count(cap): at most three quarters of the buckets are filled.    *)
(***************************************************************************)
MaxCount(cap) == cap \div 2 + cap \div 4

(***************************************************************************)
(* The head of resize: new_bits is the bit length of the request, one more *)
(* if it is no power of two, and at least 2.                               *)
(***************************************************************************)
RoundsUpTo(request, cap) ==
  /\ cap \in Capacity
  /\ request <= cap
  /\ \A c \in Capacity : request <= c => cap <= c

(***************************************************************************)
(* __kh_h2b(hash, bits): the top bits of the wrapped product.  Shifting a  *)
(* word right by (32 - bits) is  (x * 2^bits) \div 2^32.                   *)
(***************************************************************************)
Home(k, cap) == (((Hash[k] * Golden) % Word) * cap) \div Word

\* (i + 1) & mask
NextBucket(p, cap) == (p + 1) % cap

Buckets(cap) == 0..(cap - 1)

(***************************************************************************)
(* How many steps a probe takes from bucket p to bucket q.                 *)
(***************************************************************************)
Dist(p, q, cap) == IF p <= q THEN q - p ELSE q - p + cap

(***************************************************************************)
(* The buckets a probe that starts at "from" visits before it is at "to".  *)
(***************************************************************************)
Path(from, to, cap) ==
  {b \in Buckets(cap) : Dist(from, b, cap) < Dist(from, to, cap)}

-----------------------------------------------------------------------------
(***************************************************************************)
(* What the proofs about linear probing use of this arithmetic.            *)
(***************************************************************************)
\* A hash never selects a bucket outside the table: the shift of __kh_h2b
\* leaves exactly "bits" bits.
LEMMA HomeInBuckets ==
  ASSUME NEW k \in Key, NEW n \in Nat, n > 0
  PROVE  Home(k, n) \in Buckets(n)
<1> DEFINE x == (Hash[k] * Golden) % Word
           q == (x * n) \div Word
<1>1. x \in 0..Word-1
  <2>1. Hash[k] \in Nat
    BY WordAssumption
  <2>2. Hash[k] * Golden \in Nat
    BY <2>1, WordAssumption
  <2> QED
    BY <2>2, WordAssumption
<1> HIDE DEF x
<1>2. x * n \in Nat /\ x * n < Word * n
  BY <1>1, WordAssumption
<1>3. \A y \in Nat, w \in Nat \ {0} : y \div w \in Nat /\ w * (y \div w) <= y
  OBVIOUS
<1>4. q \in Nat /\ Word * q <= x * n
  BY <1>2, <1>3, WordAssumption
<1>5. q < n
  <2> HIDE DEF q
  <2> SUFFICES ASSUME q >= n PROVE FALSE
    BY <1>4
  <2>1. \A a, b, w \in Nat : a <= b => w * a <= w * b
    OBVIOUS
  <2>2. Word * n <= Word * q
    BY <1>4, <2>1, WordAssumption
  <2> QED
    BY <1>2, <1>4, <2>2, WordAssumption
<1> QED
  BY <1>4, <1>5 DEF Home, Buckets, x

\* (i + 1) & mask is the successor, or 0 after the last bucket.
LEMMA NextBucketIs ==
  ASSUME NEW n \in Nat, NEW p \in Buckets(n)
  PROVE  NextBucket(p, n) = IF p + 1 = n THEN 0 ELSE p + 1
BY DEF NextBucket, Buckets

\* The next bucket is within the table.
LEMMA NextBucketType ==
  ASSUME NEW n \in Nat, NEW p \in Buckets(n)
  PROVE  NextBucket(p, n) \in Buckets(n)
BY NextBucketIs DEF Buckets

\* A probe that is at its home has passed over nothing.
LEMMA PathAtHome ==
  ASSUME NEW n \in Nat, NEW h \in Buckets(n)
  PROVE  Path(h, h, n) = {}
BY DEF Path, Dist, Buckets

\* One turn of a probe loop passes over one bucket.
LEMMA PathNext ==
  ASSUME NEW n \in Nat, NEW h \in Buckets(n), NEW p \in Buckets(n)
  PROVE  Path(h, NextBucket(p, n), n) \subseteq Path(h, p, n) \cup {p}
BY NextBucketIs DEF Path, Dist, Buckets

\* A probe that has come round to its home has passed over every bucket.
LEMMA PathRound ==
  ASSUME NEW n \in Nat, NEW h \in Buckets(n), NEW p \in Buckets(n),
         NextBucket(p, n) = h
  PROVE  Buckets(n) \subseteq Path(h, p, n) \cup {p}
BY NextBucketIs DEF Path, Dist, Buckets

\* Of two buckets, a probe reaches one first.
LEMMA PathTotal ==
  ASSUME NEW n \in Nat, NEW h \in Buckets(n),
         NEW p \in Buckets(n), NEW q \in Buckets(n), p # q
  PROVE  p \in Path(h, q, n) \/ q \in Path(h, p, n)
BY DEF Path, Dist, Buckets

\* An element that moves back along its probe sequence leaves a shorter one.
LEMMA PathShorter ==
  ASSUME NEW n \in Nat, NEW h \in Buckets(n), NEW q \in Buckets(n),
         NEW p \in Path(h, q, n)
  PROVE  Path(h, p, n) \subseteq Path(h, q, n)
BY DEF Path, Dist, Buckets

\* What lies between a bucket of a probe sequence and its end is on it too.
LEMMA PathBetween ==
  ASSUME NEW n \in Nat, NEW h \in Buckets(n), NEW x \in Buckets(n),
         NEW p \in Path(h, x, n),
         NEW q \in Buckets(n), Dist(p, q, n) < Dist(p, x, n)
  PROVE  q \in Path(h, x, n)
BY DEF Path, Dist, Buckets

\* The next bucket is one step further, unless the probe has come round.
LEMMA DistNext ==
  ASSUME NEW n \in Nat, NEW p \in Buckets(n), NEW q \in Buckets(n)
  PROVE  /\ NextBucket(q, n) # p => Dist(p, NextBucket(q, n), n) = Dist(p, q, n) + 1
         /\ NextBucket(q, n) = p => \A x \in Buckets(n) : Dist(p, x, n) <= Dist(p, q, n)
BY NextBucketIs DEF Dist, Buckets

\* Distances tell buckets apart.
LEMMA DistInjective ==
  ASSUME NEW n \in Nat, NEW p \in Buckets(n), NEW x \in Buckets(n), NEW y \in Buckets(n)
  PROVE  /\ Dist(p, x, n) \in Nat
         /\ Dist(p, x, n) = Dist(p, y, n) => x = y
         /\ Dist(p, x, n) = 0 <=> x = p
BY DEF Dist, Buckets

\* The load limit is a number.
LEMMA MaxCountType == \A n \in Nat : MaxCount(n) \in Nat
BY DEF MaxCount

\* The load limit is positive and below the capacity: a table at its limit has a
\* clear flag left.
LEMMA MaxCountBelow ==
  ASSUME NEW c \in Capacity
  PROVE  c \in Nat /\ c >= 4 /\ MaxCount(c) \in Nat /\ 0 < MaxCount(c) /\ MaxCount(c) < c
<1>1. c \in Nat /\ c >= 4
  BY CapacityAssumption
<1> QED
  BY <1>1 DEF MaxCount

\* A larger capacity has a larger load limit, so that growing makes room.
LEMMA MaxCountGrows ==
  ASSUME NEW c \in Capacity, NEW d \in Capacity, c < d
  PROVE  MaxCount(c) < MaxCount(d)
<1>1. c \in Nat /\ d \in Nat /\ c >= 4 /\ 2 * c <= d
  BY CapacityAssumption
<1> QED
  BY <1>1 DEF MaxCount
=============================================================================
