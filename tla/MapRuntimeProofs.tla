--------------------------- MODULE MapRuntimeProofs ---------------------------
(***************************************************************************)
(* Proofs about MapRuntime, for every set of keys and values, every size   *)
(* of the vector and the buckets, and any number of iterators.             *)
(***************************************************************************)
EXTENDS MapRuntime, WellFoundedInduction, FiniteSetTheorems, TLAPS

-----------------------------------------------------------------------------
(***************************************************************************)
(* Induction and recursion up to a bound, in a form without operators.     *)
(***************************************************************************)

\* A set of natural numbers that is not empty has a least element.
LEMMA LeastNat ==
    ASSUME NEW S, S \subseteq Nat, S # {}
    PROVE  \E n \in S : \A k \in S : n <= k
  <1> DEFINE R == OpToRel(<, Nat)
  <1>1. IsWellFoundedOn(R, Nat)
    BY NatLessThanWellFounded
  <1>2. PICK n \in S : \A k \in S : ~ (<<k, n>> \in R)
    <2> HIDE DEF R
    <2> QED
      BY <1>1, WFMin
  <1>3. \A k \in S : ~ (k < n)
    BY <1>2 DEF OpToRel
  <1> QED
    BY <1>3

\* A set that has 0 and is closed under successors has all numbers up to N.
LEMMA UpTo ==
    ASSUME NEW N \in Nat, NEW S, 0 \in S, \A n \in 0..(N - 1) : n \in S => n + 1 \in S
    PROVE  \A n \in 0..N : n \in S
  <1> DEFINE T == (0..N) \ S
  <1>1. T \subseteq Nat
    OBVIOUS
  <1>2. ASSUME T # {}
        PROVE  FALSE
    <2>1. PICK n \in T : \A k \in T : n <= k
      <3> HIDE DEF T
      <3> QED
        BY <1>1, <1>2, LeastNat
    <2>2. n \in 1..N
      BY <2>1
    <2>3. n - 1 \in 0..(N - 1) /\ n - 1 \notin T
      BY <2>1, <2>2
    <2>4. n - 1 \in S /\ (n - 1) + 1 = n
      BY <2>2, <2>3
    <2>5. n \in S
      BY <2>3, <2>4
    <2> QED
      BY <2>1, <2>5
  <1> QED
    BY <1>2

\* A step stays in S.
StaysIn(S, N, step) == \A n \in 1..N, v \in S : step[<<n, v>>] \in S

\* f begins with base and goes on by the step.
Follows(f, S, N, base, step) ==
    f \in [0..N -> S] /\ f[0] = base /\ \A n \in 1..N : f[n] = step[<<n, f[n - 1]>>]

\* A function may be defined by what it is at 0 and by a step.
LEMMA Recursion ==
    ASSUME NEW N \in Nat, NEW S, NEW base \in S, NEW step, StaysIn(S, N, step)
    PROVE  \E f : Follows(f, S, N, base, step)
  <1> DEFINE Good == {K \in 0..N : \E f \in [0..K -> S] :
                          f[0] = base /\ \A n \in 1..K : f[n] = step[<<n, f[n - 1]>>]}
  <1>1. 0 \in Good
    <2> DEFINE f == [n \in 0..0 |-> base]
    <2>1. f \in [0..0 -> S] /\ f[0] = base
      OBVIOUS
    <2>2. 1..0 = {} /\ 0 \in 0..N
      OBVIOUS
    <2> HIDE DEF f
    <2> QED
      BY <2>1, <2>2
  <1>2. ASSUME NEW K \in 0..(N - 1), K \in Good
        PROVE  K + 1 \in Good
    <2>1. PICK f \in [0..K -> S] : f[0] = base /\ \A n \in 1..K : f[n] = step[<<n, f[n - 1]>>]
      BY <1>2
    <2> DEFINE g == [n \in 0..(K + 1) |-> IF n = K + 1 THEN step[<<K + 1, f[K]>>] ELSE f[n]]
    <2>2. step[<<K + 1, f[K]>>] \in S
      <3>1. K + 1 \in 1..N /\ f[K] \in S
        OBVIOUS
      <3> QED
        BY <3>1 DEF StaysIn
    <2>3. g \in [0..(K + 1) -> S]
      BY <2>2
    <2>4. g[0] = base
      BY <2>1
    <2>5. ASSUME NEW n \in 1..(K + 1)
          PROVE  g[n] = step[<<n, g[n - 1]>>]
      <3>1. n - 1 \in 0..K /\ g[n - 1] = f[n - 1]
        OBVIOUS
      <3>2. CASE n = K + 1
        <4>1. n - 1 = K /\ n \in 0..(K + 1)
          BY <3>2
        <4> QED
          BY <3>1, <3>2, <4>1
      <3>3. CASE n # K + 1
        BY <2>1, <3>1, <3>3
      <3> QED
        BY <3>2, <3>3
    <2>6. K + 1 \in 0..N
      OBVIOUS
    <2> HIDE DEF g
    <2> QED
      BY <2>3, <2>4, <2>5, <2>6
  <1>3. \A K \in 0..(N - 1) : K \in Good => K + 1 \in Good
    BY <1>2
  <1>4. N \in Good
    <2> HIDE DEF Good
    <2>1. \A K \in 0..N : K \in Good
      BY <1>1, <1>3, UpTo
    <2> QED
      BY <2>1
  <1> QED
    BY <1>4 DEF Follows
-----------------------------------------------------------------------------
(***************************************************************************)
(* The table: c buckets and a vector of l slots.                           *)
(***************************************************************************)

\* The places in the vector, and none.
Slot == -1..MaxEntries

\* A $MapEntry.
EntryRecord == [key : Key \cup {Null}, value : Value \cup {Null}, next : Slot,
                hash : {Hash(k) : k \in Key}, tombstone : BOOLEAN]

\* A $Map.
Table(c, l) == [buckets : [0..(c - 1) -> Slot], entries : [0..(l - 1) -> EntryRecord \cup {Null}],
                entryCount : Nat, liveCount : Int]

\* The entries of the vector.
Used(x) == 0..(x.entryCount - 1)

\* The vector holds entries up to entryCount, and a live one has its key.
Filled(x, l) ==
    /\ x.entryCount <= l
    /\ x.entryCount <= MaxEntries
    /\ \A i \in Used(x) : x.entries[i] \in EntryRecord
    /\ \A i \in Used(x) : IsLive(x, i) =>
          x.entries[i].key \in Key /\ x.entries[i].hash = Hash(x.entries[i].key)

\* The bucket of entry i.
Bucket(x, i, c) == x.entries[i].hash % c

\* The chains of the buckets have the entries of R, each chain those of its
\* bucket, from the last to the first.
Linked(x, c, R) ==
    /\ \A b \in 0..(c - 1) :
          x.buckets[b] = -1 \/ (x.buckets[b] \in R /\ Bucket(x, x.buckets[b], c) = b)
    /\ \A i \in R : \/ x.entries[i].next = -1
                    \/ /\ x.entries[i].next \in R
                       /\ x.entries[i].next < i
                       /\ Bucket(x, x.entries[i].next, c) = Bucket(x, i, c)
    /\ \A i \in R : x.buckets[Bucket(x, i, c)] >= i
    /\ \A i, j \in R : i < j /\ Bucket(x, i, c) = Bucket(x, j, c) => x.entries[j].next >= i

\* The live entries of the vector.
LiveEntries(x) == {i \in Used(x) : IsLive(x, i)}

\* A hash names a bucket.
LEMMA BucketRange ==
    ASSUME NEW k \in Key, NEW c \in Nat \ {0}
    PROVE  Hash(k) \in Nat /\ Hash(k) % c \in 0..(c - 1)
  <1>1. k.content \in Nat
    BY MapAssumption DEF Key
  <1>2. Hash(k) \in Nat
    BY <1>1 DEF Hash
  <1> QED
    BY <1>2

\* An entry is not null.
LEMMA EntryNotNull ==
    ASSUME NEW e \in EntryRecord
    PROVE  e # Null
  BY NotNullAssumption DEF EntryRecord, Slot

\* The number of buckets.
LEMMA CapIs ==
    ASSUME NEW c \in Nat \ {0}, NEW l, NEW x \in Table(c, l)
    PROVE  Cap(x) = c
  <1>1. DOMAIN x.buckets = 0..(c - 1)
    BY DEF Table
  <1>2. Cardinality(0..(c - 1)) = c
    BY FS_Interval
  <1> QED
    BY <1>1, <1>2 DEF Cap

\* In y, entry i of x is the head of the chain of its bucket.
Links(x, y, i, c, l) ==
    LET b == Bucket(x, i, c)
    IN  /\ y \in Table(c, l)
        /\ b \in 0..(c - 1)
        /\ y.buckets = [x.buckets EXCEPT ![b] = i]
        /\ y.entries = [x.entries EXCEPT ![i] = [x.entries[i] EXCEPT !.next = x.buckets[b]]]
        /\ y.entries[i] = [x.entries[i] EXCEPT !.next = x.buckets[b]]
        /\ y.entries[i] \in EntryRecord
        /\ y.entryCount = x.entryCount
        /\ y.liveCount = x.liveCount

\* Link does that.
LEMMA LinkShape ==
    ASSUME NEW c \in Nat \ {0}, NEW l \in Nat, NEW x \in Table(c, l),
           NEW i \in 0..(l - 1), i <= MaxEntries, x.entries[i] \in EntryRecord
    PROVE  Links(x, Link(x, i), i, c, l)
  <1> DEFINE b == Bucket(x, i, c)
             e == [x.entries[i] EXCEPT !.next = x.buckets[b]]
             y == [x EXCEPT !.entries = [x.entries EXCEPT ![i] = e],
                            !.buckets = [x.buckets EXCEPT ![b] = i]]
  <1>1. Link(x, i) = y
    BY CapIs DEF Link, Bucket, Table
  <1>2. b \in 0..(c - 1)
    <2>1. PICK k \in Key : x.entries[i].hash = Hash(k)
      BY DEF EntryRecord
    <2> QED
      BY <2>1, BucketRange DEF Bucket
  <1>3. x.buckets[b] \in Slot
    BY <1>2 DEF Table
  <1>4. e \in EntryRecord
    BY <1>3 DEF EntryRecord
  <1>5. i \in Slot
    BY MapAssumption DEF Slot
  <1>6. /\ x.buckets \in [0..(c - 1) -> Slot]
        /\ x.entries \in [0..(l - 1) -> EntryRecord \cup {Null}]
    BY DEF Table
  <1>7. /\ [x.entries EXCEPT ![i] = e] \in [0..(l - 1) -> EntryRecord \cup {Null}]
        /\ [x.entries EXCEPT ![i] = e][i] = e
        /\ [x.buckets EXCEPT ![b] = i] \in [0..(c - 1) -> Slot]
    BY <1>2, <1>4, <1>5, <1>6
  <1> HIDE DEF e, b
  <1>8. /\ y \in Table(c, l)
        /\ y.buckets = [x.buckets EXCEPT ![b] = i]
        /\ y.entries = [x.entries EXCEPT ![i] = e]
        /\ y.entryCount = x.entryCount
        /\ y.liveCount = x.liveCount
    BY <1>7 DEF Table
  <1> QED
    BY <1>1, <1>2, <1>4, <1>7, <1>8 DEF e, b, Links

\* It keeps entries entries.
LEMMA LinkStays ==
    ASSUME NEW c \in Nat \ {0}, NEW l \in Nat, NEW x \in Table(c, l),
           NEW U \in SUBSET (0..(l - 1)), \A j \in U : x.entries[j] \in EntryRecord,
           NEW i \in U, i <= MaxEntries
    PROVE  /\ Link(x, i) \in Table(c, l)
           /\ \A j \in U : Link(x, i).entries[j] \in EntryRecord
  <1> DEFINE y == Link(x, i)
  <1>1. /\ y \in Table(c, l)
        /\ y.entries = [x.entries EXCEPT ![i] = [x.entries[i] EXCEPT !.next = x.buckets[Bucket(x, i, c)]]]
        /\ y.entries[i] \in EntryRecord
    <2>1. i \in 0..(l - 1) /\ x.entries[i] \in EntryRecord
      OBVIOUS
    <2>2. Links(x, y, i, c, l)
      BY <2>1, LinkShape
    <2> QED
      BY <2>2 DEF Links
  <1>2. x.entries \in [0..(l - 1) -> EntryRecord \cup {Null}]
    BY DEF Table
  <1> HIDE DEF y
  <1>3. \A j \in U : j # i => y.entries[j] = x.entries[j]
    BY <1>1, <1>2
  <1> QED
    BY <1>1, <1>3 DEF y

\* A new head of a chain.
LEMMA LinkKeeps ==
    ASSUME NEW c \in Nat \ {0}, NEW l \in Nat, NEW x \in Table(c, l),
           NEW i \in 0..(l - 1), i <= MaxEntries, x.entries[i] \in EntryRecord,
           NEW R \in SUBSET (0..(i - 1)), Linked(x, c, R),
           \A j \in R : x.entries[j] \in EntryRecord
    PROVE  Linked(Link(x, i), c, R \cup {i})
  <1> DEFINE y == Link(x, i)
             b == Bucket(x, i, c)
  <1>1. /\ y \in Table(c, l)
        /\ b \in 0..(c - 1)
        /\ y.buckets = [x.buckets EXCEPT ![b] = i]
        /\ y.entries = [x.entries EXCEPT ![i] = [x.entries[i] EXCEPT !.next = x.buckets[b]]]
        /\ y.entries[i] = [x.entries[i] EXCEPT !.next = x.buckets[b]]
    BY LinkShape DEF Links
  <1>2. \A j \in R : j \in Nat /\ j < i /\ y.entries[j] = x.entries[j] /\ Bucket(y, j, c) = Bucket(x, j, c)
    BY <1>1 DEF Bucket
  <1>3. Bucket(y, i, c) = b /\ y.entries[i].next = x.buckets[b]
    BY <1>1 DEF Bucket, EntryRecord
  <1>4. y.buckets[b] = i /\ \A a \in 0..(c - 1) : a # b => y.buckets[a] = x.buckets[a]
    BY <1>1 DEF Table
  <1>5. \A j \in R : Bucket(x, j, c) \in 0..(c - 1)
    <2> TAKE j \in R
    <2>1. PICK k \in Key : x.entries[j].hash = Hash(k)
      BY DEF EntryRecord
    <2> QED
      BY <2>1, BucketRange DEF Bucket
  <1> HIDE DEF y, b
  <1>6. \A a \in 0..(c - 1) : y.buckets[a] = -1 \/ (y.buckets[a] \in R \cup {i} /\ Bucket(y, y.buckets[a], c) = a)
    BY <1>2, <1>3, <1>4, ZenonT(40) DEF Linked
  <1>7. \A j \in R \cup {i} : \/ y.entries[j].next = -1
                              \/ /\ y.entries[j].next \in R \cup {i}
                                 /\ y.entries[j].next < j
                                 /\ Bucket(y, y.entries[j].next, c) = Bucket(y, j, c)
    <2>1. ASSUME NEW j \in R
          PROVE  \/ y.entries[j].next = -1
                 \/ /\ y.entries[j].next \in R
                    /\ y.entries[j].next < j
                    /\ Bucket(y, y.entries[j].next, c) = Bucket(y, j, c)
      BY <1>2, ZenonT(40) DEF Linked
    <2>2. \/ y.entries[i].next = -1
          \/ /\ y.entries[i].next \in R
             /\ y.entries[i].next < i
             /\ Bucket(y, y.entries[i].next, c) = Bucket(y, i, c)
      BY <1>1, <1>2, <1>3 DEF Linked
    <2> QED
      BY <2>1, <2>2
  <1>8. \A j \in R \cup {i} : y.buckets[Bucket(y, j, c)] >= j
    BY <1>2, <1>3, <1>4, <1>5 DEF Linked
  <1>9. \A j, k \in R \cup {i} : j < k /\ Bucket(y, j, c) = Bucket(y, k, c) => y.entries[k].next >= j
    <2> TAKE j, k \in R \cup {i}
    <2>1. CASE k \in R
      BY <1>2, <2>1 DEF Linked
    <2>2. CASE k = i
      BY <1>2, <1>3, <2>2 DEF Linked
    <2> QED
      BY <2>1, <2>2
  <1> QED
    BY <1>6, <1>7, <1>8, <1>9 DEF Linked, y
-----------------------------------------------------------------------------
(***************************************************************************)
(* Rehashing.                                                              *)
(***************************************************************************)

\* y has the entries of x, some of them linked anew.
Relinked(x, y, l) ==
    /\ y.entryCount = x.entryCount
    /\ y.liveCount = x.liveCount
    /\ \A i \in 0..(l - 1) :
          \/ y.entries[i] = x.entries[i]
          \/ /\ i \in Used(x)
             /\ y.entries[i] \in EntryRecord
             /\ y.entries[i] = [x.entries[i] EXCEPT !.next = y.entries[i].next]
             /\ y.entries[i].next < i

\* Linking an entry anew leaves the rest of it as it is.
LEMMA RelinkedSame ==
    ASSUME NEW l \in Nat, NEW x, Filled(x, l), x.entryCount \in Nat, NEW y, Relinked(x, y, l), NEW i \in Used(x)
    PROVE  /\ i \in 0..(l - 1)
           /\ y.entries[i] \in EntryRecord
           /\ y.entries[i].key = x.entries[i].key
           /\ y.entries[i].value = x.entries[i].value
           /\ y.entries[i].hash = x.entries[i].hash
           /\ y.entries[i].tombstone = x.entries[i].tombstone
           /\ y.entries[i].next = x.entries[i].next \/ y.entries[i].next < i
  <1>1. i \in 0..(l - 1) /\ x.entries[i] \in EntryRecord
    BY DEF Filled, Used
  <1>2. CASE y.entries[i] = x.entries[i]
    BY <1>1, <1>2
  <1>3. CASE /\ y.entries[i] \in EntryRecord
             /\ y.entries[i] = [x.entries[i] EXCEPT !.next = y.entries[i].next]
             /\ y.entries[i].next < i
    <2> DEFINE e == x.entries[i]
               n == y.entries[i].next
    <2>1. e \in EntryRecord /\ y.entries[i] = [e EXCEPT !.next = n]
      BY <1>1, <1>3
    <2> HIDE DEF e, n
    <2>2. /\ y.entries[i].key = e.key
          /\ y.entries[i].value = e.value
          /\ y.entries[i].hash = e.hash
          /\ y.entries[i].tombstone = e.tombstone
      BY <2>1 DEF EntryRecord
    <2> QED
      BY <1>1, <1>3, <2>2 DEF e
  <1> QED
    BY <1>1, <1>2, <1>3 DEF Relinked

\* What the turns of the loop of __map_set's rehash give.
LEMMA LinkLiveDef ==
    ASSUME NEW c \in Nat \ {0}, NEW l \in Nat, NEW x \in Table(c, l), Filled(x, l)
    PROVE  \E f : /\ f[0] = x
                  /\ \A n \in 1..x.entryCount :
                        f[n] = IF IsLive(x, n - 1) THEN Link(f[n - 1], n - 1) ELSE f[n - 1]
                  /\ LinkLive(x) = f[x.entryCount]
  <1> DEFINE N == x.entryCount
             S == {v \in Table(c, l) : \A i \in Used(x) : v.entries[i] \in EntryRecord}
             step == [p \in (1..N) \X S |-> IF IsLive(x, p[1] - 1) THEN Link(p[2], p[1] - 1) ELSE p[2]]
             Is(f) == f = [n \in 0..N |-> IF n = 0 THEN x
                                          ELSE IF IsLive(x, n - 1) THEN Link(f[n - 1], n - 1) ELSE f[n - 1]]
  <1>1. N \in Nat
    BY DEF Table
  <1>2. x \in S
    BY DEF Filled
  <1>3. ASSUME NEW n \in 1..N, NEW v \in S
        PROVE  step[<<n, v>>] \in S
    <2>1. <<n, v>> \in (1..N) \X S
      OBVIOUS
    <2>2. n - 1 \in Used(x) /\ n - 1 \in 0..(l - 1) /\ n - 1 <= MaxEntries
      BY <1>1, MapAssumption DEF Used, Filled
    <2>3. Link(v, n - 1) \in S
      <3>1. v \in Table(c, l) /\ \A j \in Used(x) : v.entries[j] \in EntryRecord
        OBVIOUS
      <3>2. Used(x) \subseteq 0..(l - 1)
        BY <1>1 DEF Used, Filled
      <3>3. Link(v, n - 1) \in Table(c, l) /\ \A j \in Used(x) : Link(v, n - 1).entries[j] \in EntryRecord
        <4> HIDE DEF S, step, N
        <4> QED
          BY <2>2, <3>1, <3>2, LinkStays
      <3> QED
        BY <3>3
    <2>4. step[<<n, v>>] = IF IsLive(x, n - 1) THEN Link(v, n - 1) ELSE v
      BY <2>1
    <2> QED
      BY <2>3, <2>4
  <1>4. PICK f \in [0..N -> S] : f[0] = x /\ \A n \in 1..N : f[n] = step[<<n, f[n - 1]>>]
    <2>1. StaysIn(S, N, step)
      <3> HIDE DEF step, S, N
      <3> QED
        BY <1>3 DEF StaysIn
    <2>2. \E f : Follows(f, S, N, x, step)
      <3> HIDE DEF step, S, N
      <3> QED
        BY <1>1, <1>2, <2>1, Recursion
    <2> HIDE DEF step, S, N
    <2> QED
      BY <2>2 DEF Follows
  <1>5. Is(f)
    <2>1. ASSUME NEW n \in 0..N, n # 0
          PROVE  f[n] = IF IsLive(x, n - 1) THEN Link(f[n - 1], n - 1) ELSE f[n - 1]
      <3>1. n \in 1..N /\ n - 1 \in 0..N
        BY <1>1, <2>1
      <3>2. <<n, f[n - 1]>> \in (1..N) \X S
        BY <3>1
      <3> QED
        BY <1>4, <3>1, <3>2
    <2> HIDE DEF S, step
    <2> QED
      BY <1>4, <2>1
  <1>6. PICK g : Is(g) /\ LinkLive(x) = g[N]
    <2> DEFINE h == CHOOSE g : Is(g)
    <2>1. Is(h)
      BY <1>5
    <2>2. LinkLive(x) = h[N]
      BY DEF LinkLive
    <2> HIDE DEF h, Is
    <2> QED
      BY <2>1, <2>2
  <1>7. 0 \in 0..N /\ \A n \in 1..N : n \in 0..N /\ n # 0
    BY <1>1
  <1>8. /\ g[0] = x
        /\ \A n \in 1..N : g[n] = IF IsLive(x, n - 1) THEN Link(g[n - 1], n - 1) ELSE g[n - 1]
    BY <1>6, <1>7
  <1> QED
    BY <1>6, <1>8
\* After n turns of that loop the live entries before n are linked.
LinkedUpTo(x, v, c, l, n) ==
    /\ v \in Table(c, l)
    /\ Relinked(x, v, l)
    /\ Linked(v, c, {i \in LiveEntries(x) : i < n})

\* One turn.
LEMMA LinkTurn ==
    ASSUME NEW c \in Nat \ {0}, NEW l \in Nat, NEW x \in Table(c, l), Filled(x, l),
           NEW v, NEW i \in Used(x), LinkedUpTo(x, v, c, l, i)
    PROVE  LinkedUpTo(x, IF IsLive(x, i) THEN Link(v, i) ELSE v, c, l, i + 1)
  <1> DEFINE R == {j \in LiveEntries(x) : j < i}
             y == Link(v, i)
             b == Bucket(v, i, c)
  <1>1. x.entryCount \in Nat
    BY DEF Table
  <1>2. i \in 0..(l - 1) /\ i <= MaxEntries /\ i \in Nat
    BY <1>1, MapAssumption DEF Used, Filled
  <1>3. v \in Table(c, l) /\ Relinked(x, v, l) /\ Linked(v, c, R)
    BY DEF LinkedUpTo
  <1>4. \A j \in Used(x) : v.entries[j] \in EntryRecord
    BY <1>1, <1>3, RelinkedSame
  <1>5. CASE ~IsLive(x, i)
    <2>1. {j \in LiveEntries(x) : j < i + 1} = R
      BY <1>1, <1>2, <1>5 DEF LiveEntries, Used
    <2> HIDE DEF R
    <2> QED
      BY <1>3, <1>5, <2>1 DEF LinkedUpTo
  <1>6. CASE IsLive(x, i)
    <2>1. /\ y \in Table(c, l)
          /\ b \in 0..(c - 1)
          /\ y.entries = [v.entries EXCEPT ![i] = [v.entries[i] EXCEPT !.next = v.buckets[b]]]
          /\ y.entries[i] = [v.entries[i] EXCEPT !.next = v.buckets[b]]
          /\ y.entries[i] \in EntryRecord
          /\ y.entryCount = v.entryCount
          /\ y.liveCount = v.liveCount
      <3>1. Links(v, y, i, c, l)
        <4> HIDE DEF R
        <4> QED
          BY <1>2, <1>3, <1>4, LinkShape
      <3> QED
        BY <3>1 DEF Links
    <2>2. R \in SUBSET (0..(i - 1)) /\ \A j \in R : v.entries[j] \in EntryRecord
      BY <1>1, <1>4 DEF LiveEntries, Used
    <2>3. {j \in LiveEntries(x) : j < i + 1} = R \cup {i}
      BY <1>1, <1>2, <1>6 DEF LiveEntries, Used
    <2>4. Linked(y, c, R \cup {i})
      <3> HIDE DEF R
      <3> QED
        BY <1>2, <1>3, <1>4, <2>2, LinkKeeps
    <2>5. v.buckets[b] < i
      <3>1. v.buckets[b] = -1 \/ v.buckets[b] \in R
        BY <1>3, <2>1 DEF Linked
      <3> QED
        BY <1>2, <2>2, <3>1
    <2>6. y.entries[i].next = v.buckets[b]
      BY <1>4, <2>1 DEF EntryRecord
    <2>7. v.entries \in [0..(l - 1) -> EntryRecord \cup {Null}]
      BY <1>3 DEF Table
    <2> HIDE DEF y, b, R
    <2>8. \A j \in 0..(l - 1) : j # i => y.entries[j] = v.entries[j]
      BY <2>1, <2>7
    <2>9. y.entries[i] = [x.entries[i] EXCEPT !.next = y.entries[i].next]
      <3> DEFINE e == x.entries[i]
                 d == v.entries[i]
                 n == v.buckets[b]
      <3>1. d = e \/ d = [e EXCEPT !.next = d.next]
        BY <1>2, <1>3 DEF Relinked
      <3>2. y.entries[i] = [d EXCEPT !.next = n]
        BY <2>1
      <3>3. e \in EntryRecord /\ d \in EntryRecord
        BY <1>4 DEF Filled
      <3> HIDE DEF e, d, n
      <3>4. [d EXCEPT !.next = n] = [e EXCEPT !.next = n]
        BY <3>1, <3>3 DEF EntryRecord
      <3> QED
        BY <2>6, <3>2, <3>4 DEF e, n
    <2>10. Relinked(x, y, l)
      <3>1. ASSUME NEW j \in 0..(l - 1)
            PROVE  \/ y.entries[j] = x.entries[j]
                   \/ /\ j \in Used(x)
                      /\ y.entries[j] \in EntryRecord
                      /\ y.entries[j] = [x.entries[j] EXCEPT !.next = y.entries[j].next]
                      /\ y.entries[j].next < j
        <4>1. CASE j = i
          BY <2>1, <2>5, <2>6, <2>9, <4>1
        <4>2. CASE j # i
          BY <1>3, <2>8, <4>2 DEF Relinked
        <4> QED
          BY <4>1, <4>2
      <3> QED
        BY <1>3, <2>1, <3>1 DEF Relinked
    <2> QED
      BY <1>6, <2>1, <2>3, <2>4, <2>10 DEF LinkedUpTo, y
  <1> QED
    BY <1>5, <1>6

\* The loop links the live entries.
LEMMA LinkLiveSound ==
    ASSUME NEW c \in Nat \ {0}, NEW l \in Nat, NEW x \in Table(c, l), Filled(x, l),
           \A b \in 0..(c - 1) : x.buckets[b] = -1
    PROVE  /\ LinkLive(x) \in Table(c, l)
           /\ Relinked(x, LinkLive(x), l)
           /\ Linked(LinkLive(x), c, LiveEntries(x))
  <1>1. PICK f : /\ f[0] = x
                 /\ \A n \in 1..x.entryCount :
                       f[n] = IF IsLive(x, n - 1) THEN Link(f[n - 1], n - 1) ELSE f[n - 1]
                 /\ LinkLive(x) = f[x.entryCount]
    BY LinkLiveDef
  <1> DEFINE N == x.entryCount
             Good == {n \in 0..N : LinkedUpTo(x, f[n], c, l, n)}
  <1>2. N \in Nat
    BY DEF Table
  <1>3. 0 \in Good
    <2>1. {i \in LiveEntries(x) : i < 0} = {}
      BY <1>2 DEF LiveEntries, Used
    <2>2. Linked(x, c, {})
      BY DEF Linked
    <2>3. Relinked(x, x, l)
      BY DEF Relinked
    <2>4. LinkedUpTo(x, x, c, l, 0)
      BY <2>1, <2>2, <2>3 DEF LinkedUpTo
    <2> QED
      BY <1>1, <1>2, <2>4
  <1>4. ASSUME NEW n \in 0..(N - 1), n \in Good
        PROVE  n + 1 \in Good
    <2>1. /\ n \in Used(x)
          /\ n + 1 \in 1..N
          /\ n + 1 \in 0..N
          /\ (n + 1) - 1 = n
      BY <1>2 DEF Used
    <2>2. f[n + 1] = IF IsLive(x, n) THEN Link(f[n], n) ELSE f[n]
      BY <1>1, <2>1
    <2>3. LinkedUpTo(x, f[n], c, l, n)
      BY <1>4
    <2>4. LinkedUpTo(x, f[n + 1], c, l, n + 1)
      BY <2>1, <2>2, <2>3, LinkTurn
    <2> QED
      BY <2>1, <2>4
  <1>5. LinkedUpTo(x, f[N], c, l, N)
    <2>1. \A n \in 0..(N - 1) : n \in Good => n + 1 \in Good
      BY <1>4
    <2>2. \A n \in 0..N : n \in Good
      <3> HIDE DEF Good, N
      <3> QED
        BY <1>2, <1>3, <2>1, UpTo
    <2> QED
      BY <1>2, <2>2
  <1>6. {i \in LiveEntries(x) : i < N} = LiveEntries(x)
    BY <1>2 DEF LiveEntries, Used
  <1> QED
    BY <1>1, <1>5, <1>6 DEF LinkedUpTo
-----------------------------------------------------------------------------
(***************************************************************************)
(* The table as a whole.                                                   *)
(***************************************************************************)

\* The entries of R are linked, all live ones among them, and are counted.
Chained(x, c, l, R) ==
    /\ x \in Table(c, l)
    /\ Filled(x, l)
    /\ R \in SUBSET Used(x)
    /\ LiveEntries(x) \subseteq R
    /\ Linked(x, c, R)
    /\ \A i \in Used(x) : x.entries[i].next < i
    /\ x.liveCount = Cardinality(LiveEntries(x))

\* The table is sound.
SoundTable(x) == \E c, l \in Nat \ {0} : \E R : Chained(x, c, l, R)

\* y shows entry i as x does.
ShowsSame(x, y, i) ==
    /\ y.entries[i].key = x.entries[i].key
    /\ y.entries[i].value = x.entries[i].value
    /\ y.entries[i].tombstone = x.entries[i].tombstone

\* y has one entry more than x.
Extends(x, y, k, v) ==
    LET n == x.entryCount
    IN  /\ y.entryCount = n + 1
        /\ \A i \in Used(x) : ShowsSame(x, y, i)
        /\ y.entries[n].key = k
        /\ y.entries[n].value = v
        /\ ~y.entries[n].tombstone

\* The live entries are finitely many.
LEMMA LiveFinite ==
    ASSUME NEW x, x.entryCount \in Nat
    PROVE  /\ IsFiniteSet(LiveEntries(x))
           /\ Cardinality(LiveEntries(x)) \in Nat
           /\ Cardinality(LiveEntries(x)) <= x.entryCount
  <1>1. IsFiniteSet(Used(x)) /\ Cardinality(Used(x)) = x.entryCount
    <2>1. 0 \in Int /\ x.entryCount - 1 \in Int
      OBVIOUS
    <2>2. /\ IsFiniteSet(0..(x.entryCount - 1))
          /\ Cardinality(0..(x.entryCount - 1)) =
                 IF 0 > x.entryCount - 1 THEN 0 ELSE (x.entryCount - 1) - 0 + 1
      BY <2>1, FS_Interval
    <2> QED
      BY <2>2 DEF Used
  <1>2. LiveEntries(x) \in SUBSET Used(x)
    BY DEF LiveEntries
  <1>3. IsFiniteSet(LiveEntries(x)) /\ Cardinality(LiveEntries(x)) <= Cardinality(Used(x))
    BY <1>1, <1>2, FS_Subset
  <1> QED
    BY <1>1, <1>3, FS_CardinalityType

\* Growing the vector makes room and leaves the entries.
LEMMA GrowShape ==
    ASSUME NEW c \in Nat \ {0}, NEW l \in Nat \ {0}, NEW x \in Table(c, l), Filled(x, l)
    PROVE  \E k \in Nat \ {0} :
              /\ x.entryCount < k
              /\ l <= k
              /\ GrowEntries(x) \in Table(c, k)
              /\ GrowEntries(x).buckets = x.buckets
              /\ GrowEntries(x).entryCount = x.entryCount
              /\ GrowEntries(x).liveCount = x.liveCount
              /\ \A i \in 0..(l - 1) : GrowEntries(x).entries[i] = x.entries[i]
  <1>1. /\ x.entries \in [0..(l - 1) -> EntryRecord \cup {Null}]
        /\ x.entryCount \in Nat
        /\ x.entryCount <= l
    BY DEF Table, Filled
  <1>2. Cardinality(DOMAIN x.entries) = l
    <2>1. Cardinality(0..(l - 1)) = l
      BY FS_Interval
    <2> QED
      BY <1>1, <2>1
  <1>3. CASE x.entryCount < l
    <2>1. GrowEntries(x) = x
      BY <1>2, <1>3 DEF GrowEntries
    <2> QED
      BY <1>3, <2>1
  <1>4. CASE ~(x.entryCount < l)
    <2> DEFINE w == [i \in 0..(2 * l - 1) |-> IF i < l THEN x.entries[i] ELSE Null]
    <2>1. GrowEntries(x) = [x EXCEPT !.entries = w]
      BY <1>2, <1>4 DEF GrowEntries
    <2>2. w \in [0..(2 * l - 1) -> EntryRecord \cup {Null}]
      BY <1>1
    <2>3. \A i \in 0..(l - 1) : w[i] = x.entries[i]
      OBVIOUS
    <2> HIDE DEF w
    <2>4. [x EXCEPT !.entries = w] \in Table(c, 2 * l)
      BY <2>2 DEF Table
    <2>5. /\ [x EXCEPT !.entries = w].entries = w
          /\ [x EXCEPT !.entries = w].buckets = x.buckets
          /\ [x EXCEPT !.entries = w].entryCount = x.entryCount
          /\ [x EXCEPT !.entries = w].liveCount = x.liveCount
      BY DEF Table
    <2>6. 2 * l \in Nat \ {0} /\ x.entryCount < 2 * l /\ l <= 2 * l
      BY <1>1
    <2> QED
      BY <2>1, <2>3, <2>4, <2>5, <2>6
  <1> QED
    BY <1>3, <1>4

\* Rehashing keeps the table sound.
LEMMA RehashSound ==
    ASSUME NEW c \in Nat \ {0}, NEW l \in Nat \ {0}, NEW x, NEW R, Chained(x, c, l, R)
    PROVE  /\ SoundTable(Rehash(x))
           /\ Rehash(x).entryCount = x.entryCount
           /\ \A i \in Used(x) : ShowsSame(x, Rehash(x), i)
  <1>1. CASE x.liveCount * 4 <= Cap(x) * 3
    BY <1>1 DEF Rehash, SoundTable, ShowsSame
  <1>2. CASE ~(x.liveCount * 4 <= Cap(x) * 3)
    <2> DEFINE w == [b \in 0..(2 * c - 1) |-> -1]
               e == [x EXCEPT !.buckets = w]
               y == LinkLive(e)
    <2>1. x \in Table(c, l) /\ Filled(x, l) /\ x.entryCount \in Nat
      BY DEF Chained, Table
    <2>2. Rehash(x) = y
      BY <1>2, <2>1, CapIs DEF Rehash
    <2>3. w \in [0..(2 * c - 1) -> Slot] /\ 2 * c \in Nat \ {0}
      BY MapAssumption DEF Slot
    <2>4. \A b \in 0..(2 * c - 1) : w[b] = -1
      OBVIOUS
    <2> HIDE DEF w
    <2>5. /\ e \in Table(2 * c, l)
          /\ e.buckets = w
          /\ e.entries = x.entries
          /\ e.entryCount = x.entryCount
          /\ e.liveCount = x.liveCount
      BY <2>1, <2>3 DEF Table
    <2> HIDE DEF e
    <2>6. /\ Filled(e, l)
          /\ LiveEntries(e) = LiveEntries(x)
          /\ Used(e) = Used(x)
      BY <2>1, <2>5 DEF Filled, Used, IsLive, LiveEntries
    <2>7. y \in Table(2 * c, l) /\ Relinked(e, y, l) /\ Linked(y, 2 * c, LiveEntries(e))
      <3> DEFINE d == 2 * c
      <3>1. d \in Nat \ {0} /\ e \in Table(d, l) /\ \A b \in 0..(d - 1) : e.buckets[b] = -1
        BY <2>3, <2>4, <2>5
      <3> HIDE DEF d, y
      <3>2. y \in Table(d, l) /\ Relinked(e, y, l) /\ Linked(y, d, LiveEntries(e))
        BY <2>6, <3>1, LinkLiveSound DEF y
      <3> QED
        BY <3>2 DEF d
    <2> HIDE DEF y
    <2>8. /\ y.entryCount = x.entryCount
          /\ y.liveCount = x.liveCount
          /\ Used(y) = Used(x)
      BY <2>5, <2>7 DEF Relinked, Used
    <2>9. \A i \in Used(x) : /\ y.entries[i] \in EntryRecord
                             /\ y.entries[i].key = x.entries[i].key
                             /\ y.entries[i].value = x.entries[i].value
                             /\ y.entries[i].hash = x.entries[i].hash
                             /\ y.entries[i].tombstone = x.entries[i].tombstone
                             /\ y.entries[i].next = x.entries[i].next \/ y.entries[i].next < i
      BY <2>1, <2>5, <2>6, <2>7, RelinkedSame
    <2>10. LiveEntries(y) = LiveEntries(x)
      BY <2>8, <2>9 DEF LiveEntries, IsLive
    <2>11. Filled(y, l)
      BY <2>1, <2>8, <2>9 DEF Filled, IsLive
    <2>12. \A i \in Used(y) : y.entries[i].next < i
      BY <2>8, <2>9 DEF Chained
    <2>13. Chained(y, 2 * c, l, LiveEntries(y))
      <3>1. LiveEntries(y) \in SUBSET Used(y)
        BY DEF LiveEntries
      <3> QED
        BY <2>6, <2>7, <2>8, <2>10, <2>11, <2>12, <3>1 DEF Chained
    <2> QED
      BY <2>2, <2>3, <2>8, <2>9, <2>13 DEF SoundTable, ShowsSame
  <1> QED
    BY <1>1, <1>2

\* The table before the rehash that ends __map_set.
Inserted(x, k, v) ==
    LET e == [key |-> k, value |-> v, next |-> -1, hash |-> Hash(k), tombstone |-> FALSE]
        n == x.entryCount
    IN  [Link([GrowEntries(x) EXCEPT !.entries[n] = e], n) EXCEPT !.entryCount = @ + 1, !.liveCount = @ + 1]

\* The new entry is linked and counted.
LEMMA InsertSound ==
    ASSUME NEW c \in Nat \ {0}, NEW l \in Nat \ {0}, NEW x, NEW R, Chained(x, c, l, R),
           x.entryCount < MaxEntries, NEW k \in Key, NEW v \in Value
    PROVE  /\ \E d \in Nat \ {0} : Chained(Inserted(x, k, v), c, d, R \cup {x.entryCount})
           /\ Extends(x, Inserted(x, k, v), k, v)
  <1> DEFINE g == GrowEntries(x)
             n == x.entryCount
             e == [key |-> k, value |-> v, next |-> -1, hash |-> Hash(k), tombstone |-> FALSE]
             w == [g.entries EXCEPT ![n] = e]
             a == [g EXCEPT !.entries = w]
             h == Link(a, n)
             y == [h EXCEPT !.entryCount = h.entryCount + 1, !.liveCount = h.liveCount + 1]
  <1>1. /\ x \in Table(c, l)
        /\ Filled(x, l)
        /\ R \in SUBSET Used(x)
        /\ LiveEntries(x) \subseteq R
        /\ Linked(x, c, R)
        /\ \A i \in Used(x) : x.entries[i].next < i
        /\ x.liveCount = Cardinality(LiveEntries(x))
        /\ n \in Nat /\ n <= l
    BY DEF Chained, Table, Filled
  <1>2. PICK d \in Nat \ {0} :
              /\ n < d
              /\ l <= d
              /\ g \in Table(c, d)
              /\ g.buckets = x.buckets
              /\ g.entryCount = n
              /\ g.liveCount = x.liveCount
              /\ \A i \in 0..(l - 1) : g.entries[i] = x.entries[i]
    BY <1>1, GrowShape
  <1>3. Inserted(x, k, v) = y
    <2>1. a = [g EXCEPT !.entries[n] = e]
      OBVIOUS
    <2> HIDE DEF a, g
    <2> QED
      BY <2>1 DEF Inserted, g
  <1>4. e \in EntryRecord /\ e.next = -1 /\ e.key = k /\ e.value = v /\ e.hash = Hash(k) /\ e.tombstone = FALSE
    BY MapAssumption DEF EntryRecord, Slot
  <1>5. g.entries \in [0..(d - 1) -> EntryRecord \cup {Null}] /\ n \in 0..(d - 1)
    BY <1>1, <1>2 DEF Table
  <1> HIDE DEF e, g
  <1>6. /\ w \in [0..(d - 1) -> EntryRecord \cup {Null}]
        /\ w[n] = e
        /\ \A i \in Used(x) : w[i] = x.entries[i]
    BY <1>1, <1>2, <1>4, <1>5 DEF Used
  <1> HIDE DEF w
  <1>7. /\ a \in Table(c, d)
        /\ a.entries = w
        /\ a.buckets = x.buckets
        /\ a.entryCount = n
        /\ a.liveCount = x.liveCount
    BY <1>2, <1>6 DEF Table
  <1> HIDE DEF a
  <1>8. \A i \in Used(x) : a.entries[i] = x.entries[i] /\ a.entries[i] \in EntryRecord /\ i < n /\ i >= 0 /\ i \in Int
    BY <1>1, <1>6, <1>7 DEF Used, Filled
  <1>9. Linked(a, c, R)
    <2>1. \A i \in R : a.entries[i] = x.entries[i]
      BY <1>1, <1>8
    <2>2. \A i \in R : Bucket(a, i, c) = Bucket(x, i, c)
      BY <2>1 DEF Bucket
    <2> QED
      BY <1>1, <1>7, <2>1, <2>2 DEF Linked
  <1>10. Links(a, h, n, c, d)
    <2>1. a.entries[n] \in EntryRecord /\ n <= MaxEntries
      BY <1>1, <1>4, <1>6, <1>7, MapAssumption
    <2> HIDE DEF h, n
    <2> QED
      BY <1>5, <1>7, <2>1, LinkShape DEF h
  <1>11. Linked(h, c, R \cup {n})
    <2>1. a.entries[n] \in EntryRecord /\ n <= MaxEntries
      BY <1>1, <1>4, <1>6, <1>7, MapAssumption
    <2>2. R \in SUBSET (0..(n - 1)) /\ \A j \in R : a.entries[j] \in EntryRecord
      BY <1>1, <1>8 DEF Used
    <2> HIDE DEF h, n
    <2> QED
      BY <1>5, <1>7, <1>9, <2>1, <2>2, LinkKeeps DEF h
  <1> HIDE DEF h
  <1>12. /\ h \in Table(c, d)
         /\ h.entryCount = n
         /\ h.liveCount = x.liveCount
         /\ h.entries[n] \in EntryRecord
         /\ h.entries[n].key = k
         /\ h.entries[n].value = v
         /\ h.entries[n].hash = Hash(k)
         /\ ~h.entries[n].tombstone
    <2> DEFINE b == Bucket(a, n, c)
    <2>1. h.entries[n] = [e EXCEPT !.next = a.buckets[b]]
      BY <1>6, <1>7, <1>10 DEF Links
    <2> HIDE DEF b
    <2>2. /\ h.entries[n].key = k
          /\ h.entries[n].value = v
          /\ h.entries[n].hash = Hash(k)
          /\ h.entries[n].tombstone = FALSE
      BY <1>4, <2>1 DEF EntryRecord
    <2> QED
      BY <1>7, <1>10, <2>2 DEF Links
  <1>13. \A i \in Used(x) : h.entries[i] = x.entries[i]
    <2>1. a.entries \in [0..(d - 1) -> EntryRecord \cup {Null}]
      BY <1>7 DEF Table
    <2> QED
      BY <1>8, <1>10, <2>1 DEF Links
  <1>14. h.entries[n].next < n
    <2>1. h.entries[n].next = -1 \/ h.entries[n].next < n
      BY <1>11 DEF Linked
    <2> QED
      BY <1>1, <2>1
  <1>15. /\ y \in Table(c, d)
         /\ y.buckets = h.buckets
         /\ y.entries = h.entries
         /\ y.entryCount = n + 1
         /\ y.liveCount = x.liveCount + 1
    <2>1. h \in Table(c, d) /\ h.entryCount + 1 \in Nat /\ h.liveCount + 1 \in Int
      BY <1>1, <1>12 DEF Table
    <2>2. /\ y \in Table(c, d)
          /\ y.buckets = h.buckets
          /\ y.entries = h.entries
          /\ y.entryCount = h.entryCount + 1
          /\ y.liveCount = h.liveCount + 1
      BY <2>1 DEF Table
    <2> HIDE DEF y
    <2> QED
      BY <1>12, <2>2
  <1> HIDE DEF y
  <1>16. Used(y) = Used(x) \cup {n} /\ n \notin Used(x)
    BY <1>1, <1>15 DEF Used
  <1>17. LiveEntries(y) = LiveEntries(x) \cup {n} /\ n \notin LiveEntries(x)
    BY <1>12, <1>13, <1>15, <1>16 DEF LiveEntries, IsLive
  <1>18. y.liveCount = Cardinality(LiveEntries(y))
    <2>1. IsFiniteSet(LiveEntries(x))
      BY <1>1, LiveFinite
    <2>2. Cardinality(LiveEntries(x) \cup {n}) = Cardinality(LiveEntries(x)) + 1
      BY <1>17, <2>1, FS_AddElement
    <2> QED
      BY <1>1, <1>15, <1>17, <2>2
  <1>19. Filled(y, d)
    <2>1. y.entryCount <= d /\ y.entryCount <= MaxEntries
      BY <1>1, <1>2, <1>15, MapAssumption
    <2>2. \A i \in Used(x) : /\ y.entries[i] \in EntryRecord
                             /\ IsLive(y, i) => /\ y.entries[i].key \in Key
                                                /\ y.entries[i].hash = Hash(y.entries[i].key)
      BY <1>1, <1>13, <1>15 DEF Filled, IsLive
    <2> QED
      BY <1>12, <1>15, <1>16, <2>1, <2>2 DEF Filled
  <1>20. Linked(y, c, R \cup {n})
    BY <1>11, <1>15 DEF Linked, Bucket
  <1>21. \A i \in Used(y) : y.entries[i].next < i
    BY <1>1, <1>13, <1>14, <1>15, <1>16
  <1>22. Chained(y, c, d, R \cup {n})
    BY <1>1, <1>15, <1>16, <1>17, <1>18, <1>19, <1>20, <1>21 DEF Chained
  <1>23. Extends(x, y, k, v)
    BY <1>12, <1>13, <1>15 DEF Extends, ShowsSame
  <1> QED
    BY <1>3, <1>22, <1>23

\* A set with a new key keeps the table sound, and extends what it shows.
LEMMA AppendSound ==
    ASSUME NEW x, SoundTable(x), x.entryCount < MaxEntries, NEW k \in Key, NEW v \in Value
    PROVE  SoundTable(Appended(x, k, v)) /\ Extends(x, Appended(x, k, v), k, v)
  <1> DEFINE y == Inserted(x, k, v)
  <1>1. Appended(x, k, v) = Rehash(y)
    BY DEF Appended, Inserted
  <1>0. PICK c, l \in Nat \ {0} : \E R : Chained(x, c, l, R)
    BY DEF SoundTable
  <1>2. PICK R : Chained(x, c, l, R)
    BY <1>0
  <1>3. PICK d \in Nat \ {0} : Chained(y, c, d, R \cup {x.entryCount})
    BY <1>2, InsertSound
  <1>4. Extends(x, y, k, v) /\ x.entryCount \in Nat
    BY <1>2, InsertSound DEF Chained, Table
  <1> HIDE DEF y
  <1>5. /\ SoundTable(Rehash(y))
        /\ Rehash(y).entryCount = y.entryCount
        /\ \A i \in Used(y) : ShowsSame(y, Rehash(y), i)
    BY <1>3, RehashSound
  <1>6. Used(x) \subseteq Used(y) /\ x.entryCount \in Used(y)
    BY <1>4 DEF Extends, Used
  <1>7. Extends(x, Rehash(y), k, v)
    BY <1>4, <1>5, <1>6 DEF Extends, ShowsSame
  <1> QED
    BY <1>1, <1>5, <1>7

\* The empty table.
LEMMA NewSound == SoundTable(NewMap) /\ NewMap.entryCount = 0
  <1> DEFINE x == NewMap
  <1>1. /\ x.buckets = [b \in 0..(InitCap - 1) |-> -1]
        /\ x.entries = [i \in 0..(InitCap - 1) |-> Null]
        /\ x.entryCount = 0
        /\ x.liveCount = 0
    BY DEF NewMap
  <1>2. InitCap \in Nat \ {0} /\ MaxEntries \in Nat
    BY MapAssumption
  <1>3. x \in Table(InitCap, InitCap)
    <2>1. /\ [b \in 0..(InitCap - 1) |-> -1] \in [0..(InitCap - 1) -> Slot]
          /\ [i \in 0..(InitCap - 1) |-> Null] \in [0..(InitCap - 1) -> EntryRecord \cup {Null}]
      BY <1>2 DEF Slot
    <2> QED
      BY <2>1 DEF NewMap, Table
  <1>4. Used(x) = {} /\ LiveEntries(x) = {}
    BY <1>1 DEF Used, LiveEntries
  <1>5. Filled(x, InitCap)
    BY <1>1, <1>2, <1>4 DEF Filled
  <1>6. Linked(x, InitCap, {})
    BY <1>1, <1>2 DEF Linked
  <1>7. Chained(x, InitCap, InitCap, {})
    BY <1>1, <1>3, <1>4, <1>5, <1>6, FS_EmptySet DEF Chained
  <1> QED
    BY <1>1, <1>2, <1>7 DEF SoundTable
-----------------------------------------------------------------------------
(***************************************************************************)
(* Looking up a key.                                                       *)
(***************************************************************************)

\* What the steps of the walk give.
LEMMA ChainDef ==
    ASSUME NEW c \in Nat \ {0}, NEW x, x.entryCount \in Nat, NEW R \in SUBSET Used(x), Linked(x, c, R),
           NEW b \in 0..(c - 1)
    PROVE  /\ Chain(x, b)[0] = x.buckets[b]
           /\ \A n \in 1..x.entryCount :
                 Chain(x, b)[n] = IF Chain(x, b)[n - 1] < 0 THEN -1
                                  ELSE x.entries[Chain(x, b)[n - 1]].next
  <1> DEFINE N == x.entryCount
             S == R \cup {-1}
             step == [p \in (1..N) \X S |-> IF p[2] < 0 THEN -1 ELSE x.entries[p[2]].next]
             Is(f) == f = [n \in 0..N |-> IF n = 0 THEN x.buckets[b]
                                          ELSE IF f[n - 1] < 0 THEN -1 ELSE x.entries[f[n - 1]].next]
  <1>1. N \in Nat /\ \A i \in R : i \in Nat
    BY DEF Used
  <1>2. x.buckets[b] \in S
    BY DEF Linked
  <1>3. ASSUME NEW n \in 1..N, NEW v \in S
        PROVE  step[<<n, v>>] \in S
    <2>1. step[<<n, v>>] = IF v < 0 THEN -1 ELSE x.entries[v].next
      <3>1. <<n, v>> \in (1..N) \X S
        OBVIOUS
      <3> HIDE DEF S
      <3> QED
        BY <3>1
    <2>2. v >= 0 => v \in R
      OBVIOUS
    <2>3. v \in R => x.entries[v].next \in S
      BY DEF Linked
    <2>4. v = -1 \/ v \in Nat
      BY <1>1
    <2> QED
      BY <2>1, <2>2, <2>3, <2>4
  <1>4. PICK f : f \in [0..N -> S] /\ f[0] = x.buckets[b] /\ \A n \in 1..N : f[n] = step[<<n, f[n - 1]>>]
    <2>1. StaysIn(S, N, step)
      <3> HIDE DEF step, S, N
      <3> QED
        BY <1>3 DEF StaysIn
    <2>2. \E f : Follows(f, S, N, x.buckets[b], step)
      <3> HIDE DEF step, S, N
      <3> QED
        BY <1>1, <1>2, <2>1, Recursion
    <2> HIDE DEF step, S, N
    <2> QED
      BY <2>2 DEF Follows
  <1>5. Is(f)
    <2>1. ASSUME NEW n \in 0..N, n # 0
          PROVE  f[n] = IF f[n - 1] < 0 THEN -1 ELSE x.entries[f[n - 1]].next
      <3>1. n \in 1..N /\ n - 1 \in 0..N
        BY <1>1, <2>1
      <3>2. <<n, f[n - 1]>> \in (1..N) \X S
        <4> HIDE DEF S
        <4> QED
          BY <1>4, <3>1
      <3> HIDE DEF S
      <3> QED
        BY <1>4, <3>1, <3>2
    <2> HIDE DEF S, step
    <2> QED
      BY <1>4, <2>1
  <1>6. Is(Chain(x, b))
    <2> DEFINE h == CHOOSE g : Is(g)
    <2>1. Is(h)
      BY <1>5
    <2>2. Chain(x, b) = h
      BY DEF Chain
    <2> HIDE DEF h, Is
    <2> QED
      BY <2>1, <2>2, SMTT(30)
  <1>7. 0 \in 0..N /\ \A n \in 1..N : n \in 0..N /\ n # 0
    BY <1>1
  <1> DEFINE g == Chain(x, b)
  <1> HIDE DEF g
  <1>8. /\ g[0] = x.buckets[b]
        /\ \A n \in 1..N : g[n] = IF g[n - 1] < 0 THEN -1 ELSE x.entries[g[n - 1]].next
    <2>1. Is(g)
      BY <1>6, SMTT(30) DEF g
    <2>2. g[0] = x.buckets[b]
      BY <1>7, <2>1
    <2>3. ASSUME NEW n \in 1..N
          PROVE  g[n] = IF g[n - 1] < 0 THEN -1 ELSE x.entries[g[n - 1]].next
      <3>1. n \in 0..N /\ n # 0
        BY <1>7
      <3> QED
        BY <2>1, <3>1
    <2> QED
      BY <2>2, <2>3, SMTT(30)
  <1> QED
    BY <1>8 DEF g

\* A walk meets entries of its bucket, and has ended after entryCount steps.
LEMMA ChainStays ==
    ASSUME NEW c \in Nat \ {0}, NEW x, x.entryCount \in Nat, NEW R \in SUBSET Used(x), Linked(x, c, R),
           NEW b \in 0..(c - 1), NEW n \in 0..x.entryCount
    PROVE  \/ Chain(x, b)[n] = -1
           \/ /\ Chain(x, b)[n] \in R
              /\ Bucket(x, Chain(x, b)[n], c) = b
              /\ Chain(x, b)[n] <= x.entryCount - 1 - n
  <1> DEFINE N == x.entryCount
             at == Chain(x, b)
             P(j) == at[j] = -1 \/ (at[j] \in R /\ Bucket(x, at[j], c) = b /\ at[j] <= N - 1 - j)
             Good == {j \in 0..N : P(j)}
  <1>1. N \in Nat /\ \A i \in R : i \in Nat /\ i <= N - 1
    BY DEF Used
  <1>2. /\ at[0] = x.buckets[b]
        /\ \A j \in 1..N : at[j] = IF at[j - 1] < 0 THEN -1 ELSE x.entries[at[j - 1]].next
    BY ChainDef
  <1> HIDE DEF at
  <1>3. 0 \in Good
    BY <1>1, <1>2 DEF Linked
  <1>4. ASSUME NEW j \in 0..(N - 1), j \in Good
        PROVE  j + 1 \in Good
    <2>1. j + 1 \in 1..N /\ (j + 1) - 1 = j /\ j + 1 \in 0..N
      BY <1>1
    <2>2. at[j + 1] = IF at[j] < 0 THEN -1 ELSE x.entries[at[j]].next
      BY <1>2, <2>1
    <2>3. CASE at[j] = -1
      BY <2>1, <2>2, <2>3
    <2>4. CASE at[j] \in R /\ Bucket(x, at[j], c) = b /\ at[j] <= N - 1 - j
      <3> DEFINE i == at[j]
      <3>1. i \in R /\ i \in Nat /\ Bucket(x, i, c) = b /\ i <= N - 1 - j /\ at[j + 1] = x.entries[i].next
        BY <1>1, <2>2, <2>4
      <3> HIDE DEF i
      <3>2. \/ x.entries[i].next = -1
            \/ /\ x.entries[i].next \in R
               /\ x.entries[i].next < i
               /\ Bucket(x, x.entries[i].next, c) = b
        BY <3>1 DEF Linked
      <3>3. ASSUME NEW q \in R, q < i
            PROVE  q <= N - 1 - (j + 1)
        <4>1. q \in Nat
          BY <1>1
        <4>2. i \in Nat /\ i <= N - 1 - j
          BY <3>1
        <4>3. N \in Nat
          BY <1>1
        <4> HIDE DEF N
        <4> QED
          BY <3>3, <4>1, <4>2, <4>3
      <3> QED
        BY <2>1, <3>1, <3>2, <3>3
    <2> QED
      BY <1>4, <2>3, <2>4
  <1>5. n \in Good
    <2>1. \A j \in 0..(N - 1) : j \in Good => j + 1 \in Good
      BY <1>4
    <2> HIDE DEF Good
    <2>2. \A j \in 0..N : j \in Good
      BY <1>1, <1>3, <2>1, UpTo
    <2> QED
      BY <2>2
  <1> QED
    BY <1>5 DEF at

\* A walk meets every linked entry of its bucket.
LEMMA ChainReaches ==
    ASSUME NEW c \in Nat \ {0}, NEW x, x.entryCount \in Nat, NEW R \in SUBSET Used(x), Linked(x, c, R),
           NEW i \in R, NEW b \in 0..(c - 1), Bucket(x, i, c) = b
    PROVE  \E n \in 0..x.entryCount : Chain(x, b)[n] = i
  <1> DEFINE N == x.entryCount
             at == Chain(x, b)
             Past == {n \in 0..N : at[n] <= i}
  <1>1. N \in Nat /\ \A j \in R : j \in Nat
    BY DEF Used
  <1>2. /\ at[0] = x.buckets[b]
        /\ \A j \in 1..N : at[j] = IF at[j - 1] < 0 THEN -1 ELSE x.entries[at[j - 1]].next
    BY ChainDef
  <1>3. \A n \in 0..N : at[n] = -1 \/ (at[n] \in R /\ Bucket(x, at[n], c) = b /\ at[n] <= N - 1 - n)
    BY ChainStays
  <1> HIDE DEF at
  <1>4. N \in Past
    <2>1. at[N] = -1 \/ (at[N] \in R /\ at[N] <= -1)
      BY <1>1, <1>3
    <2> QED
      BY <1>1, <2>1
  <1>5. PICK n \in Past : \A j \in Past : n <= j
    <2>1. Past \subseteq Nat /\ Past # {}
      BY <1>1, <1>4
    <2> HIDE DEF Past
    <2> QED
      BY <2>1, LeastNat
  <1>6. ASSUME n = 0
        PROVE  at[n] >= i
    BY <1>2, <1>6 DEF Linked
  <1>7. ASSUME n # 0
        PROVE  at[n] >= i
    <2>1. n \in 1..N /\ n - 1 \in 0..N /\ n - 1 \notin Past
      BY <1>1, <1>5, <1>7
    <2>2. at[n - 1] \in R /\ at[n - 1] > i /\ Bucket(x, at[n - 1], c) = b
      BY <1>1, <1>3, <2>1
    <2>3. at[n] = x.entries[at[n - 1]].next
      BY <1>1, <1>2, <2>1, <2>2
    <2>4. at[n] >= i
      <3> DEFINE j == at[n - 1]
      <3>1. j \in R /\ i < j /\ Bucket(x, j, c) = Bucket(x, i, c)
        BY <2>2
      <3> HIDE DEF j
      <3>2. x.entries[j].next >= i
        BY <3>1 DEF Linked
      <3> QED
        BY <2>3, <3>2 DEF j
    <2> QED
      BY <2>4
  <1>8. n \in 0..N /\ at[n] <= i /\ at[n] >= i
    BY <1>5, <1>6, <1>7
  <1>9. at[n] \in Int /\ i \in Int
    BY <1>1, <1>3, <1>8
  <1>10. at[n] = i
    BY <1>8, <1>9
  <1> QED
    BY <1>8, <1>10 DEF at

\* What a lookup of k may answer: a live entry with the key, or none if no live
\* entry of the key's hash has it.
Answers(x, k, i) ==
    \/ /\ i \in LiveEntries(x)
       /\ SameValueZero(x.entries[i].key, k)
    \/ /\ i = -1
       /\ \A j \in LiveEntries(x) :
             SameValueZero(x.entries[j].key, k) => Hash(x.entries[j].key) # Hash(k)

\* __map_lookup_idx finds a live entry with the key in the bucket of its hash.
LEMMA LookupSound ==
    ASSUME NEW x, SoundTable(x), NEW k \in Key
    PROVE  Answers(x, k, LookupIdx(x, k))
  <1>0. PICK c, l \in Nat \ {0} : \E R : Chained(x, c, l, R)
    BY DEF SoundTable
  <1>1. PICK R : Chained(x, c, l, R)
    BY <1>0
  <1> DEFINE N == x.entryCount
             b == Hash(k) % Cap(x)
             at == Chain(x, b)
             hits == {n \in 0..N : at[n] >= 0 /\ IsLive(x, at[n]) /\ SameValueZero(x.entries[at[n]].key, k)}
             i == LookupIdx(x, k)
  <1>2. /\ N \in Nat
        /\ R \in SUBSET Used(x)
        /\ LiveEntries(x) \subseteq R
        /\ Linked(x, c, R)
        /\ \A j \in LiveEntries(x) : x.entries[j].hash = Hash(x.entries[j].key)
    BY <1>1 DEF Chained, Table, Filled, LiveEntries
  <1>3. b = Hash(k) % c /\ b \in 0..(c - 1)
    <2>1. Cap(x) = c
      BY <1>1, CapIs DEF Chained
    <2> QED
      BY <2>1, BucketRange
  <1>4. i = IF hits = {} THEN -1 ELSE at[Min(hits)]
    BY DEF LookupIdx
  <1> HIDE DEF b, i
  <1>5. ASSUME NEW n \in 0..N
        PROVE  at[n] = -1 \/ (at[n] \in R /\ Bucket(x, at[n], c) = b)
    <2> HIDE DEF N
    <2>1. n \in 0..x.entryCount /\ x.entryCount \in Nat
      BY <1>2 DEF N
    <2> QED
      BY <1>2, <1>3, <2>1, ChainStays
  <1>6. \A j \in R : Bucket(x, j, c) = b => \E n \in 0..N : at[n] = j
    BY <1>2, <1>3, ChainReaches
  <1> HIDE DEF at
  <1>7. \A j \in R : j \in Nat /\ j \in Used(x)
    BY <1>2 DEF Used
  <1>8. CASE hits = {}
    <2>1. i = -1
      BY <1>4, <1>8
    <2>2. ASSUME NEW j \in LiveEntries(x), SameValueZero(x.entries[j].key, k),
                 Hash(x.entries[j].key) = Hash(k)
          PROVE  FALSE
      <3>1. j \in R /\ x.entries[j].hash = Hash(k)
        BY <1>2, <2>2
      <3>2. Bucket(x, j, c) = b
        BY <1>3, <3>1 DEF Bucket
      <3>3. PICK n \in 0..N : at[n] = j
        BY <1>6, <3>1, <3>2
      <3>4. IsLive(x, j)
        BY DEF LiveEntries
      <3> QED
        BY <1>7, <1>8, <2>2, <3>1, <3>3, <3>4
    <2> QED
      BY <2>1, <2>2 DEF Answers, i
  <1>9. CASE hits # {}
    <2>1. Min(hits) \in hits
      <3>1. hits \subseteq Nat
        BY <1>2
      <3> HIDE DEF hits
      <3>2. \E n \in hits : \A j \in hits : n <= j
        BY <1>9, <3>1, LeastNat
      <3> QED
        BY <3>2 DEF Min
    <2>2. i = at[Min(hits)]
      BY <1>4, <1>9
    <2> DEFINE n == Min(hits)
    <2>3. n \in 0..N /\ at[n] >= 0 /\ IsLive(x, at[n]) /\ SameValueZero(x.entries[at[n]].key, k)
      BY <2>1
    <2> HIDE DEF n
    <2>4. i = at[n]
      BY <2>2 DEF n
    <2>5. at[n] \in R
      BY <1>5, <2>3
    <2>6. at[n] \in LiveEntries(x)
      BY <1>7, <2>3, <2>5 DEF LiveEntries
    <2> QED
      BY <2>3, <2>4, <2>6 DEF Answers, i
  <1> QED
    BY <1>8, <1>9
-----------------------------------------------------------------------------
(***************************************************************************)
(* The other changes.                                                      *)
(***************************************************************************)

\* y is x with entry i changed, but not in its links.
Changes(x, y, i) ==
    /\ y.buckets = x.buckets
    /\ y.entryCount = x.entryCount
    /\ \A j \in Used(x) \ {i} : y.entries[j] = x.entries[j]
    /\ y.entries[i].hash = x.entries[i].hash
    /\ y.entries[i].next = x.entries[i].next

\* A value is replaced.
LEMMA WriteSound ==
    ASSUME NEW x, SoundTable(x), NEW i \in LiveEntries(x), NEW v \in Value
    PROVE  LET y == [x EXCEPT !.entries[i].value = v]
           IN  /\ SoundTable(y)
               /\ Changes(x, y, i)
               /\ y.entries[i].key = x.entries[i].key
               /\ y.entries[i].value = v
               /\ ~y.entries[i].tombstone
  <1>0. PICK c, l \in Nat \ {0} : \E R : Chained(x, c, l, R)
    BY DEF SoundTable
  <1>1. PICK R : Chained(x, c, l, R)
    BY <1>0
  <1> DEFINE d == x.entries[i]
             e == [d EXCEPT !.value = v]
             w == [x.entries EXCEPT ![i] = e]
             y == [x EXCEPT !.entries = w]
  <1>2. /\ x \in Table(c, l)
        /\ x.entries \in [0..(l - 1) -> EntryRecord \cup {Null}]
        /\ Used(x) \subseteq 0..(l - 1)
        /\ i \in Used(x)
        /\ d \in EntryRecord
        /\ ~d.tombstone
    BY <1>1 DEF Chained, Table, Filled, Used, LiveEntries, IsLive
  <1>3. [x EXCEPT !.entries[i].value = v] = y
    OBVIOUS
  <1> HIDE DEF d
  <1>4. /\ e \in EntryRecord
        /\ e.key = d.key
        /\ e.value = v
        /\ e.next = d.next
        /\ e.hash = d.hash
        /\ e.tombstone = d.tombstone
    BY <1>2 DEF EntryRecord
  <1> HIDE DEF e
  <1>5. /\ w \in [0..(l - 1) -> EntryRecord \cup {Null}]
        /\ w[i] = e
        /\ \A j \in Used(x) : j # i => w[j] = x.entries[j]
    BY <1>2, <1>4
  <1> HIDE DEF w
  <1>6. /\ y \in Table(c, l)
        /\ y.buckets = x.buckets
        /\ y.entries = w
        /\ y.entryCount = x.entryCount
        /\ y.liveCount = x.liveCount
    BY <1>2, <1>5 DEF Table
  <1> HIDE DEF y
  <1>7. Used(y) = Used(x)
    BY <1>6 DEF Used
  <1>8. \A j \in Used(x) : /\ y.entries[j] \in EntryRecord
                           /\ y.entries[j].key = x.entries[j].key
                           /\ y.entries[j].next = x.entries[j].next
                           /\ y.entries[j].hash = x.entries[j].hash
                           /\ y.entries[j].tombstone = x.entries[j].tombstone
    BY <1>1, <1>4, <1>5, <1>6 DEF Chained, Filled, d
  <1>9. LiveEntries(y) = LiveEntries(x)
    BY <1>7, <1>8 DEF LiveEntries, IsLive
  <1>10. Filled(y, l)
    BY <1>1, <1>6, <1>7, <1>8 DEF Chained, Filled, IsLive
  <1>11. Linked(y, c, R)
    <2>1. \A j \in R : j \in Used(x)
      BY <1>1 DEF Chained
    <2>2. \A j \in R : Bucket(y, j, c) = Bucket(x, j, c)
      BY <1>8, <2>1 DEF Bucket
    <2> QED
      BY <1>1, <1>6, <1>8, <2>1, <2>2 DEF Chained, Linked
  <1>12. Chained(y, c, l, R)
    BY <1>1, <1>6, <1>7, <1>8, <1>9, <1>10, <1>11 DEF Chained
  <1>13. Changes(x, y, i)
    BY <1>2, <1>5, <1>6, <1>8 DEF Changes
  <1> QED
    BY <1>2, <1>3, <1>4, <1>5, <1>6, <1>12, <1>13 DEF SoundTable, d

\* An entry becomes a tombstone.
LEMMA RemoveSound ==
    ASSUME NEW x, SoundTable(x), NEW i \in LiveEntries(x)
    PROVE  /\ SoundTable(Removed(x, i))
           /\ Changes(x, Removed(x, i), i)
           /\ Removed(x, i).entries[i].tombstone
  <1>0. PICK c, l \in Nat \ {0} : \E R : Chained(x, c, l, R)
    BY DEF SoundTable
  <1>1. PICK R : Chained(x, c, l, R)
    BY <1>0
  <1> DEFINE d == x.entries[i]
             e == [d EXCEPT !.tombstone = TRUE, !.key = Null, !.value = Null]
             w == [x.entries EXCEPT ![i] = e]
             y == [x EXCEPT !.entries = w, !.liveCount = x.liveCount - 1]
  <1>2. /\ x \in Table(c, l)
        /\ x.entries \in [0..(l - 1) -> EntryRecord \cup {Null}]
        /\ Used(x) \subseteq 0..(l - 1)
        /\ i \in Used(x)
        /\ d \in EntryRecord
        /\ x.liveCount \in Int
        /\ x.entryCount \in Nat
    BY <1>1 DEF Chained, Table, Filled, Used, LiveEntries, IsLive
  <1>3. Removed(x, i) = y
    BY DEF Removed
  <1> HIDE DEF d
  <1>4. /\ e \in EntryRecord
        /\ e.next = d.next
        /\ e.hash = d.hash
        /\ e.tombstone = TRUE
    BY <1>2 DEF EntryRecord
  <1> HIDE DEF e
  <1>5. /\ w \in [0..(l - 1) -> EntryRecord \cup {Null}]
        /\ w[i] = e
        /\ \A j \in Used(x) : j # i => w[j] = x.entries[j]
    BY <1>2, <1>4
  <1> HIDE DEF w
  <1>6. /\ y \in Table(c, l)
        /\ y.buckets = x.buckets
        /\ y.entries = w
        /\ y.entryCount = x.entryCount
        /\ y.liveCount = x.liveCount - 1
    <2> DEFINE n == x.liveCount - 1
    <2>1. n \in Int
      BY <1>2
    <2> HIDE DEF n
    <2>2. y = [x EXCEPT !.entries = w, !.liveCount = n]
      BY DEF n
    <2> QED
      BY <1>2, <1>5, <2>1, <2>2 DEF Table, n
  <1> HIDE DEF y
  <1>7. Used(y) = Used(x)
    BY <1>6 DEF Used
  <1>8. \A j \in Used(x) : /\ y.entries[j] \in EntryRecord
                           /\ y.entries[j].next = x.entries[j].next
                           /\ y.entries[j].hash = x.entries[j].hash
                           /\ j # i => y.entries[j] = x.entries[j]
    BY <1>1, <1>4, <1>5, <1>6 DEF Chained, Filled, d
  <1>9. LiveEntries(y) = LiveEntries(x) \ {i}
    BY <1>4, <1>5, <1>6, <1>7, <1>8 DEF LiveEntries, IsLive
  <1>10. y.liveCount = Cardinality(LiveEntries(y))
    <2>1. IsFiniteSet(LiveEntries(x))
      BY <1>2, LiveFinite
    <2>2. Cardinality(LiveEntries(x) \ {i}) = Cardinality(LiveEntries(x)) - 1
      BY <2>1, FS_RemoveElement
    <2> QED
      BY <1>1, <1>6, <1>9, <2>2 DEF Chained
  <1>11. Filled(y, l)
    <2>1. ~IsLive(y, i)
      BY <1>4, <1>5, <1>6 DEF IsLive
    <2> QED
      BY <1>1, <1>6, <1>7, <1>8, <2>1 DEF Chained, Filled, IsLive
  <1>12. Linked(y, c, R)
    <2>1. \A j \in R : j \in Used(x)
      BY <1>1 DEF Chained
    <2>2. \A j \in R : Bucket(y, j, c) = Bucket(x, j, c)
      BY <1>8, <2>1 DEF Bucket
    <2> QED
      BY <1>1, <1>6, <1>8, <2>1, <2>2 DEF Chained, Linked
  <1>13. Chained(y, c, l, R)
    BY <1>1, <1>6, <1>7, <1>8, <1>9, <1>10, <1>11, <1>12 DEF Chained
  <1>14. Changes(x, y, i)
    BY <1>2, <1>5, <1>6, <1>8 DEF Changes
  <1> QED
    BY <1>3, <1>4, <1>5, <1>6, <1>13, <1>14 DEF SoundTable
-----------------------------------------------------------------------------
(***************************************************************************)
(* The inductive invariant, and what follows from it.                      *)
(***************************************************************************)

\* The table is sound and the cursors are numbers.
TableInv == SoundTable(m) /\ iters \in Seq(Nat)

\* What the lookup at the head of an operation has found.
LEMMA Found ==
    ASSUME TableInv, NEW k \in Key
    PROVE  LET i == LookupIdx(m, k)
           IN  /\ i \in Int
               /\ i >= 0 => i \in LiveEntries(m) /\ SameValueZero(m.entries[i].key, k)
               /\ i < 0 => \A j \in LiveEntries(m) :
                              SameValueZero(m.entries[j].key, k) => Hash(m.entries[j].key) # Hash(k)
  <1> DEFINE i == LookupIdx(m, k)
  <1>1. Answers(m, k, i)
    BY LookupSound DEF TableInv
  <1>2. m.entryCount \in Nat
    BY DEF TableInv, SoundTable, Chained, Table
  <1> HIDE DEF i
  <1>3. \A j \in LiveEntries(m) : j \in Nat
    BY <1>2 DEF LiveEntries, Used
  <1>4. /\ i \in Int
        /\ i >= 0 => i \in LiveEntries(m) /\ SameValueZero(m.entries[i].key, k)
        /\ i < 0 => \A j \in LiveEntries(m) :
                      SameValueZero(m.entries[j].key, k) => Hash(m.entries[j].key) # Hash(k)
    BY <1>1, <1>3 DEF Answers
  <1> QED
    BY <1>4 DEF i

\* A cursor stays a number.
LEMMA CursorMoves ==
    ASSUME TableInv, NEW n \in DOMAIN iters, IterNext(n)
    PROVE  iters' \in Seq(Nat)
  <1>1. iters \in Seq(Nat) /\ m.entryCount \in Nat
    BY DEF TableInv, SoundTable, Chained, Table
  <1>2. n \in 1..Len(iters) /\ iters[n] \in Nat
    BY <1>1
  <1> DEFINE rest == LiveFrom(m, iters[n])
             j == Min(rest)
  <1>3. rest # {} => j \in Nat
    <2>1. rest \subseteq Nat
      BY <1>1, <1>2 DEF LiveFrom
    <2> HIDE DEF rest
    <2>2. ASSUME rest # {}
          PROVE  \E i \in rest : \A k \in rest : i <= k
      BY <2>1, <2>2, LeastNat
    <2> QED
      BY <2>1, <2>2 DEF Min
  <1>4. \/ iters' = [iters EXCEPT ![n] = Ended]
        \/ rest # {} /\ iters' = [iters EXCEPT ![n] = j + 1]
    BY DEF IterNext
  <1> HIDE DEF j, rest
  <1>5. ASSUME NEW a \in Nat
        PROVE  [iters EXCEPT ![n] = a] \in Seq(Nat)
    BY <1>1, <1>2
  <1>6. Ended \in Nat /\ (rest # {} => j + 1 \in Nat)
    BY <1>3 DEF Ended, Parked
  <1> QED
    BY <1>4, <1>5, <1>6

\* Every operation keeps the table sound.
LEMMA TableInvHolds == Spec => []TableInv
  <1>1. Init => TableInv
    BY NewSound DEF Init, TableInv
  <1>2. TableInv /\ [Next]_vars => TableInv'
    <2> SUFFICES ASSUME TableInv, [Next]_vars
                 PROVE  TableInv'
      OBVIOUS
    <2>1. SoundTable(m) /\ iters \in Seq(Nat)
      BY DEF TableInv
    <2>2. ASSUME NEW k \in Key, NEW v \in Value, Set(k, v)
          PROVE  TableInv'
      <3> DEFINE i == LookupIdx(m, k)
      <3>1. iters' = iters
        BY <2>2 DEF Set
      <3>2. CASE i >= 0 /\ m' = [m EXCEPT !.entries[i].value = v]
        <4>1. i \in LiveEntries(m)
          BY <3>2, Found
        <4> HIDE DEF i
        <4>2. SoundTable([m EXCEPT !.entries[i].value = v])
          BY <2>1, <4>1, WriteSound
        <4> QED
          BY <2>1, <3>1, <3>2, <4>2 DEF TableInv
      <3>3. CASE m.entryCount < MaxEntries /\ m' = Appended(m, k, v)
        <4>1. SoundTable(Appended(m, k, v))
          BY <2>1, <3>3, AppendSound
        <4> QED
          BY <2>1, <3>1, <3>3, <4>1 DEF TableInv
      <3> QED
        BY <2>2, <3>2, <3>3 DEF Set
    <2>3. ASSUME NEW k \in Key, Delete(k)
          PROVE  TableInv'
      <3> DEFINE i == LookupIdx(m, k)
      <3>1. iters' = iters
        BY <2>3 DEF Delete
      <3>2. CASE i >= 0 /\ m' = Removed(m, i)
        <4>1. i \in LiveEntries(m)
          BY <3>2, Found
        <4> HIDE DEF i
        <4>2. SoundTable(Removed(m, i))
          BY <2>1, <4>1, RemoveSound
        <4> QED
          BY <2>1, <3>1, <3>2, <4>2 DEF TableInv
      <3>3. CASE m' = m
        BY <2>1, <3>1, <3>3 DEF TableInv
      <3> QED
        BY <2>3, <3>2, <3>3 DEF Delete
    <2>4. CASE Clear
      BY <2>1, <2>4, NewSound DEF Clear, TableInv
    <2>5. CASE NewIterator
      <3>1. Append(iters, 0) \in Seq(Nat)
        BY <2>1
      <3> QED
        BY <2>1, <2>5, <3>1 DEF NewIterator, TableInv
    <2>6. ASSUME NEW n \in DOMAIN iters, IterNext(n)
          PROVE  TableInv'
      <3>1. iters' \in Seq(Nat)
        BY <2>6, CursorMoves
      <3>2. m' = m
        BY <2>6 DEF IterNext
      <3> QED
        BY <2>1, <3>1, <3>2 DEF TableInv
    <2>7. CASE UNCHANGED vars
      BY <2>1, <2>7 DEF vars, TableInv
    <2> QED
      BY <2>2, <2>3, <2>4, <2>5, <2>6, <2>7 DEF Next
  <1> QED
    BY <1>1, <1>2, PTL DEF Spec

\* Whatever was set, deleted, cleared, grown and rehashed: the counts, the
\* cursors and every link are in range, no chain runs in a circle, and each
\* has the entries of its own bucket, so that the walks of the emitted code,
\* which have no bound, end inside the vector.
THEOREM TableIsSound == Spec => []TableSound
  <1>1. TableInv => TableSound
    <2> SUFFICES ASSUME TableInv
                 PROVE  TableSound
      OBVIOUS
    <2>0. PICK c, l \in Nat \ {0} : \E R : Chained(m, c, l, R)
      BY DEF TableInv, SoundTable
    <2>1. PICK R : Chained(m, c, l, R)
      BY <2>0
    <2>2. /\ m \in Table(c, l)
          /\ Filled(m, l)
          /\ R \in SUBSET Used(m)
          /\ Linked(m, c, R)
          /\ \A i \in Used(m) : m.entries[i].next < i
          /\ m.liveCount = Cardinality(LiveEntries(m))
          /\ m.entryCount \in Nat
      BY <2>1 DEF Chained, Table
    <2>3. DOMAIN m.buckets = 0..(c - 1) /\ Cap(m) = c
      BY <2>2, CapIs DEF Table
    <2>4. m.entryCount \in 0..Cardinality(DOMAIN m.entries)
      <3>1. DOMAIN m.entries = 0..(l - 1)
        BY <2>2 DEF Table
      <3>2. Cardinality(0..(l - 1)) = l
        BY FS_Interval
      <3> QED
        BY <2>2, <3>1, <3>2 DEF Filled
    <2>5. m.liveCount \in 0..m.entryCount
      BY <2>2, LiveFinite
    <2>6. ASSUME NEW b \in DOMAIN m.buckets
          PROVE  m.buckets[b] \in -1..m.entryCount - 1
      <3>1. m.buckets[b] = -1 \/ m.buckets[b] \in R
        BY <2>2, <2>3 DEF Linked
      <3>2. \A i \in R : i \in 0..(m.entryCount - 1)
        BY <2>2 DEF Used
      <3> QED
        BY <2>2, <3>1, <3>2
    <2>7. ASSUME NEW i \in 0..m.entryCount - 1
          PROVE  m.entries[i] # Null /\ m.entries[i].next \in -1..m.entryCount - 1
      <3>1. m.entries[i] \in EntryRecord /\ m.entries[i].next < i
        BY <2>2 DEF Filled, Used
      <3>2. m.entries[i].next \in Int /\ m.entries[i].next >= -1
        BY <3>1, MapAssumption DEF EntryRecord, Slot
      <3> QED
        BY <2>2, <3>1, <3>2, EntryNotNull
    <2>8. TypeOK
      BY <2>4, <2>5, <2>6, <2>7 DEF TypeOK, TableInv
    <2>9. ChainsDescend
      <3>1. \A b \in DOMAIN m.buckets : m.buckets[b] >= 0 => m.entries[m.buckets[b]].hash % Cap(m) = b
        BY <2>2, <2>3 DEF Linked, Bucket
      <3> QED
        BY <2>2, <3>1 DEF ChainsDescend, Used
    <2> QED
      BY <2>8, <2>9 DEF TableSound
  <1> QED
    BY <1>1, TableInvHolds, PTL
-----------------------------------------------------------------------------
(***************************************************************************)
(* What the table shows, when no key is a view of a longer string: keys    *)
(* with the same content have then the same hash.                          *)
(***************************************************************************)

\* A live entry has a value, and no two have the same key.
Distinct(x) ==
    /\ \A i \in LiveEntries(x) : x.entries[i].key \in Key /\ x.entries[i].value \in Value
    /\ \A i, j \in LiveEntries(x) : SameValueZero(x.entries[i].key, x.entries[j].key) => i = j

\* The table is sound, and has each key once.
MapInv == TableInv /\ Distinct(m)

\* The same content, the same hash.
LEMMA HashAgrees ==
    ASSUME Sliced = {}, NEW a \in Key, NEW b \in Key, SameValueZero(a, b)
    PROVE  Hash(a) = Hash(b)
  <1>1. ~a.view /\ ~b.view
    BY DEF Key
  <1> QED
    BY <1>1 DEF SameValueZero, Hash

\* With that, a key that is not found is in no live entry.
LEMMA FoundExactly ==
    ASSUME Sliced = {}, MapInv, NEW k \in Key
    PROVE  LET i == LookupIdx(m, k)
           IN  /\ i \in Int
               /\ i >= 0 => i \in LiveEntries(m) /\ SameValueZero(m.entries[i].key, k)
               /\ i < 0 => i = -1 /\ \A j \in LiveEntries(m) : ~SameValueZero(m.entries[j].key, k)
  <1> DEFINE i == LookupIdx(m, k)
  <1>1. Answers(m, k, i)
    BY LookupSound DEF MapInv, TableInv
  <1>2. /\ i \in Int
        /\ i >= 0 => i \in LiveEntries(m) /\ SameValueZero(m.entries[i].key, k)
        /\ i < 0 => \A j \in LiveEntries(m) :
                      SameValueZero(m.entries[j].key, k) => Hash(m.entries[j].key) # Hash(k)
    BY Found DEF MapInv
  <1>3. \A j \in LiveEntries(m) : m.entries[j].key \in Key
    BY DEF MapInv, Distinct
  <1>4. m.entryCount \in Nat
    BY DEF MapInv, TableInv, SoundTable, Chained, Table
  <1> HIDE DEF i
  <1>5. \A j \in LiveEntries(m) : j \in Nat
    BY <1>4 DEF LiveEntries, Used
  <1>6. i < 0 => i = -1
    BY <1>1, <1>5 DEF Answers
  <1>7. i < 0 => \A j \in LiveEntries(m) : ~SameValueZero(m.entries[j].key, k)
    BY <1>2, <1>3, HashAgrees
  <1> QED
    BY <1>2, <1>6, <1>7 DEF i

\* Indices that are live in a table are in the other if it shows the same.
LEMMA ExtendLive ==
    ASSUME NEW x, NEW y, x.entryCount \in Nat, NEW k, NEW v, Extends(x, y, k, v)
    PROVE  /\ LiveEntries(y) = LiveEntries(x) \cup {x.entryCount}
           /\ x.entryCount \notin LiveEntries(x)
           /\ \A i \in LiveEntries(x) : ShowsSame(x, y, i)
  <1>1. Used(y) = Used(x) \cup {x.entryCount} /\ x.entryCount \notin Used(x)
    BY DEF Extends, Used
  <1>2. IsLive(y, x.entryCount)
    BY DEF Extends, IsLive
  <1>3. \A i \in Used(x) : ShowsSame(x, y, i) /\ (IsLive(x, i) <=> IsLive(y, i))
    BY DEF Extends, ShowsSame, IsLive
  <1> QED
    BY <1>1, <1>2, <1>3 DEF LiveEntries

\* A new key keeps the keys distinct.
LEMMA ExtendDistinct ==
    ASSUME NEW x, NEW y, x.entryCount \in Nat, NEW k \in Key, NEW v \in Value, Extends(x, y, k, v),
           Distinct(x), \A j \in LiveEntries(x) : ~SameValueZero(x.entries[j].key, k)
    PROVE  Distinct(y)
  <1> DEFINE n == x.entryCount
  <1>1. /\ LiveEntries(y) = LiveEntries(x) \cup {n}
        /\ \A i \in LiveEntries(x) : ShowsSame(x, y, i)
    BY ExtendLive
  <1>2. y.entries[n].key = k /\ y.entries[n].value = v
    BY DEF Extends
  <1> HIDE DEF n
  <1>3. \A i \in LiveEntries(x) : y.entries[i].key = x.entries[i].key /\ y.entries[i].value = x.entries[i].value
    BY <1>1 DEF ShowsSame
  <1>4. \A i \in LiveEntries(y) : y.entries[i].key \in Key /\ y.entries[i].value \in Value
    BY <1>1, <1>2, <1>3 DEF Distinct
  <1>5. ASSUME NEW i \in LiveEntries(y), NEW j \in LiveEntries(y),
               SameValueZero(y.entries[i].key, y.entries[j].key)
        PROVE  i = j
    <2>1. CASE i \in LiveEntries(x) /\ j \in LiveEntries(x)
      BY <1>3, <1>5, <2>1 DEF Distinct
    <2>2. CASE i = n /\ j \in LiveEntries(x)
      BY <1>2, <1>3, <1>5, <2>2 DEF SameValueZero
    <2>3. CASE i \in LiveEntries(x) /\ j = n
      BY <1>2, <1>3, <1>5, <2>3 DEF SameValueZero
    <2> QED
      BY <1>1, <2>1, <2>2, <2>3
  <1> QED
    BY <1>4, <1>5 DEF Distinct

\* The live entries after a change of entry i.
LEMMA ChangeLive ==
    ASSUME NEW x, NEW y, NEW i \in LiveEntries(x), Changes(x, y, i)
    PROVE  LiveEntries(y) = IF IsLive(y, i) THEN LiveEntries(x) ELSE LiveEntries(x) \ {i}
  <1>1. Used(y) = Used(x) /\ \A j \in Used(x) \ {i} : IsLive(x, j) <=> IsLive(y, j)
    BY DEF Changes, Used, IsLive
  <1> QED
    BY <1>1 DEF LiveEntries

\* A change of a value, or a removal, keeps the keys distinct.
LEMMA ChangeDistinct ==
    ASSUME NEW x, NEW y, NEW i \in LiveEntries(x), Changes(x, y, i), Distinct(x),
           IsLive(y, i) => y.entries[i].key = x.entries[i].key /\ y.entries[i].value \in Value
    PROVE  Distinct(y)
  <1>1. LiveEntries(y) = IF IsLive(y, i) THEN LiveEntries(x) ELSE LiveEntries(x) \ {i}
    BY ChangeLive
  <1>2. \A j \in LiveEntries(x) \ {i} : y.entries[j] = x.entries[j]
    BY DEF Changes, LiveEntries
  <1>3. \A j \in LiveEntries(y) : /\ j \in LiveEntries(x)
                                  /\ y.entries[j].key = x.entries[j].key
                                  /\ y.entries[j].key \in Key
                                  /\ y.entries[j].value \in Value
    BY <1>1, <1>2 DEF Distinct
  <1> QED
    BY <1>3 DEF Distinct

\* Every operation keeps the keys distinct.
LEMMA MapInvHolds ==
    ASSUME Sliced = {}
    PROVE  Spec => []MapInv
  <1>1. Init => Distinct(m)
    BY NewSound DEF Init, Distinct, LiveEntries, Used
  <1>2. TableInv /\ Distinct(m) /\ [Next]_vars => Distinct(m)'
    <2> SUFFICES ASSUME TableInv, Distinct(m), [Next]_vars
                 PROVE  Distinct(m')
      OBVIOUS
    <2>1. SoundTable(m) /\ MapInv /\ m.entryCount \in Nat
      BY DEF MapInv, TableInv, SoundTable, Chained, Table
    <2>2. ASSUME NEW k \in Key, NEW v \in Value, Set(k, v)
          PROVE  Distinct(m')
      <3> DEFINE i == LookupIdx(m, k)
      <3>1. CASE i >= 0 /\ m' = [m EXCEPT !.entries[i].value = v]
        <4> DEFINE y == [m EXCEPT !.entries[i].value = v]
        <4>1. i \in LiveEntries(m)
          BY <2>1, <3>1, FoundExactly
        <4> HIDE DEF i
        <4>2. Changes(m, y, i) /\ y.entries[i].key = m.entries[i].key /\ y.entries[i].value = v
          BY <2>1, <4>1, WriteSound
        <4> HIDE DEF y
        <4>3. Distinct(y)
          BY <4>1, <4>2, ChangeDistinct
        <4> QED
          BY <3>1, <4>3 DEF y
      <3>2. CASE i < 0 /\ m.entryCount < MaxEntries /\ m' = Appended(m, k, v)
        <4> DEFINE y == Appended(m, k, v)
        <4>1. \A j \in LiveEntries(m) : ~SameValueZero(m.entries[j].key, k)
          BY <2>1, <3>2, FoundExactly
        <4>2. Extends(m, y, k, v)
          BY <2>1, <3>2, AppendSound
        <4> HIDE DEF y
        <4>3. Distinct(y)
          BY <2>1, <4>1, <4>2, ExtendDistinct
        <4> QED
          BY <3>2, <4>3 DEF y
      <3> QED
        BY <2>2, <3>1, <3>2 DEF Set
    <2>3. ASSUME NEW k \in Key, Delete(k)
          PROVE  Distinct(m')
      <3> DEFINE i == LookupIdx(m, k)
      <3>1. CASE i >= 0 /\ m' = Removed(m, i)
        <4> DEFINE y == Removed(m, i)
        <4>1. i \in LiveEntries(m)
          BY <2>1, <3>1, FoundExactly
        <4> HIDE DEF i
        <4>2. Changes(m, y, i) /\ ~IsLive(y, i)
          BY <2>1, <4>1, RemoveSound DEF IsLive
        <4> HIDE DEF y
        <4>3. Distinct(y)
          BY <4>1, <4>2, ChangeDistinct
        <4> QED
          BY <3>1, <4>3 DEF y
      <3> QED
        BY <2>3, <3>1 DEF Delete
    <2>4. CASE Clear
      BY <2>4, NewSound DEF Clear, Distinct, LiveEntries, Used
    <2>5. CASE NewIterator
      BY <2>5 DEF NewIterator
    <2>6. ASSUME NEW n \in DOMAIN iters, IterNext(n)
          PROVE  Distinct(m')
      BY <2>6 DEF IterNext
    <2>7. CASE UNCHANGED vars
      BY <2>7 DEF vars
    <2> QED
      BY <2>2, <2>3, <2>4, <2>5, <2>6, <2>7 DEF Next
  <1>3. TableInv /\ Distinct(m) => MapInv
    BY DEF MapInv
  <1> QED
    BY <1>1, <1>2, <1>3, TableInvHolds, PTL DEF Spec
-----------------------------------------------------------------------------
(***************************************************************************)
(* The list of OrderedMap that a table stands for.                         *)
(***************************************************************************)

\* The list as MapRuntime!Abstract has it.
ListOf(x) == [i \in 1..x.entryCount |-> IF IsLive(x, i - 1) THEN Pair(x, i - 1) ELSE Null]

\* The length of the list and its places.
LEMMA ListShape ==
    ASSUME NEW x, x.entryCount \in Nat, Distinct(x)
    PROVE  /\ ListOf(x) \in Seq([key : Content, value : Value] \cup {Null})
           /\ Len(ListOf(x)) = x.entryCount
           /\ DOMAIN ListOf(x) = 1..x.entryCount
           /\ \A i \in 1..x.entryCount :
                 /\ ListOf(x)[i] = IF i - 1 \in LiveEntries(x) THEN Pair(x, i - 1) ELSE Null
                 /\ i - 1 \in LiveEntries(x) => ListOf(x)[i] # Null
  <1> DEFINE N == x.entryCount
             s == ListOf(x)
             T == [key : Content, value : Value] \cup {Null}
  <1>1. s = [i \in 1..N |-> IF IsLive(x, i - 1) THEN Pair(x, i - 1) ELSE Null]
    BY DEF ListOf
  <1>2. ASSUME NEW i \in 1..N
        PROVE  IsLive(x, i - 1) <=> i - 1 \in LiveEntries(x)
    <2>1. i - 1 \in Used(x)
      BY DEF Used
    <2> QED
      BY <2>1 DEF LiveEntries
  <1>3. ASSUME NEW j \in LiveEntries(x)
        PROVE  Pair(x, j) \in [key : Content, value : Value] /\ Pair(x, j) # Null
    <2>1. x.entries[j].key.content \in Content /\ x.entries[j].value \in Value
      BY MapAssumption DEF Distinct, Key
    <2> QED
      BY <2>1, NotNullAssumption DEF Pair
  <1>4. ASSUME NEW i \in 1..N
        PROVE  /\ s[i] = IF i - 1 \in LiveEntries(x) THEN Pair(x, i - 1) ELSE Null
               /\ i - 1 \in LiveEntries(x) => s[i] # Null
               /\ s[i] \in T
    <2>1. s[i] = IF IsLive(x, i - 1) THEN Pair(x, i - 1) ELSE Null
      BY <1>1
    <2>2. s[i] = IF i - 1 \in LiveEntries(x) THEN Pair(x, i - 1) ELSE Null
      BY <1>2, <2>1
    <2> DEFINE j == i - 1
    <2> HIDE DEF j, s
    <2>3. j \in LiveEntries(x) => Pair(x, j) \in [key : Content, value : Value] /\ Pair(x, j) # Null
      BY <1>3
    <2> QED
      BY <2>2, <2>3 DEF j
  <1>5. s \in [1..N -> T]
    <2>1. \A i \in 1..N : s[i] \in T
      BY <1>4
    <2>2. DOMAIN s = 1..N /\ s = [i \in 1..N |-> s[i]]
      BY <1>1
    <2> HIDE DEF s, T
    <2> QED
      BY <2>1, <2>2
  <1> HIDE DEF s, T
  <1>6. s \in Seq(T) /\ Len(s) = N /\ DOMAIN s = 1..N
    BY <1>5
  <1>7. \A i \in 1..N : /\ s[i] = IF i - 1 \in LiveEntries(x) THEN Pair(x, i - 1) ELSE Null
                        /\ i - 1 \in LiveEntries(x) => s[i] # Null
    BY <1>4
  <1> QED
    BY <1>6, <1>7 DEF s, T

\* The places of a key are those of the live entries with its content.
LEMMA PlacesAre ==
    ASSUME NEW x, x.entryCount \in Nat, Distinct(x), NEW q
    PROVE  {i \in DOMAIN ListOf(x) : ListOf(x)[i] # Null /\ ListOf(x)[i].key = q} =
               {i \in 1..x.entryCount : i - 1 \in LiveEntries(x) /\ x.entries[i - 1].key.content = q}
  <1> DEFINE s == ListOf(x)
  <1>1. /\ DOMAIN s = 1..x.entryCount
        /\ \A i \in 1..x.entryCount :
                 /\ s[i] = IF i - 1 \in LiveEntries(x) THEN Pair(x, i - 1) ELSE Null
                 /\ i - 1 \in LiveEntries(x) => s[i] # Null
    BY ListShape
  <1> HIDE DEF s
  <1>2. ASSUME NEW i \in 1..x.entryCount
        PROVE  s[i] # Null /\ s[i].key = q <=> i - 1 \in LiveEntries(x) /\ x.entries[i - 1].key.content = q
    <2>1. Pair(x, i - 1).key = x.entries[i - 1].key.content
      BY DEF Pair
    <2> QED
      BY <1>1, <2>1
  <1>3. {i \in DOMAIN s : s[i] # Null /\ s[i].key = q} =
           {i \in 1..x.entryCount : i - 1 \in LiveEntries(x) /\ x.entries[i - 1].key.content = q}
    BY <1>1, <1>2
  <1> QED
    BY <1>3 DEF s

\* A lookup finds the place of the key, if it has one.
LEMMA FoundPlace ==
    ASSUME Sliced = {}, MapInv, NEW k \in Key
    PROVE  LET i == LookupIdx(m, k)
           IN  Abstract!Places(k.content) = IF i < 0 THEN {} ELSE {i + 1}
  <1> DEFINE i == LookupIdx(m, k)
             q == k.content
             P == {j \in 1..m.entryCount : j - 1 \in LiveEntries(m) /\ m.entries[j - 1].key.content = q}
  <1>1. m.entryCount \in Nat /\ Distinct(m)
    BY DEF MapInv, TableInv, SoundTable, Chained, Table
  <1>2. Abstract!Places(q) = P
    <2>1. {j \in DOMAIN ListOf(m) : ListOf(m)[j] # Null /\ ListOf(m)[j].key = q} = P
      BY <1>1, PlacesAre
    <2>2. Abstract!Places(q) = {j \in DOMAIN ListOf(m) : ListOf(m)[j] # Null /\ ListOf(m)[j].key = q}
      BY DEF Abstract!Places, ListOf
    <2> QED
      BY <2>1, <2>2
  <1>3. /\ i \in Int
        /\ i >= 0 => i \in LiveEntries(m) /\ SameValueZero(m.entries[i].key, k)
        /\ i < 0 => i = -1 /\ \A j \in LiveEntries(m) : ~SameValueZero(m.entries[j].key, k)
    BY FoundExactly
  <1> HIDE DEF i
  <1>4. CASE i < 0
    <2>1. P = {}
      BY <1>3, <1>4 DEF SameValueZero
    <2> QED
      BY <1>2, <1>4, <2>1 DEF i
  <1>5. CASE i >= 0
    <2>1. i \in LiveEntries(m) /\ m.entries[i].key.content = q /\ i \in 0..(m.entryCount - 1)
      BY <1>3, <1>5 DEF SameValueZero, LiveEntries, Used
    <2>2. i + 1 \in P
      <3>1. i + 1 \in 1..m.entryCount /\ (i + 1) - 1 = i
        BY <1>1, <2>1
      <3> QED
        BY <2>1, <3>1
    <2>3. ASSUME NEW j \in P
          PROVE  j = i + 1
      <3>1. j - 1 \in LiveEntries(m) /\ m.entries[j - 1].key.content = q /\ j \in Int
        OBVIOUS
      <3>2. j - 1 = i
        BY <1>1, <2>1, <3>1 DEF Distinct, SameValueZero
      <3> QED
        BY <3>1, <3>2
    <2>4. P = {i + 1}
      <3> HIDE DEF P
      <3> QED
        BY <2>2, <2>3
    <2> QED
      BY <1>2, <1>3, <1>5, <2>4 DEF i
  <1> QED
    BY <1>3, <1>4, <1>5

\* What a lookup reads is what the list has.
LEMMA LookupsAgree ==
    ASSUME Sliced = {}, MapInv, NEW k \in Key
    PROVE  /\ Get(m, k) = Abstract!Lookup(k.content)
           /\ Has(m, k) <=> Abstract!Places(k.content) # {}
  <1> DEFINE i == LookupIdx(m, k)
             q == k.content
             s == ListOf(m)
  <1>1. Abstract!Places(q) = IF i < 0 THEN {} ELSE {i + 1}
    BY FoundPlace
  <1>2. Get(m, k) = IF i < 0 THEN Null ELSE m.entries[i].value
    BY DEF Get
  <1>3. Has(m, k) <=> i # -1
    BY DEF Has
  <1>4. Abstract!Lookup(q) = IF Abstract!Places(q) = {} THEN Null
                             ELSE s[CHOOSE j \in Abstract!Places(q) : TRUE].value
    BY DEF Abstract!Lookup, ListOf
  <1>5. /\ i \in Int
        /\ i >= 0 => i \in LiveEntries(m)
        /\ i < 0 => i = -1
    BY FoundExactly
  <1>6. m.entryCount \in Nat /\ Distinct(m)
    BY DEF MapInv, TableInv, SoundTable, Chained, Table
  <1>7. i >= 0 => s[i + 1].value = m.entries[i].value
    <2> SUFFICES ASSUME i >= 0
                 PROVE  s[i + 1].value = m.entries[i].value
      OBVIOUS
    <2> HIDE DEF i
    <2>1. i \in LiveEntries(m) /\ i \in 0..(m.entryCount - 1)
      BY <1>5 DEF LiveEntries, Used
    <2>2. i + 1 \in 1..m.entryCount /\ (i + 1) - 1 = i
      BY <1>6, <2>1
    <2>3. s[i + 1] = Pair(m, i)
      BY <1>6, <2>1, <2>2, ListShape
    <2> HIDE DEF s
    <2> QED
      BY <2>3 DEF Pair
  <1> HIDE DEF i, s
  <1>8. CASE i < 0
    BY <1>1, <1>2, <1>3, <1>4, <1>5, <1>8
  <1>9. CASE i >= 0
    <2>1. Abstract!Places(q) = {i + 1}
      BY <1>1, <1>5, <1>9
    <2>2. (CHOOSE j \in Abstract!Places(q) : TRUE) = i + 1
      BY <2>1
    <2>3. Abstract!Lookup(q) = s[i + 1].value
      BY <1>4, <2>1, <2>2
    <2> QED
      BY <1>2, <1>3, <1>5, <1>7, <1>9, <2>1, <2>3
  <1> QED
    BY <1>5, <1>8, <1>9

\* What OrderedMap shows an entry as.
Shown == [key : Content, value : Value]

\* f[n] are the entries among the first n places of the list w.
Keeps(f, N, w) ==
    /\ f[0] = <<>>
    /\ \A n \in 1..N : f[n] = IF w[n] # Null THEN Append(f[n - 1], w[n]) ELSE f[n - 1]

\* There is such a function, and one only.
LEMMA KeepsExists ==
    ASSUME NEW N \in Nat, NEW w, \A n \in 1..N : w[n] \in Shown \cup {Null}
    PROVE  \E f \in [0..N -> Seq(Shown)] : Keeps(f, N, w)
  <1> DEFINE S == Seq(Shown)
             step == [p \in (1..N) \X S |-> IF w[p[1]] # Null THEN Append(p[2], w[p[1]]) ELSE p[2]]
  <1>1. ASSUME NEW n \in 1..N, NEW v \in S
        PROVE  step[<<n, v>>] = (IF w[n] # Null THEN Append(v, w[n]) ELSE v) /\ step[<<n, v>>] \in S
    <2>1. step[<<n, v>>] = IF w[n] # Null THEN Append(v, w[n]) ELSE v
      <3> HIDE DEF S
      <3>1. <<n, v>> \in (1..N) \X S
        OBVIOUS
      <3> QED
        BY <3>1
    <2>2. w[n] # Null => Append(v, w[n]) \in S
      <3> HIDE DEF step
      <3>1. w[n] \in Shown \cup {Null}
        OBVIOUS
      <3> QED
        BY <3>1
    <2> HIDE DEF step
    <2> QED
      BY <2>1, <2>2
  <1>2. <<>> \in S
    OBVIOUS
  <1> HIDE DEF S, step
  <1>3. StaysIn(S, N, step)
    BY <1>1 DEF StaysIn
  <1>4. PICK f : Follows(f, S, N, <<>>, step)
    BY <1>2, <1>3, Recursion
  <1>5. f \in [0..N -> S] /\ f[0] = <<>> /\ \A n \in 1..N : f[n] = step[<<n, f[n - 1]>>]
    BY <1>4 DEF Follows
  <1>6. ASSUME NEW n \in 1..N
        PROVE  f[n] = IF w[n] # Null THEN Append(f[n - 1], w[n]) ELSE f[n - 1]
    <2>1. n - 1 \in 0..N
      OBVIOUS
    <2>2. f[n - 1] \in S
      BY <1>5, <2>1
    <2> QED
      BY <1>1, <1>5, <2>2
  <1> QED
    BY <1>5, <1>6 DEF S, Keeps

LEMMA KeepsSame ==
    ASSUME NEW N \in Nat, NEW w, NEW f, NEW g, Keeps(f, N, w), Keeps(g, N, w)
    PROVE  \A n \in 0..N : f[n] = g[n]
  <1> DEFINE Good == {n \in 0..N : f[n] = g[n]}
  <1>1. 0 \in Good
    BY DEF Keeps
  <1>2. ASSUME NEW n \in 0..(N - 1), n \in Good
        PROVE  n + 1 \in Good
    <2>1. n + 1 \in 1..N /\ (n + 1) - 1 = n /\ n + 1 \in 0..N
      OBVIOUS
    <2>2. f[n + 1] = g[n + 1]
      BY <1>2, <2>1 DEF Keeps
    <2> QED
      BY <2>1, <2>2
  <1>3. \A n \in 0..(N - 1) : n \in Good => n + 1 \in Good
    BY <1>2
  <1> HIDE DEF Good
  <1>4. \A n \in 0..N : n \in Good
    BY <1>1, <1>3, UpTo
  <1> QED
    BY <1>4 DEF Good

\* The entries kept of a table's list are as many as the live ones.
LEMMA KeepsCounts ==
    ASSUME NEW x, x.entryCount \in Nat, Distinct(x),
           NEW f \in [0..x.entryCount -> Seq(Shown)], Keeps(f, x.entryCount, ListOf(x))
    PROVE  Len(f[x.entryCount]) = Cardinality(LiveEntries(x))
  <1> DEFINE N == x.entryCount
             w == ListOf(x)
             Before(n) == {i \in LiveEntries(x) : i < n}
             Good == {n \in 0..N : Len(f[n]) = Cardinality(Before(n))}
  <1>1. \A n \in 1..N : /\ w[n] = IF n - 1 \in LiveEntries(x) THEN Pair(x, n - 1) ELSE Null
                        /\ n - 1 \in LiveEntries(x) => w[n] # Null
    BY ListShape
  <1>2. \A i \in LiveEntries(x) : i \in Nat /\ i < N
    BY DEF LiveEntries, Used
  <1>3. IsFiniteSet(LiveEntries(x))
    BY LiveFinite
  <1>4. f[0] = <<>> /\ \A n \in 1..N : f[n] = IF w[n] # Null THEN Append(f[n - 1], w[n]) ELSE f[n - 1]
    BY DEF Keeps
  <1> HIDE DEF w
  <1>5. 0 \in Good
    <2>1. Before(0) = {}
      BY <1>2
    <2>2. Cardinality(Before(0)) = 0
      BY <2>1, FS_EmptySet
    <2>3. Len(f[0]) = 0
      BY <1>4
    <2> HIDE DEF Before
    <2> QED
      BY <2>2, <2>3
  <1>6. ASSUME NEW n \in 0..(N - 1), n \in Good
        PROVE  n + 1 \in Good
    <2>1. n + 1 \in 1..N /\ (n + 1) - 1 = n /\ n + 1 \in 0..N /\ n \in 0..N
      OBVIOUS
    <2>2. f[n + 1] = IF w[n + 1] # Null THEN Append(f[n], w[n + 1]) ELSE f[n]
      BY <1>4, <2>1
    <2>3. w[n + 1] # Null <=> n \in LiveEntries(x)
      BY <1>1, <2>1
    <2>4. Len(f[n]) = Cardinality(Before(n)) /\ f[n] \in Seq(Shown)
      BY <1>6, <2>1
    <2>5. CASE n \in LiveEntries(x)
      <3>1. Before(n + 1) = Before(n) \cup {n} /\ n \notin Before(n)
        <4>1. \A i \in LiveEntries(x) : i < n + 1 <=> i < n \/ i = n
          BY <1>2, <2>1
        <4>2. ~(n < n)
          BY <2>1
        <4> QED
          BY <2>5, <4>1, <4>2
      <3>2. IsFiniteSet(Before(n))
        BY <1>3, FS_Subset
      <3>3. Cardinality(Before(n) \cup {n}) = Cardinality(Before(n)) + 1
        <4> HIDE DEF Before
        <4> QED
          BY <3>1, <3>2, FS_AddElement
      <3>4. f[n + 1] = Append(f[n], w[n + 1])
        BY <2>2, <2>3, <2>5
      <3>5. Len(f[n + 1]) = Len(f[n]) + 1
        <4> HIDE DEF Before, Good
        <4>1. w[n + 1] \in Shown
          <5>1. w[n + 1] \in Shown \cup {Null}
            <6>1. w \in Seq(Shown \cup {Null}) /\ Len(w) = N
              BY ListShape DEF w, Shown
            <6> QED
              BY <2>1, <6>1
          <5> QED
            BY <2>3, <2>5, <5>1
        <4> QED
          BY <2>4, <3>4, <4>1
      <3> HIDE DEF Before
      <3>6. Len(f[n + 1]) = Cardinality(Before(n + 1))
        BY <2>4, <3>1, <3>3, <3>5
      <3> QED
        BY <2>1, <3>6
    <2>6. CASE n \notin LiveEntries(x)
      <3>1. Before(n + 1) = Before(n)
        <4>1. \A i \in LiveEntries(x) : i < n + 1 <=> i < n
          BY <1>2, <2>1, <2>6
        <4> QED
          BY <4>1
      <3>2. f[n + 1] = f[n]
        BY <2>2, <2>3, <2>6
      <3> HIDE DEF Before
      <3> QED
        BY <2>1, <2>4, <3>1, <3>2
    <2> QED
      BY <2>5, <2>6
  <1>7. \A n \in 0..(N - 1) : n \in Good => n + 1 \in Good
    BY <1>6
  <1>8. N \in Good
    <2> HIDE DEF Good
    <2>1. \A n \in 0..N : n \in Good
      BY <1>5, <1>7, UpTo
    <2> QED
      BY <2>1
  <1>9. Before(N) = LiveEntries(x)
    BY <1>2
  <1> QED
    BY <1>8, <1>9

\* The eager vector is filled with what the list keeps.
LEMMA SnapshotKeeps ==
    ASSUME NEW x, x.entryCount \in Nat, Distinct(x), NEW f, Keeps(f, x.entryCount, ListOf(x))
    PROVE  Snapshot(x) = IF Len(f[x.entryCount]) > x.liveCount THEN Null ELSE f[x.entryCount]
  <1> DEFINE N == x.entryCount
             w == ListOf(x)
             Is(g) == g = [n \in 0..N |-> IF n = 0 THEN <<>>
                                          ELSE IF IsLive(x, n - 1) THEN Append(g[n - 1], Pair(x, n - 1)) ELSE g[n - 1]]
             h == [n \in 0..N |-> f[n]]
  <1>1. \A n \in 1..N : /\ w[n] = IF n - 1 \in LiveEntries(x) THEN Pair(x, n - 1) ELSE Null
                        /\ n - 1 \in LiveEntries(x) => w[n] # Null
    BY ListShape
  <1>2. \A n \in 1..N : n - 1 \in LiveEntries(x) <=> IsLive(x, n - 1)
    BY DEF LiveEntries, Used
  <1> HIDE DEF w
  <1>3. ASSUME NEW n \in 1..N, NEW a
        PROVE  (IF w[n] # Null THEN Append(a, w[n]) ELSE a) =
                   (IF IsLive(x, n - 1) THEN Append(a, Pair(x, n - 1)) ELSE a)
    <2>1. w[n] = IF n - 1 \in LiveEntries(x) THEN Pair(x, n - 1) ELSE Null
      BY <1>1
    <2>2. n - 1 \in LiveEntries(x) => w[n] # Null
      BY <1>1
    <2>3. n - 1 \in LiveEntries(x) <=> IsLive(x, n - 1)
      BY <1>2
    <2> QED
      BY <2>1, <2>2, <2>3
  <1>4. Is(h)
    <2>1. ASSUME NEW n \in 0..N, n # 0
          PROVE  h[n] = IF IsLive(x, n - 1) THEN Append(h[n - 1], Pair(x, n - 1)) ELSE h[n - 1]
      <3>1. n \in 1..N /\ n - 1 \in 0..N
        BY <2>1
      <3>2. h[n] = f[n] /\ h[n - 1] = f[n - 1]
        BY <3>1
      <3>3. f[n] = IF w[n] # Null THEN Append(f[n - 1], w[n]) ELSE f[n - 1]
        BY <3>1 DEF Keeps, w
      <3> HIDE DEF h
      <3> QED
        BY <1>3, <3>1, <3>2, <3>3
    <2>2. h[0] = <<>> /\ h = [n \in 0..N |-> h[n]]
      BY DEF Keeps
    <2> HIDE DEF h
    <2> QED
      BY <2>1, <2>2
  <1>5. PICK g : Is(g) /\ Snapshot(x) = IF Len(g[N]) > x.liveCount THEN Null ELSE g[N]
    <2> DEFINE c == CHOOSE g : Is(g)
    <2>1. Is(c)
      <3> HIDE DEF Is, h
      <3> QED
        BY <1>4
    <2>2. Snapshot(x) = IF Len(c[N]) > x.liveCount THEN Null ELSE c[N]
      BY DEF Snapshot
    <2> HIDE DEF c, Is
    <2> QED
      BY <2>1, <2>2
  <1>6. Keeps(g, N, w)
    <2>1. g[0] = <<>>
      BY <1>5
    <2>2. ASSUME NEW n \in 1..N
          PROVE  g[n] = IF w[n] # Null THEN Append(g[n - 1], w[n]) ELSE g[n - 1]
      <3>1. n \in 0..N /\ n # 0
        OBVIOUS
      <3>2. g[n] = IF IsLive(x, n - 1) THEN Append(g[n - 1], Pair(x, n - 1)) ELSE g[n - 1]
        BY <1>5, <3>1
      <3> QED
        BY <1>3, <3>2
    <2> QED
      BY <2>1, <2>2 DEF Keeps
  <1>7. g[N] = f[N]
    <2>1. \A n \in 0..N : g[n] = f[n]
      BY <1>6, KeepsSame DEF w
    <2> QED
      BY <2>1
  <1> QED
    BY <1>5, <1>7

\* So are the entries that the list of OrderedMap shows.
LEMMA LiveKeeps ==
    ASSUME m.entryCount \in Nat, Distinct(m), NEW f, Keeps(f, m.entryCount, ListOf(m))
    PROVE  Abstract!Live = f[m.entryCount]
  <1> DEFINE N == m.entryCount
             w == ListOf(m)
             Is(g) == g = [n \in 0..Len(w) |-> IF n = 0 THEN <<>>
                                               ELSE IF w[n] # Null THEN Append(g[n - 1], w[n]) ELSE g[n - 1]]
             h == [n \in 0..N |-> f[n]]
  <1>1. Len(w) = N
    BY ListShape
  <1>2. Abstract!Live = (CHOOSE g : Is(g))[Len(w)]
    BY DEF Abstract!Live, ListOf
  <1> HIDE DEF w
  <1>3. Is(h)
    <2>1. ASSUME NEW n \in 0..N, n # 0
          PROVE  h[n] = IF w[n] # Null THEN Append(h[n - 1], w[n]) ELSE h[n - 1]
      <3>1. n \in 1..N /\ n - 1 \in 0..N
        BY <2>1
      <3>2. h[n] = f[n] /\ h[n - 1] = f[n - 1]
        BY <3>1
      <3>3. f[n] = IF w[n] # Null THEN Append(f[n - 1], w[n]) ELSE f[n - 1]
        BY <3>1 DEF Keeps, w
      <3> QED
        BY <3>2, <3>3
    <2>2. h[0] = <<>> /\ h = [n \in 0..N |-> h[n]]
      BY DEF Keeps
    <2> HIDE DEF h
    <2> QED
      BY <1>1, <2>1, <2>2
  <1>4. PICK g : Is(g) /\ Abstract!Live = g[N]
    <2> DEFINE c == CHOOSE g : Is(g)
    <2>1. Is(c)
      <3> HIDE DEF Is, h
      <3> QED
        BY <1>3
    <2>2. Abstract!Live = c[N]
      BY <1>1, <1>2
    <2> HIDE DEF c, Is
    <2> QED
      BY <2>1, <2>2
  <1>5. Keeps(g, N, w)
    <2>1. g[0] = <<>>
      BY <1>1, <1>4
    <2>2. ASSUME NEW n \in 1..N
          PROVE  g[n] = IF w[n] # Null THEN Append(g[n - 1], w[n]) ELSE g[n - 1]
      <3>1. n \in 0..N /\ n # 0
        OBVIOUS
      <3> QED
        BY <1>1, <1>4, <3>1
    <2> QED
      BY <2>1, <2>2 DEF Keeps
  <1>6. g[N] = f[N]
    <2>1. \A n \in 0..N : g[n] = f[n]
      BY <1>5, KeepsSame DEF w
    <2> QED
      BY <2>1
  <1> QED
    BY <1>4, <1>6

\* Where no key is a view of a longer string: every get, has and size, and the
\* eager vector behind spread and for-of, give what the list of the entries in
\* the order of their insertion gives; the vector's liveCount slots hold them
\* all, so that filling it never traps.
THEOREM ReadsAreOfTheList ==
    ASSUME Sliced = {}
    PROVE  Spec => []ReadsAgree
  <1>1. MapInv => ReadsAgree
    <2> SUFFICES ASSUME MapInv
                 PROVE  ReadsAgree
      OBVIOUS
    <2> DEFINE N == m.entryCount
    <2>1. N \in Nat /\ Distinct(m) /\ m.liveCount = Cardinality(LiveEntries(m))
      BY DEF MapInv, TableInv, SoundTable, Chained, Table
    <2>2. PICK f \in [0..N -> Seq(Shown)] : Keeps(f, N, ListOf(m))
      <3> DEFINE w == ListOf(m)
      <3>1. w \in Seq(Shown \cup {Null}) /\ Len(w) = N
        BY <2>1, ListShape DEF Shown
      <3> HIDE DEF w
      <3>2. \A n \in 1..N : w[n] \in Shown \cup {Null}
        BY <3>1
      <3>3. \E f \in [0..N -> Seq(Shown)] : Keeps(f, N, w)
        BY <2>1, <3>2, KeepsExists
      <3> QED
        BY <3>3 DEF w
    <2>3. Abstract!Live = f[N]
      BY <2>1, <2>2, LiveKeeps
    <2>4. Len(f[N]) = m.liveCount
      BY <2>1, <2>2, KeepsCounts
    <2>5. Snapshot(m) = IF Len(f[N]) > m.liveCount THEN Null ELSE f[N]
      BY <2>1, <2>2, SnapshotKeeps
    <2>6. m.liveCount \in Nat
      BY <2>1, LiveFinite
    <2>7. ~(m.liveCount > m.liveCount)
      BY <2>6
    <2>8. Snapshot(m) = Abstract!Live /\ Size(m) = Len(Abstract!Live)
      BY <2>3, <2>4, <2>5, <2>7 DEF Size
    <2>9. \A k \in Key : /\ Get(m, k) = Abstract!Lookup(k.content)
                         /\ Has(m, k) <=> Abstract!Places(k.content) # {}
      BY LookupsAgree
    <2> QED
      BY <2>8, <2>9 DEF ReadsAgree
  <1> QED
    BY <1>1, MapInvHolds, PTL
-----------------------------------------------------------------------------
(***************************************************************************)
(* The operations change the list as those of OrderedMap do.               *)
(***************************************************************************)

\* The iterators as MapRuntime!Abstract has them.
IteratorOf(c) == IF c = Parked THEN [at |-> 1, ended |-> TRUE] ELSE [at |-> c + 1, ended |-> FALSE]

IteratorsOf(s) == [n \in DOMAIN s |-> IteratorOf(s[n])]

\* A new entry is appended to the list.
LEMMA ListExtended ==
    ASSUME NEW x, NEW y, x.entryCount \in Nat, Distinct(x), Distinct(y), NEW k, NEW v, Extends(x, y, k, v)
    PROVE  ListOf(y) = Append(ListOf(x), [key |-> k.content, value |-> v])
  <1> DEFINE N == x.entryCount
             s == ListOf(x)
             t == ListOf(y)
             e == [key |-> k.content, value |-> v]
  <1>1. /\ LiveEntries(y) = LiveEntries(x) \cup {N}
        /\ N \notin LiveEntries(x)
        /\ \A i \in LiveEntries(x) : ShowsSame(x, y, i)
        /\ y.entryCount = N + 1
    BY ExtendLive DEF Extends
  <1>2. /\ Len(s) = N
        /\ s \in Seq([key : Content, value : Value] \cup {Null})
        /\ \A i \in 1..N : s[i] = IF i - 1 \in LiveEntries(x) THEN Pair(x, i - 1) ELSE Null
    BY ListShape
  <1>3. /\ Len(t) = N + 1
        /\ t \in Seq([key : Content, value : Value] \cup {Null})
        /\ \A i \in 1..(N + 1) : t[i] = IF i - 1 \in LiveEntries(y) THEN Pair(y, i - 1) ELSE Null
    <2>1. y.entryCount \in Nat
      BY <1>1
    <2> QED
      BY <1>1, <2>1, ListShape
  <1>4. Pair(y, N) = e
    BY DEF Extends, Pair
  <1>5. \A i \in LiveEntries(x) : Pair(x, i) = Pair(y, i)
    BY <1>1 DEF ShowsSame, Pair
  <1> HIDE DEF s, t, e
  <1>6. ASSUME NEW i \in 1..N
        PROVE  t[i] = s[i]
    <2>1. i \in 1..(N + 1) /\ i - 1 # N
      OBVIOUS
    <2>2. i - 1 \in LiveEntries(y) <=> i - 1 \in LiveEntries(x)
      BY <1>1, <2>1
    <2>3. t[i] = IF i - 1 \in LiveEntries(y) THEN Pair(y, i - 1) ELSE Null
      BY <1>3, <2>1
    <2>4. s[i] = IF i - 1 \in LiveEntries(x) THEN Pair(x, i - 1) ELSE Null
      BY <1>2
    <2> QED
      BY <1>5, <2>2, <2>3, <2>4
  <1>7. t[N + 1] = e
    <2>1. N + 1 \in 1..(N + 1) /\ (N + 1) - 1 = N
      OBVIOUS
    <2>2. t[N + 1] = IF N \in LiveEntries(y) THEN Pair(y, N) ELSE Null
      BY <1>3, <2>1
    <2> QED
      BY <1>1, <1>4, <2>2
  <1>8. t = Append(s, e)
    BY <1>2, <1>3, <1>6, <1>7
  <1> QED
    BY <1>8 DEF s, t, e

\* A change of entry i changes its place in the list.
LEMMA ListChanged ==
    ASSUME NEW x, NEW y, x.entryCount \in Nat, NEW i \in LiveEntries(x), Changes(x, y, i)
    PROVE  ListOf(y) = [j \in DOMAIN ListOf(x) |->
                           IF j = i + 1 THEN IF IsLive(y, i) THEN Pair(y, i) ELSE Null ELSE ListOf(x)[j]]
  <1> DEFINE N == x.entryCount
  <1>1. y.entryCount = N /\ i \in 0..(N - 1)
    BY DEF Changes, LiveEntries, Used
  <1>2. ASSUME NEW j \in 1..N, j # i + 1
        PROVE  IsLive(y, j - 1) = IsLive(x, j - 1) /\ Pair(y, j - 1) = Pair(x, j - 1)
    <2>1. j - 1 \in Used(x) \ {i}
      BY <1>1, <1>2 DEF Used
    <2>2. y.entries[j - 1] = x.entries[j - 1]
      BY <2>1 DEF Changes
    <2> QED
      BY <2>2 DEF IsLive, Pair
  <1>3. ASSUME NEW j \in 1..N
        PROVE  (IF IsLive(y, j - 1) THEN Pair(y, j - 1) ELSE Null) =
                 (IF j = i + 1 THEN IF IsLive(y, i) THEN Pair(y, i) ELSE Null
                  ELSE IF IsLive(x, j - 1) THEN Pair(x, j - 1) ELSE Null)
    <2>1. CASE j = i + 1
      <3>1. j - 1 = i
        BY <1>1, <2>1
      <3> QED
        BY <2>1, <3>1
    <2>2. CASE j # i + 1
      BY <1>2, <2>2
    <2> QED
      BY <2>1, <2>2
  <1>4. /\ DOMAIN ListOf(x) = 1..N
        /\ \A j \in 1..N : ListOf(x)[j] = IF IsLive(x, j - 1) THEN Pair(x, j - 1) ELSE Null
    BY DEF ListOf
  <1>5. ListOf(y) = [j \in 1..N |-> IF IsLive(y, j - 1) THEN Pair(y, j - 1) ELSE Null]
    BY <1>1 DEF ListOf
  <1> QED
    BY <1>3, <1>4, <1>5

\* set.
LEMMA SetRefines ==
    ASSUME Sliced = {}, MapInv, MapInv', NEW k \in Key, NEW v \in Value, Set(k, v)
    PROVE  Abstract!Set(k.content, v)
  <1> DEFINE i == LookupIdx(m, k)
             q == k.content
             s == ListOf(m)
             e == [key |-> q, value |-> v]
  <1>1. SoundTable(m) /\ m.entryCount \in Nat /\ Distinct(m) /\ Distinct(m')
    BY DEF MapInv, TableInv, SoundTable, Chained, Table
  <1>2. Abstract!Places(q) = IF i < 0 THEN {} ELSE {i + 1}
    BY FoundPlace
  <1>3. /\ i \in Int
        /\ i >= 0 => i \in LiveEntries(m) /\ SameValueZero(m.entries[i].key, k)
    BY FoundExactly
  <1>4. /\ \/ i >= 0 /\ m' = [m EXCEPT !.entries[i].value = v]
           \/ i < 0 /\ m.entryCount < MaxEntries /\ m' = Appended(m, k, v)
        /\ out' = <<"none", Null>>
        /\ iters' = iters
    BY DEF Set
  <1>5. ListOf(m') = IF Abstract!Places(q) = {} THEN Append(s, e)
                     ELSE [j \in DOMAIN s |-> IF j \in Abstract!Places(q) THEN e ELSE s[j]]
    <2>1. CASE i >= 0 /\ m' = [m EXCEPT !.entries[i].value = v]
      <3> DEFINE y == [m EXCEPT !.entries[i].value = v]
      <3>1. i \in LiveEntries(m) /\ m.entries[i].key.content = q
        BY <1>3, <2>1 DEF SameValueZero
      <3>2. Abstract!Places(q) = {i + 1}
        BY <1>2, <1>3, <2>1
      <3> HIDE DEF i
      <3>3. /\ Changes(m, y, i)
            /\ y.entries[i].key = m.entries[i].key
            /\ y.entries[i].value = v
            /\ IsLive(y, i)
        BY <1>1, <3>1, WriteSound DEF IsLive
      <3> HIDE DEF y
      <3>4. Pair(y, i) = e
        BY <3>1, <3>3 DEF Pair
      <3>5. ListOf(y) = [j \in DOMAIN s |-> IF j = i + 1 THEN IF IsLive(y, i) THEN Pair(y, i) ELSE Null ELSE s[j]]
        BY <1>1, <3>1, <3>3, ListChanged
      <3> HIDE DEF s, e
      <3>6. ListOf(y) = [j \in DOMAIN s |-> IF j \in {i + 1} THEN e ELSE s[j]]
        BY <3>3, <3>4, <3>5
      <3> QED
        BY <2>1, <3>2, <3>6 DEF y
    <2>2. CASE i < 0 /\ m.entryCount < MaxEntries /\ m' = Appended(m, k, v)
      <3>1. Extends(m, m', k, v)
        BY <1>1, <2>2, AppendSound
      <3>2. ListOf(m') = Append(s, e)
        BY <1>1, <3>1, ListExtended
      <3>3. Abstract!Places(q) = {}
        BY <1>2, <2>2
      <3> QED
        BY <3>2, <3>3
    <2> QED
      BY <1>4, <2>1, <2>2
  <1> QED
    BY <1>4, <1>5 DEF Abstract!Set, ListOf

\* delete.
LEMMA DeleteRefines ==
    ASSUME Sliced = {}, MapInv, NEW k \in Key, Delete(k)
    PROVE  Abstract!Delete(k.content)
  <1> DEFINE i == LookupIdx(m, k)
             q == k.content
             s == ListOf(m)
  <1>1. SoundTable(m) /\ m.entryCount \in Nat /\ Distinct(m)
    BY DEF MapInv, TableInv, SoundTable, Chained, Table
  <1>2. Abstract!Places(q) = IF i < 0 THEN {} ELSE {i + 1}
    BY FoundPlace
  <1>3. i \in Int /\ (i >= 0 => i \in LiveEntries(m))
    BY FoundExactly
  <1>4. /\ \/ i >= 0 /\ m' = Removed(m, i)
           \/ i < 0 /\ m' = m
        /\ out' = <<"delete", i >= 0>>
        /\ iters' = iters
    BY DEF Delete
  <1>5. ListOf(m') = [j \in DOMAIN s |-> IF j \in Abstract!Places(q) THEN Null ELSE s[j]]
    <2>1. CASE i >= 0 /\ m' = Removed(m, i)
      <3> DEFINE y == Removed(m, i)
      <3>1. i \in LiveEntries(m)
        BY <1>3, <2>1
      <3>2. Abstract!Places(q) = {i + 1}
        BY <1>2, <1>3, <2>1
      <3> HIDE DEF i
      <3>3. Changes(m, y, i) /\ ~IsLive(y, i)
        BY <1>1, <3>1, RemoveSound DEF IsLive
      <3> HIDE DEF y
      <3>4. ListOf(y) = [j \in DOMAIN s |-> IF j = i + 1 THEN IF IsLive(y, i) THEN Pair(y, i) ELSE Null ELSE s[j]]
        BY <1>1, <3>1, <3>3, ListChanged
      <3> HIDE DEF s
      <3>5. ListOf(y) = [j \in DOMAIN s |-> IF j \in {i + 1} THEN Null ELSE s[j]]
        BY <3>3, <3>4
      <3> QED
        BY <2>1, <3>2, <3>5 DEF y
    <2>2. CASE i < 0 /\ m' = m
      <3>1. Abstract!Places(q) = {}
        BY <1>2, <2>2
      <3>2. s = [j \in DOMAIN s |-> s[j]]
        BY DEF ListOf
      <3> QED
        BY <2>2, <3>1, <3>2
    <2> QED
      BY <1>4, <2>1, <2>2
  <1>6. (i >= 0) = (Abstract!Places(q) # {})
    BY <1>2, <1>3
  <1> QED
    BY <1>4, <1>5, <1>6 DEF Abstract!Delete, ListOf

\* clear: no iterator is at work, so that the positions of OrderedMap, which
\* go back to the start, are those of the cursors.
LEMMA ClearRefines ==
    ASSUME ~ClearWhileWalking, TableInv, Clear
    PROVE  Abstract!Clear
  <1>1. iters \in Seq(Nat)
    BY DEF TableInv
  <1>2. /\ \A n \in DOMAIN iters : ~Walking(iters[n])
        /\ m' = NewMap
        /\ out' = <<"none", Null>>
        /\ iters' = iters
    BY DEF Clear
  <1>3. \A n \in DOMAIN iters : iters[n] = 0 \/ iters[n] = Parked
    BY <1>1, <1>2 DEF Walking
  <1>4. ListOf(m') = <<>>
    <2>1. m'.entryCount = 0
      BY <1>2, NewSound
    <2> QED
      BY <2>1 DEF ListOf
  <1> DEFINE s == IteratorsOf(iters)
  <1>5. s = [n \in DOMAIN s |-> [s[n] EXCEPT !.at = 1]]
    <2>1. DOMAIN s = DOMAIN iters
      BY DEF IteratorsOf
    <2>2. ASSUME NEW n \in DOMAIN iters
          PROVE  [s[n] EXCEPT !.at = 1] = s[n]
      <3>1. CASE iters[n] = Parked
        <4>1. s[n] = [at |-> 1, ended |-> TRUE]
          BY <3>1 DEF IteratorsOf, IteratorOf
        <4> QED
          BY <4>1
      <3>2. CASE iters[n] # Parked
        <4>1. iters[n] = 0
          BY <1>3, <3>2
        <4>2. s[n] = [at |-> 1, ended |-> FALSE]
          BY <3>2, <4>1 DEF IteratorsOf, IteratorOf
        <4> QED
          BY <4>2
      <3> QED
        BY <3>1, <3>2
    <2>3. s = [n \in DOMAIN iters |-> s[n]]
      BY DEF IteratorsOf
    <2> HIDE DEF s
    <2> QED
      BY <2>1, <2>2, <2>3
  <1>6. IteratorsOf(iters') = s
    BY <1>2
  <1> QED
    BY <1>2, <1>4, <1>5, <1>6 DEF Abstract!Clear, ListOf, IteratorsOf, IteratorOf

\* A new iterator.
LEMMA NewIteratorRefines ==
    ASSUME TableInv, NewIterator
    PROVE  Abstract!NewIterator
  <1>1. iters \in Seq(Nat)
    BY DEF TableInv
  <1>2. iters' = Append(iters, 0) /\ m' = m /\ out' = <<"none", Null>>
    BY DEF NewIterator
  <1> DEFINE s == IteratorsOf(iters)
             t == IteratorsOf(iters')
             a == [at |-> 1, ended |-> FALSE]
             T == [at : Nat, ended : BOOLEAN]
             L == Len(iters)
  <1>3. /\ DOMAIN iters = 1..L
        /\ DOMAIN iters' = 1..(L + 1)
        /\ \A n \in 1..L : iters'[n] = iters[n]
        /\ iters'[L + 1] = 0
        /\ L \in Nat
        /\ \A n \in 1..L : iters[n] \in Nat
    BY <1>1, <1>2
  <1>4. ASSUME NEW n \in 1..L
        PROVE  s[n] = IteratorOf(iters[n]) /\ t[n] = IteratorOf(iters[n])
    BY <1>3 DEF IteratorsOf
  <1>5. t[L + 1] = a
    <2>1. t[L + 1] = IteratorOf(0)
      <3>1. L + 1 \in 1..(L + 1)
        BY <1>3
      <3> QED
        BY <1>3, <3>1 DEF IteratorsOf
    <2> QED
      BY <2>1 DEF IteratorOf, Parked
  <1>6. \A n \in 1..L : IteratorOf(iters[n]) \in T
    <2>1. \A c \in Nat : IteratorOf(c) \in T
      BY DEF IteratorOf
    <2> QED
      BY <1>3, <2>1
  <1>7. s = [n \in 1..L |-> s[n]] /\ t = [n \in 1..(L + 1) |-> t[n]]
    BY <1>3 DEF IteratorsOf
  <1>8. a \in T
    OBVIOUS
  <1> HIDE DEF s, t, a, T, L
  <1>9. s \in [1..L -> T] /\ t \in [1..(L + 1) -> T]
    <2>1. \A n \in 1..L : s[n] \in T
      BY <1>4, <1>6
    <2>2. \A n \in 1..(L + 1) : t[n] \in T
      BY <1>3, <1>4, <1>5, <1>6, <1>8
    <2> QED
      BY <1>7, <2>1, <2>2
  <1>10. s \in Seq(T) /\ Len(s) = L /\ t \in Seq(T) /\ Len(t) = L + 1
    BY <1>3, <1>9
  <1>11. t = Append(s, a)
    BY <1>3, <1>4, <1>5, <1>8, <1>10
  <1>12. IteratorsOf(iters') = Append(IteratorsOf(iters), [at |-> 1, ended |-> FALSE])
    BY <1>11 DEF s, t, a
  <1> QED
    BY <1>2, <1>12 DEF Abstract!NewIterator, IteratorsOf, IteratorOf

\* A step of an iterator: the entries before it are those before the cursor.
LEMMA IterNextRefines ==
    ASSUME MaxEntries < Parked, MapInv, NEW n \in DOMAIN iters, IterNext(n)
    PROVE  Abstract!Advance(n)
  <1> DEFINE N == m.entryCount
             s == ListOf(m)
             t == IteratorsOf(iters)
             rest == LiveFrom(m, iters[n])
             Ahead == {j \in DOMAIN s : ~t[n].ended /\ j >= t[n].at /\ s[j] # Null}
             j == Min(rest)
  <1>1. /\ N \in Nat
        /\ N <= MaxEntries
        /\ Distinct(m)
        /\ iters \in Seq(Nat)
        /\ MaxEntries \in Nat
    BY MapAssumption DEF MapInv, TableInv, SoundTable, Chained, Table, Filled
  <1>2. iters[n] \in Nat /\ DOMAIN t = DOMAIN iters
    BY <1>1 DEF IteratorsOf
  <1>3. t[n] = IteratorOf(iters[n])
    BY DEF IteratorsOf
  <1>4. /\ DOMAIN s = 1..N
        /\ \A i \in 1..N : /\ s[i] = IF i - 1 \in LiveEntries(m) THEN Pair(m, i - 1) ELSE Null
                           /\ i - 1 \in LiveEntries(m) => s[i] # Null
    BY <1>1, ListShape
  <1>5. \A i \in Int : i \in rest <=> i \in LiveEntries(m) /\ i >= iters[n]
    BY <1>1, <1>2 DEF LiveFrom, LiveEntries, Used
  <1>6. rest \subseteq Nat /\ \A i \in rest : i < N /\ i \in LiveEntries(m)
    BY <1>1, <1>2, SMTT(30) DEF LiveFrom, LiveEntries, Used
  <1>7. \A i \in LiveEntries(m) : i \in 0..(N - 1)
    BY DEF LiveEntries, Used
  <1>8. /\ IF rest = {}
           THEN out' = <<"next", Null>> /\ iters' = [iters EXCEPT ![n] = Ended]
           ELSE out' = <<"next", Pair(m, j)>> /\ iters' = [iters EXCEPT ![n] = j + 1]
        /\ m' = m
    BY DEF IterNext
  <1> HIDE DEF N, s, t, rest, j
  <1>9. \A i \in 1..N : i \in Ahead <=> i - 1 \in rest
    <2> SUFFICES ASSUME NEW i \in 1..N
                 PROVE  i \in Ahead <=> i - 1 \in rest
      OBVIOUS
    <2>1. i - 1 \in rest <=> i - 1 \in LiveEntries(m) /\ i - 1 >= iters[n]
      BY <1>5
    <2>2. s[i] # Null <=> i - 1 \in LiveEntries(m)
      BY <1>4
    <2>3. i - 1 < Parked
      BY <1>1 DEF Parked
    <2>4. ~t[n].ended /\ i >= t[n].at <=> i - 1 >= iters[n]
      <3>1. CASE iters[n] = Parked
        <4>1. t[n].ended
          BY <1>3, <3>1 DEF IteratorOf
        <4>2. ~(i - 1 >= iters[n])
          BY <1>2, <2>3, <3>1
        <4> QED
          BY <4>1, <4>2
      <3>2. CASE iters[n] # Parked
        <4>1. ~t[n].ended /\ t[n].at = iters[n] + 1
          BY <1>3, <3>2 DEF IteratorOf
        <4> QED
          BY <1>2, <4>1
      <3> QED
        BY <3>1, <3>2
    <2> QED
      BY <1>4, <2>1, <2>2, <2>4
  <1>10. Ahead \subseteq 1..N
    BY <1>4
  <1> HIDE DEF Ahead
  <1>11. CASE rest = {}
    <2>1. Ahead = {}
      BY <1>9, <1>10, <1>11
    <2>2. iters' = [iters EXCEPT ![n] = Parked] /\ out' = <<"next", Null>>
      BY <1>8, <1>11 DEF Ended
    <2>3. IteratorsOf(iters') = [t EXCEPT ![n] = [at |-> 1, ended |-> TRUE]]
      BY <2>2 DEF IteratorsOf, IteratorOf, t
    <2> QED
      BY <1>2, <1>8, <2>1, <2>2, <2>3 DEF Abstract!Advance, Abstract!Ahead, Ahead, s, t, ListOf, IteratorsOf, IteratorOf
  <1>12. CASE rest # {}
    <2>1. j \in rest /\ \A i \in rest : j <= i
      <3>1. \E i \in rest : \A k \in rest : i <= k
        BY <1>6, <1>12, LeastNat
      <3> QED
        BY <3>1 DEF Min, j
    <2>2. j \in Nat /\ j < N /\ j \in LiveEntries(m)
      BY <1>6, <2>1
    <2>3. j + 1 \in Ahead
      <3>1. j + 1 \in 1..N /\ (j + 1) - 1 = j
        BY <1>1, <2>2
      <3> QED
        BY <1>9, <2>1, <3>1
    <2>4. \A i \in Ahead : j + 1 <= i
      <3> SUFFICES ASSUME NEW i \in Ahead
                   PROVE  j + 1 <= i
        OBVIOUS
      <3>1. i \in 1..N /\ i - 1 \in rest
        BY <1>9, <1>10
      <3>2. j <= i - 1
        BY <2>1, <3>1
      <3> QED
        BY <1>1, <2>2, <3>1, <3>2
    <2>5. Min(Ahead) = j + 1
      <3>1. \A i \in Ahead : i \in Int
        BY <1>1, <1>10
      <3>2. \A i \in Ahead : (\A k \in Ahead : i <= k) => i = j + 1
        BY <2>2, <2>3, <2>4, <3>1
      <3> QED
        BY <2>3, <2>4, <3>2 DEF Min
    <2>6. s[j + 1] = Pair(m, j)
      <3>1. j + 1 \in 1..N /\ (j + 1) - 1 = j
        BY <1>1, <2>2
      <3> QED
        BY <1>4, <2>2, <3>1
    <2>7. iters' = [iters EXCEPT ![n] = j + 1] /\ out' = <<"next", s[j + 1]>>
      BY <1>8, <1>12, <2>6
    <2>8. t[n] = [at |-> iters[n] + 1, ended |-> FALSE]
      <3>1. iters[n] # Parked
        BY <1>1, <1>2, <1>5, <2>1, <2>2
      <3> QED
        BY <1>3, <3>1 DEF IteratorOf
    <2>9. j + 1 # Parked
      BY <1>1, <2>2
    <2>10. [t EXCEPT ![n].at = (j + 1) + 1] = [t EXCEPT ![n] = [at |-> (j + 1) + 1, ended |-> FALSE]]
      <3> DEFINE a == (j + 1) + 1
                 c == iters[n] + 1
      <3>1. [t EXCEPT ![n].at = a] = [t EXCEPT ![n] = [t[n] EXCEPT !.at = a]]
        OBVIOUS
      <3> HIDE DEF a, c
      <3>2. [[at |-> c, ended |-> FALSE] EXCEPT !.at = a] = [at |-> a, ended |-> FALSE]
        OBVIOUS
      <3>3. t[n] = [at |-> c, ended |-> FALSE]
        BY <2>8 DEF c
      <3> QED
        BY <3>1, <3>2, <3>3 DEF a
    <2>11. IteratorsOf(iters') = [t EXCEPT ![n] = [at |-> (j + 1) + 1, ended |-> FALSE]]
      BY <2>7, <2>9 DEF IteratorsOf, IteratorOf, t
    <2>12. Ahead # {}
      BY <2>3
    <2>13. /\ out' = <<"next", s[Min(Ahead)]>>
           /\ IteratorsOf(iters') = [t EXCEPT ![n].at = Min(Ahead) + 1]
      BY <2>5, <2>7, <2>10, <2>11
    <2>14. Abstract!Ahead(n) = Ahead
      BY DEF Abstract!Ahead, Ahead, s, t, ListOf, IteratorsOf, IteratorOf
    <2>15. Abstract!Min(Ahead) = Min(Ahead)
      BY DEF Abstract!Min, Min
    <2>16. /\ n \in DOMAIN IteratorsOf(iters)
           /\ Abstract!Ahead(n) # {}
           /\ out' = <<"next", ListOf(m)[Abstract!Min(Abstract!Ahead(n))]>>
           /\ IteratorsOf(iters') = [IteratorsOf(iters) EXCEPT ![n].at = Abstract!Min(Abstract!Ahead(n)) + 1]
           /\ ListOf(m') = ListOf(m)
      BY <1>2, <1>8, <2>12, <2>13, <2>14, <2>15 DEF s, t
    <2> QED
      BY <2>16 DEF Abstract!Advance, ListOf, IteratorsOf, IteratorOf
  <1> QED
    BY <1>11, <1>12

\* Where no key is a view of a longer string and no map is cleared under an
\* iterator: every set, delete, clear and step of an iterator or of forEach
\* changes the table, moves the cursors and gives a result as the list of
\* OrderedMap does, for any number of entries an i32 cursor can count.
THEOREM TableIsTheList ==
    ASSUME Sliced = {}, ~ClearWhileWalking, MaxEntries < Parked
    PROVE  Spec => ImplementsOrderedMap
  <1>1. Init => Abstract!AbstractInit
    <2> SUFFICES ASSUME Init
                 PROVE  Abstract!AbstractInit
      OBVIOUS
    <2>1. m.entryCount = 0 /\ iters = <<>> /\ out = <<"none", Null>>
      BY NewSound DEF Init
    <2>2. ListOf(m) = <<>> /\ IteratorsOf(iters) = <<>>
      BY <2>1 DEF ListOf, IteratorsOf
    <2> QED
      BY <2>1, <2>2 DEF Abstract!AbstractInit, ListOf, IteratorsOf, IteratorOf
  <1>2. MapInv /\ MapInv' /\ [Next]_vars =>
            [Abstract!AbstractNext]_<<ListOf(m), IteratorsOf(iters), out>>
    <2> SUFFICES ASSUME MapInv, MapInv', [Next]_vars
                 PROVE  [Abstract!AbstractNext]_<<ListOf(m), IteratorsOf(iters), out>>
      OBVIOUS
    <2>1. \A k \in Key : k.content \in Content
      BY MapAssumption DEF Key
    <2>2. ASSUME NEW k \in Key, NEW v \in Value, Set(k, v)
          PROVE  Abstract!AbstractNext
      BY <2>1, <2>2, SetRefines DEF Abstract!AbstractNext
    <2>3. ASSUME NEW k \in Key, Delete(k)
          PROVE  Abstract!AbstractNext
      BY <2>1, <2>3, DeleteRefines DEF Abstract!AbstractNext
    <2>4. CASE Clear
      BY <2>4, ClearRefines DEF Abstract!AbstractNext, MapInv
    <2>5. CASE NewIterator
      BY <2>5, NewIteratorRefines DEF Abstract!AbstractNext, MapInv
    <2>6. ASSUME NEW n \in DOMAIN iters, IterNext(n)
          PROVE  Abstract!AbstractNext
      <3>1. Abstract!Advance(n)
        BY <2>6, IterNextRefines
      <3> QED
        BY <3>1 DEF Abstract!AbstractNext
    <2>7. CASE UNCHANGED vars
      BY <2>7 DEF vars
    <2> QED
      BY <2>2, <2>3, <2>4, <2>5, <2>6, <2>7 DEF Next
  <1> QED
    BY <1>1, <1>2, MapInvHolds, PTL DEF Spec, ImplementsOrderedMap, Abstract!OrderedMapSpec, ListOf, IteratorsOf, IteratorOf
=============================================================================
