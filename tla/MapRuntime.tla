------------------------------ MODULE MapRuntime ------------------------------
(***************************************************************************)
(* The native Map and Set of standalone and WASI modules: the emitted      *)
(* functions of src/codegen/map-runtime.ts.  Entries are kept in a vector  *)
(* in the order of insertion, and chained per bucket through their next    *)
(* fields; a deleted entry stays in both, as a tombstone.  Iterators and   *)
(* the loop of forEach hold an index into the vector while the program     *)
(* goes on changing the map.                                               *)
(*                                                                         *)
(* A key stands for what it contains and for how it is represented: a      *)
(* string taken out of a longer one is a view of the longer one's code     *)
(* units.  Contents are numbers, and two neighbours share a hash.          *)
(***************************************************************************)
EXTENDS Integers, Sequences, FiniteSets, FiniteSetsExt

CONSTANTS
    InitCap,      \* initial number of buckets and of entries (8 in the code)
    Content,      \* contents of keys
    Sliced,       \* the contents that also occur as views of longer strings
    Value,        \* values
    Null,         \* null, and the missing value
    MaxEntries,   \* (bound) entries put into one vector
    MaxIterators, \* (bound) iterators
    ClearWhileWalking \* whether the program clears a map under an iterator

ASSUME MapAssumption ==
    /\ InitCap \in Nat \ {0} /\ MaxEntries \in Nat /\ MaxIterators \in Nat
    /\ Content \subseteq Nat /\ Sliced \subseteq Content
    /\ ClearWhileWalking \in BOOLEAN

VARIABLES
    m,     \* the $Map: [buckets, entries, entryCount, liveCount]
    iters, \* the cursors of the $MapIter records
    out    \* what the last operation returned, tagged with its name

vars == <<m, iters, out>>

Key == [content : Content, view : {FALSE}] \cup [content : Sliced, view : {TRUE}]

\* __hash_anyref: a string is hashed over the whole array it is stored in, so
\* a view has the hash of the longer string.
Hash(k) == IF k.view THEN k.content \div 2 + 1 ELSE k.content \div 2

\* __same_value_zero.
SameValueZero(a, b) == a.content = b.content

\* A key, an entry and what a walk hands out of one are not null.
ASSUME NotNullAssumption ==
    /\ \A k \in Key : k # Null
    /\ \A k \in Content, v \in Value : [key |-> k, value |-> v] # Null
    /\ \A e \in [key : Key \cup {Null}, value : Value \cup {Null}, next : -1..MaxEntries,
                 hash : {Hash(k) : k \in Key}, tombstone : BOOLEAN] : e # Null

\* The cursor of an iterator that has ended.
Parked == 2147483647
-----------------------------------------------------------------------------
NewMap ==
    [buckets |-> [b \in 0..InitCap - 1 |-> -1],
     entries |-> [i \in 0..InitCap - 1 |-> Null],
     entryCount |-> 0, liveCount |-> 0]

Cap(x) == Cardinality(DOMAIN x.buckets)

IsLive(x, i) == ~x.entries[i].tombstone

\* The entries that a walk from index i has before it.
LiveFrom(x, i) == {j \in i..x.entryCount - 1 : IsLive(x, j)}

\* The walk of the chain of bucket b: where it is after n steps.
Chain(x, b) ==
    LET at[n \in 0..x.entryCount] ==
            IF n = 0 THEN x.buckets[b]
            ELSE IF at[n - 1] < 0 THEN -1 ELSE x.entries[at[n - 1]].next
    IN  at

\* __map_lookup_idx: the first live entry of the chain with this key.
LookupIdx(x, k) ==
    LET at == Chain(x, Hash(k) % Cap(x))
        hits == {n \in 0..x.entryCount :
                    at[n] >= 0 /\ IsLive(x, at[n]) /\ SameValueZero(x.entries[at[n]].key, k)}
    IN  IF hits = {} THEN -1 ELSE at[Min(hits)]

\* A full vector is copied into one of twice the length.
GrowEntries(x) ==
    LET len == Cardinality(DOMAIN x.entries)
    IN  IF x.entryCount < len THEN x
        ELSE [x EXCEPT !.entries = [i \in 0..2 * len - 1 |-> IF i < len THEN @[i] ELSE Null]]

\* Entry i becomes the head of the chain of its bucket.
Link(x, i) ==
    LET b == x.entries[i].hash % Cap(x)
    IN  [x EXCEPT !.entries[i].next = x.buckets[b], !.buckets[b] = i]

\* The live entries are linked, in the order of the vector.
LinkLive(x) ==
    LET linked[n \in 0..x.entryCount] ==
            IF n = 0 THEN x
            ELSE IF IsLive(x, n - 1) THEN Link(linked[n - 1], n - 1) ELSE linked[n - 1]
    IN  linked[x.entryCount]

\* Rehash that keeps the old chains.
RehashInPlace(x) ==
    IF x.liveCount * 4 <= Cap(x) * 3 THEN x
    ELSE [x EXCEPT !.buckets = [b \in 0..2 * Cap(x) - 1 |-> IF b < Cap(x) THEN @[b] ELSE -1]]

\* Rehash that does not empty the buckets before linking.
RehashKeepingHeads(x) ==
    IF x.liveCount * 4 <= Cap(x) * 3 THEN x
    ELSE LinkLive([x EXCEPT !.buckets = [b \in 0..2 * Cap(x) - 1 |-> IF b < Cap(x) THEN @[b] ELSE -1]])

\* Above three quarters the buckets are doubled and the live entries linked
\* anew; the vector is not compacted.
Rehash(x) ==
    IF x.liveCount * 4 <= Cap(x) * 3 THEN x
    ELSE LinkLive([x EXCEPT !.buckets = [b \in 0..2 * Cap(x) - 1 |-> -1]])

\* A new entry at the end of the vector.
Appended(x, k, v) ==
    LET g == GrowEntries(x)
        e == [key |-> k, value |-> v, next |-> -1, hash |-> Hash(k), tombstone |-> FALSE]
        n == x.entryCount
    IN  Rehash([Link([g EXCEPT !.entries[n] = e], n) EXCEPT !.entryCount = @ + 1, !.liveCount = @ + 1])

\* Entry i becomes a tombstone.
Removed(x, i) ==
    [x EXCEPT !.entries[i] = [@ EXCEPT !.tombstone = TRUE, !.key = Null, !.value = Null],
              !.liveCount = @ - 1]

\* What a walk hands out of entry j.
Pair(x, j) == [key |-> x.entries[j].key.content, value |-> x.entries[j].value]

\* __map_get, __map_has and __map_size.
Get(x, k) == LET i == LookupIdx(x, k) IN IF i < 0 THEN Null ELSE x.entries[i].value

Has(x, k) == LookupIdx(x, k) # -1

Size(x) == x.liveCount

\* The eager vector behind spread, Array.from and for-of: an array of
\* liveCount slots is filled with the live entries; one more would trap.
Snapshot(x) ==
    LET filled[n \in 0..x.entryCount] ==
            IF n = 0 THEN <<>>
            ELSE IF IsLive(x, n - 1) THEN Append(filled[n - 1], Pair(x, n - 1)) ELSE filled[n - 1]
    IN  IF Len(filled[x.entryCount]) > x.liveCount THEN Null ELSE filled[x.entryCount]
-----------------------------------------------------------------------------
(***************************************************************************)
(* The operations that change something.                                   *)
(***************************************************************************)
Init == m = NewMap /\ iters = <<>> /\ out = <<"none", Null>>

Set(k, v) ==
    LET i == LookupIdx(m, k)
    IN  /\ \/ i >= 0 /\ m' = [m EXCEPT !.entries[i].value = v]
           \/ i < 0 /\ m.entryCount < MaxEntries /\ m' = Appended(m, k, v)
        /\ out' = <<"none", Null>>
        /\ UNCHANGED iters

Delete(k) ==
    LET i == LookupIdx(m, k)
    IN  /\ \/ i >= 0 /\ m' = Removed(m, i)
           \/ i < 0 /\ UNCHANGED m
        /\ out' = <<"delete", i >= 0>>
        /\ UNCHANGED iters

\* An iterator that has handed something out and has not ended.
Walking(index) == index > 0 /\ index # Parked

Clear ==
    /\ ClearWhileWalking \/ \A n \in DOMAIN iters : ~Walking(iters[n])
    /\ m' = NewMap
    /\ out' = <<"none", Null>>
    /\ UNCHANGED iters

\* __map_iter_new, or the start of a forEach.
NewIterator ==
    /\ Len(iters) < MaxIterators
    /\ iters' = Append(iters, 0)
    /\ out' = <<"none", Null>>
    /\ UNCHANGED m

\* Ended that leaves the cursor where it is.
EndedUnparked == m.entryCount

\* The iterator finds nothing more, for good.
Ended == Parked

\* __map_iter_next, and one turn of forEach's loop: from the index on, skip
\* the tombstones.
IterNext(n) ==
    LET rest == LiveFrom(m, iters[n])
        j == Min(rest)
    IN  /\ IF rest = {}
           THEN out' = <<"next", Null>> /\ iters' = [iters EXCEPT ![n] = Ended]
           ELSE out' = <<"next", Pair(m, j)>> /\ iters' = [iters EXCEPT ![n] = j + 1]
        /\ UNCHANGED m

Next ==
    \/ \E k \in Key : \E v \in Value : Set(k, v)
    \/ \E k \in Key : Delete(k)
    \/ Clear
    \/ NewIterator
    \/ \E n \in DOMAIN iters : IterNext(n)

Spec == Init /\ [][Next]_vars
-----------------------------------------------------------------------------
(***************************************************************************)
(* Properties.                                                             *)
(***************************************************************************)
\* Type invariant: counts, links and cursors are in range, and every slot
\* below entryCount holds an entry.
TypeOK ==
    /\ m.entryCount \in 0..Cardinality(DOMAIN m.entries)
    /\ m.liveCount \in 0..m.entryCount
    /\ \A b \in DOMAIN m.buckets : m.buckets[b] \in -1..m.entryCount - 1
    /\ \A i \in 0..m.entryCount - 1 : m.entries[i] # Null /\ m.entries[i].next \in -1..m.entryCount - 1
    /\ iters \in Seq(Nat)

\* A key is found exactly if an entry with the same content is live, whatever
\* was deleted, grown and rehashed since, and however the key came about.
FindsByContent ==
    \A k \in Key :
        Has(m, k) <=> \E i \in LiveFrom(m, 0) : SameValueZero(m.entries[i].key, k)

\* No chain runs in a circle or from one bucket into the next, and the live
\* entries of one bucket are those whose hash says so: what the walk of a
\* chain, which has no bound in the code, relies on.
ChainsDescend ==
    /\ \A i \in 0..m.entryCount - 1 : m.entries[i].next < i
    /\ \A b \in DOMAIN m.buckets :
          m.buckets[b] >= 0 => m.entries[m.buckets[b]].hash % Cap(m) = b

\* The representation invariant of the table: counts, cursors and links are
\* in range, and every walk of a chain ends.
TableSound == TypeOK /\ ChainsDescend

Abstract == INSTANCE OrderedMap WITH
    Empty <- Null,
    list <- [i \in 1..m.entryCount |-> IF IsLive(m, i - 1) THEN Pair(m, i - 1) ELSE Null],
    iters <- [n \in DOMAIN iters |->
                 IF iters[n] = Parked THEN [at |-> 1, ended |-> TRUE]
                 ELSE [at |-> iters[n] + 1, ended |-> FALSE]]

\* Every lookup, the size and the eager vector agree with the list of entries
\* in insertion order, after any growing, rehashing, deleting and clearing.
ReadsAgree ==
    /\ \A k \in Key : /\ Get(m, k) = Abstract!Lookup(k.content)
                      /\ Has(m, k) <=> Abstract!Places(k.content) # {}
    /\ Size(m) = Len(Abstract!Live)
    /\ Snapshot(m) = Abstract!Live

\* The hash table with its growing, rehashing and tombstones changes like a
\* list of entries in insertion order: every set, result of delete and step
\* of an iterator is the one that the list gives.
ImplementsOrderedMap == Abstract!OrderedMapSpec
=============================================================================
