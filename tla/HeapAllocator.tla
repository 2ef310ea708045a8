---------------------------- MODULE HeapAllocator ----------------------------
(***************************************************************************)
(* The boundary-tag allocator of the linear backend, emitted by            *)
(* src/codegen-linear/heap-allocator.ts: __heap_alloc, __heap_calloc,      *)
(* __heap_free, __heap_realloc and what they call.                         *)
(*                                                                         *)
(* Memory is a function from word addresses to integers, headers, links    *)
(* and footers being words of it as in the code:                           *)
(*                                                                         *)
(*   in use:  size + 2 PINUSE + INUSE | payload                            *)
(*   free:    size + 2 PINUSE | next | prev | ... | size                   *)
(*                                                                         *)
(* The control block is kept apart (bins, next), but takes its place at    *)
(* the head of the first region.  Its statistics are left out.             *)
(*                                                                         *)
(* The callers are the environment: they fill every word that malloc and   *)
(* realloc give them with a mark of their own and expect to find it there, *)
(* and they free or reallocate only what they own.                         *)
(***************************************************************************)
EXTENDS Integers, Sequences, FiniteSets, TLC

CONSTANTS
    NSmall,         \* NSMALL, exact-size bins
    NLarge,         \* NLARGE, power-of-two bins
    LargeShift,     \* the 8 of __heap_bin: log2 of the first size of the first large bin
    CtlBytes,       \* CTL_BYTES
    RegionBytes,    \* regionBytes
    MaxRegionBytes, \* MAX_REGION_BYTES
    MaxRequest,     \* 0x7ffffff0
    Modulus,        \* 2^32
    Skews,          \* misalignments of the regions that the source returns
    MemBytes,       \* bound: bytes of memory
    Requests,       \* sizes that the callers ask for
    CallocCounts,   \* counts and sizes that they pass to calloc
    CallocSizes,
    MaxLive         \* bound: blocks in use

HDR == 4
MIN_BLOCK == 16
NBins == NSmall + NLarge
SmallMax == MIN_BLOCK + 8 * (NSmall - 1)
Words == {4 * k : k \in 0..(MemBytes \div 4 - 1)}

ASSUME BinsAssumption ==
    /\ NSmall \in Nat \ {0} /\ NLarge \in Nat \ {0}
    /\ LargeShift \in Nat /\ 2^LargeShift <= SmallMax + 8
ASSUME RegionsAssumption ==
    /\ CtlBytes \in Nat /\ CtlBytes % 8 = 0 /\ CtlBytes >= 24
    /\ {RegionBytes, MaxRegionBytes, MemBytes, MaxLive} \subseteq Nat
ASSUME RequestsAssumption ==
    /\ Requests \cup CallocCounts \cup CallocSizes \subseteq Nat
    /\ MaxRequest + 16 < Modulus

VARIABLES
    heap,       \* the allocator and its memory
    live,       \* the callers' blocks: payload |-> the mark and the bytes asked for
    regions     \* history: the first block and the epilogue of every region

vars == <<heap, live, regions>>
-----------------------------------------------------------------------------
(***************************************************************************)
(* Words and blocks of a memory m.                                         *)
(***************************************************************************)
Smaller(a, b) == IF a < b THEN a ELSE b
Larger(a, b) == IF a > b THEN a ELSE b
Align8(a) == 8 * ((a + 7) \div 8)
Align8Down(a) == 8 * (a \div 8)

Header(size, pinuse, inuse) ==
    size + (IF pinuse THEN 2 ELSE 0) + (IF inuse THEN 1 ELSE 0)
InUse(m, b) == m[b] % 2 = 1
PInUse(m, b) == (m[b] \div 2) % 2 = 1
Size(m, b) == Align8Down(m[b])

\* Stores, the words of f replacing those of h's memory.
Store(h, f) == [h EXCEPT !.mem = f @@ @]
SetPInUse(m, b, pinuse) == b :> Header(Size(m, b), pinuse, InUse(m, b))

Log2(n) == CHOOSE e \in 0..31 : 2^e <= n /\ n < 2^(e + 1)

\* __heap_bin
Bin(size) ==
    IF size <= SmallMax THEN size \div 8 - MIN_BLOCK \div 8
    ELSE NSmall + Smaller(NLarge - 1, Log2(size) - LargeShift)

\* __heap_insert
Insert(h, b, size) ==
    LET head == h.bins[Bin(size)]
        link == (b + 4 :> head) @@ (b + 8 :> 0)
    IN  [Store(h, IF head = 0 THEN link ELSE link @@ (head + 8 :> b))
            EXCEPT !.bins[Bin(size)] = b]

\* Unlink that forgets the back link when the node has a neighbour before it.
UnlinkNotMiddle(h, b) ==
    LET nxt == h.mem[b + 4]
        prv == h.mem[b + 8]
        cut == IF prv = 0 THEN [h EXCEPT !.bins[Bin(Size(h.mem, b))] = nxt]
                          ELSE Store(h, prv + 4 :> nxt)
    IN  IF nxt = 0 \/ prv # 0 THEN cut ELSE Store(cut, nxt + 8 :> prv)

\* __heap_unlink
Unlink(h, b) ==
    LET nxt == h.mem[b + 4]
        prv == h.mem[b + 8]
        cut == IF prv = 0 THEN [h EXCEPT !.bins[Bin(Size(h.mem, b))] = nxt]
                          ELSE Store(h, prv + 4 :> nxt)
    IN  IF nxt = 0 THEN cut ELSE Store(cut, nxt + 8 :> prv)

\* The free list of a bin as a sequence of nodes, 0 behind the last one.
Node(h, i) ==
    LET node[n \in 0..(MemBytes \div MIN_BLOCK)] ==
            IF n = 0 THEN h.bins[i]
            ELSE LET before == node[n - 1]
                 IN  IF before = 0 THEN 0 ELSE h.mem[before + 4]
    IN  node

\* Fits of a search that does not walk on from the first node of a bin.
FitsHead(h, i, blk) ==
    LET node == Node(h, i)
    IN  {n \in {0} : node[n] # 0 /\ (i < NSmall \/ Size(h.mem, node[n]) >= blk)}

\* Nodes of bin i that __heap_find would return for a block of blk bytes.
Fits(h, i, blk) ==
    LET node == Node(h, i)
    IN  {n \in DOMAIN node : node[n] # 0 /\ (i < NSmall \/ Size(h.mem, node[n]) >= blk)}

\* Bins that __heap_find looks at.
BinsFrom(blk) == Bin(blk)..(NBins - 1)

\* __heap_find
Find(h, blk) ==
    LET found == {i \in BinsFrom(blk) : Fits(h, i, blk) # {}}
        first == CHOOSE i \in found : \A j \in found : i <= j
        fits  == Fits(h, first, blk)
        n     == CHOOSE k \in fits : \A j \in fits : k <= j
    IN  IF found = {} THEN 0 ELSE Node(h, first)[n]
-----------------------------------------------------------------------------
(***************************************************************************)
(* Regions.  The source (the host's malloc, or memory.grow) returns fresh  *)
(* memory or fails, as it likes.                                           *)
(***************************************************************************)
RegionsAt(h, n) == {p \in {h.brk + skew : skew \in Skews} : p + n <= MemBytes}

Base(p) == Align8(p) + HDR
Epilogue(p, n) == Align8Down(p + n - 8) + HDR

\* __heap_install
Install(h, p, n) ==
    LET size == Epilogue(p, n) - Base(p)
    IN  Insert(Store(h, (Base(p) :> Header(size, TRUE, FALSE))
                     @@ (Base(p) + size - HDR :> size)
                     @@ (Epilogue(p, n) :> Header(0, FALSE, TRUE))), Base(p), size)
Installable(p, n) ==
    /\ n >= MIN_BLOCK + 16
    /\ Epilogue(p, n) - Base(p) >= MIN_BLOCK

FirstRegion == Larger(RegionBytes, CtlBytes + MIN_BLOCK + 32)

\* A heap with a region more, and where the blocks of the region lie.
Grown(h, p, n, next, brk) ==
    [heap  |-> [Install(h, p, n) EXCEPT !.next = next, !.brk = brk],
     grown |-> <<[base |-> Base(p), epi |-> Epilogue(p, n)]>>]

\* __heap_init, when it succeeds: the control block, then a region.
Initialised(h) ==
    {Grown([h EXCEPT !.ready = TRUE],
           Align8(p) + CtlBytes, p + FirstRegion - Align8(p) - CtlBytes,
           Smaller(2 * FirstRegion, MaxRegionBytes), p + FirstRegion) :
        p \in RegionsAt(h, FirstRegion)}

\* The smallest region for a block.
Floor(need) == need + CtlBytes

\* __heap_more, when it succeeds: at the size it wants or, if the source
\* refuses that, at the smallest size that will do.
More(h, need) ==
    UNION {{Grown(h, p, want, Smaller(2 * want, MaxRegionBytes), p + want) :
                p \in {q \in RegionsAt(h, want) : Installable(q, want)}} :
           want \in {Larger(h.next, Floor(need)), Floor(need)}}
-----------------------------------------------------------------------------
(***************************************************************************)
(* The entry points, as functions of the heap.                             *)
(***************************************************************************)
BlockFor(size) == Larger(Align8Down(size + HDR + 7), MIN_BLOCK)
Usable(m, ptr) == Size(m, ptr - HDR) - HDR

\* What __heap_alloc does with the free block b that it found.
Carve(h, b, blk) ==
    LET s   == Size(h.mem, b)
        rem == s - blk
        cut == Unlink(h, b)
    IN  IF rem >= MIN_BLOCK
        THEN Insert(Store(cut, (b :> Header(blk, PInUse(h.mem, b), TRUE))
                            @@ (b + blk :> Header(rem, TRUE, FALSE))
                            @@ (b + s - HDR :> rem)), b + blk, rem)
        ELSE Store(cut, (b :> Header(s, PInUse(h.mem, b), TRUE))
                     @@ SetPInUse(h.mem, b + s, TRUE))

\* Results of a call: the heap, the payload or 0, and the regions acquired.
Result(h, ptr, grown) == [heap |-> h, ptr |-> ptr, grown |-> grown]
Served(f, blk) ==
    LET b == Find(f.heap, blk)
    IN  IF b = 0 THEN Result(f.heap, 0, f.grown)
                 ELSE Result(Carve(f.heap, b, blk), b + HDR, f.grown)

\* __heap_alloc from a heap that is initialised.
ServedOrGrown(f, blk) ==
    IF Find(f.heap, blk) # 0 THEN {Served(f, blk)}
    ELSE {Result(f.heap, 0, f.grown)}
         \cup {Served([g EXCEPT !.grown = f.grown \o @], blk) : g \in More(f.heap, blk)}

\* __heap_alloc: every outcome, the source being free to fail.
AllocResults(h, size) ==
    IF size > MaxRequest THEN {Result(h, 0, <<>>)}
    ELSE IF h.ready THEN ServedOrGrown([heap |-> h, grown |-> <<>>], BlockFor(size))
    ELSE {Result(h, 0, <<>>)}
         \cup UNION {ServedOrGrown(f, BlockFor(size)) : f \in Initialised(h)}

\* __heap_free of the block b: merged with its free neighbours, and filed.
FreeBlock(h, b) ==
    LET nb       == b + Size(h.mem, b)
        forward  == ~InUse(h.mem, nb)
        backward == ~PInUse(h.mem, b)
        before   == h.mem[b - HDR]
        first    == IF backward THEN b - before ELSE b
        size     == Size(h.mem, b) + (IF forward THEN Size(h.mem, nb) ELSE 0)
                                   + (IF backward THEN before ELSE 0)
        h1       == IF forward THEN Unlink(h, nb) ELSE h
        h2       == IF backward THEN Unlink(h1, first) ELSE h1
    IN  Insert(Store(h2, (first :> Header(size, PInUse(h.mem, first), FALSE))
                      @@ (first + size - HDR :> size)
                      @@ SetPInUse(h.mem, first + size, FALSE)), first, size)

\* __heap_realloc's shrinkTail.
ShrinkTail(h, b, blk) ==
    LET s == Size(h.mem, b)
    IN  IF s - blk < MIN_BLOCK THEN h
        ELSE FreeBlock(Store(h, (b :> Header(blk, PInUse(h.mem, b), TRUE))
                             @@ (b + blk :> Header(s - blk, TRUE, TRUE))), b + blk)

\* The block b takes the free block behind it.
Absorb(h, b) ==
    LET nb == b + Size(h.mem, b)
        s  == Size(h.mem, b) + Size(h.mem, nb)
    IN  Store(Unlink(h, nb), (b :> Header(s, PInUse(h.mem, b), TRUE))
                          @@ SetPInUse(h.mem, b + s, TRUE))

CanAbsorb(h, b, blk) ==
    LET nb == b + Size(h.mem, b)
    IN  ~InUse(h.mem, nb) /\ Size(h.mem, b) + Size(h.mem, nb) >= blk

Copy(h, to, from, bytes) ==
    Store(h, [a \in {w \in Words : to <= w /\ w < to + bytes} |-> h.mem[from + (a - to)]])

\* Moving that frees the old block before it copies.
MovedFreeFirst(r, p) ==
    IF r.ptr = 0 THEN r
    ELSE [r EXCEPT !.heap = Copy(FreeBlock(@, p - HDR), r.ptr, p, Usable(@.mem, p))]

\* A payload copied to the new block of r, if there is one, and freed.
Moved(r, p) ==
    IF r.ptr = 0 THEN r
    ELSE [r EXCEPT !.heap = FreeBlock(Copy(@, r.ptr, p, Usable(@.mem, p)), p - HDR)]

\* __heap_realloc of a payload p to a size other than 0.
ReallocResults(h, p, size) ==
    LET b   == p - HDR
        blk == BlockFor(size)
    IN  IF size > MaxRequest THEN {Result(h, 0, <<>>)}
        ELSE IF blk <= Size(h.mem, b) THEN {Result(ShrinkTail(h, b, blk), p, <<>>)}
        ELSE IF CanAbsorb(h, b, blk) THEN {Result(ShrinkTail(Absorb(h, b), b, blk), p, <<>>)}
        ELSE {Moved(r, p) : r \in AllocResults(h, size)}

\* __heap_calloc's product, or a request that will be refused.
Product(count, size) ==
    LET total == (count * size) % Modulus
    IN  IF count = 0 THEN 0
        ELSE IF total \div count = size THEN total ELSE MaxRequest + 1

\* A payload filled with a value from an offset up to a limit.
Fill(h, ptr, from, limit, value) ==
    Store(h, [a \in {w \in Words : ptr + from <= w /\ w < ptr + limit} |-> value])

CallocResults(h, total) ==
    {IF r.ptr = 0 THEN r ELSE [r EXCEPT !.heap = Fill(@, r.ptr, 0, total, 0)] :
        r \in AllocResults(h, total)}
-----------------------------------------------------------------------------
Init ==
    /\ heap = [mem |-> [w \in Words |-> 0], bins |-> [i \in 0..(NBins - 1) |-> 0],
               next |-> 0, brk |-> 8, ready |-> FALSE]
    /\ live = <<>>
    /\ regions = <<>>

\* The caller gets the result of a call, fills what it was not promised to
\* find with its mark, and owns the block besides the others.
Owns(r, others, kept, mark, asked) ==
    /\ regions' = regions \o r.grown
    /\ heap' = Fill(r.heap, r.ptr, kept, Usable(r.heap.mem, r.ptr), mark)
    /\ live' = (r.ptr :> [mark |-> mark, asked |-> asked]) @@ others

\* The call returns NULL.
Refused(r) ==
    /\ r.ptr = 0
    /\ regions' = regions \o r.grown
    /\ heap' = r.heap
    /\ UNCHANGED live

Room == Cardinality(DOMAIN live) < MaxLive

\* malloc(size), or realloc(NULL, size).
Alloc(size) ==
    /\ Room
    /\ \E r \in AllocResults(heap, size) :
        \/ Refused(r)
        \/ r.ptr # 0 /\ Owns(r, live, 0, -r.ptr, size)

Calloc(count, size) ==
    /\ Room
    /\ \E r \in CallocResults(heap, Product(count, size)) :
        \/ Refused(r)
        \/ r.ptr # 0 /\ Owns(r, live, count * size, 0, count * size)

Without(p) == [q \in DOMAIN live \ {p} |-> live[q]]

\* free(p), or realloc(p, 0).  Callers wipe a block before they free it, which
\* bounds the contents of free memory.
Free(p) ==
    /\ heap' = FreeBlock(Fill(heap, p, 0, Usable(heap.mem, p), -1), p - HDR)
    /\ live' = Without(p)
    /\ UNCHANGED regions

Realloc(p, size) ==
    /\ size > 0
    /\ \E r \in ReallocResults(heap, p, size) :
        \/ Refused(r)
        \/ /\ r.ptr # 0
           /\ Owns(r, Without(p), Smaller(Usable(heap.mem, p), Usable(r.heap.mem, r.ptr)),
                   live[p].mark, size)

Next ==
    \/ \E size \in Requests : Alloc(size)
    \/ \E count \in CallocCounts, size \in CallocSizes : Calloc(count, size)
    \/ \E p \in DOMAIN live : Free(p) \/ \E size \in Requests : Realloc(p, size)

Spec == Init /\ [][Next]_vars
-----------------------------------------------------------------------------
\* The blocks of a region, from its base to its epilogue or to where the
\* walk fails.
Walk(r) ==
    LET blocks[b \in {w \in Words : r.base <= w /\ w <= r.epi}] ==
            IF b = r.epi \/ Size(heap.mem, b) < MIN_BLOCK \/ b + Size(heap.mem, b) > r.epi
            THEN {b} ELSE {b} \cup blocks[b + Size(heap.mem, b)]
    IN  blocks[r.base]
Regions == {regions[k] : k \in 1..Len(regions)}
Blocks == UNION {Walk(r) \ {r.epi} : r \in Regions}
FreeBlocks == {b \in Blocks : ~InUse(heap.mem, b)}

\* Type invariant; also, payloads are aligned to 8 bytes, and what the
\* callers own are the blocks in use.
TypeOK ==
    /\ DOMAIN heap.mem = Words
    /\ heap.bins \in [0..(NBins - 1) -> Words]
    /\ heap.next \in 0..MaxRegionBytes /\ heap.brk \in 0..MemBytes
    /\ \A p \in DOMAIN live : p % 8 = 0
    /\ DOMAIN live = {b + HDR : b \in Blocks \ FreeBlocks}

\* Splitting, merging and absorbing keep every region tiled by blocks: the
\* walk over the headers ends at the epilogue, each block knows whether the
\* one before it is in use, a free block repeats its size in its last word
\* and has no free neighbour.
HeapTiled ==
    \A r \in Regions :
        /\ r.epi \in Walk(r) /\ PInUse(heap.mem, r.base)
        /\ heap.mem[r.epi] \in {Header(0, FALSE, TRUE), Header(0, TRUE, TRUE)}
        /\ \A b \in Walk(r) \ {r.epi} :
            LET nb == b + Size(heap.mem, b)
            IN  /\ PInUse(heap.mem, nb) <=> InUse(heap.mem, b)
                /\ ~InUse(heap.mem, b) =>
                        InUse(heap.mem, nb) /\ heap.mem[nb - HDR] = Size(heap.mem, b)

\* The bins hold exactly the free blocks, each once and in the bin of its
\* size, and their links agree in both directions.
BinsExact ==
    /\ \A i \in DOMAIN heap.bins :
        LET node == Node(heap, i)
        IN  \A n \in DOMAIN node : node[n] # 0 =>
                /\ node[n] \in FreeBlocks /\ Bin(Size(heap.mem, node[n])) = i
                /\ heap.mem[node[n] + 8] = IF n = 0 THEN 0 ELSE node[n - 1]
    /\ FreeBlocks \subseteq UNION {{Node(heap, i)[n] : n \in DOMAIN Node(heap, i)} :
                                    i \in DOMAIN heap.bins}

\* The representation invariant of the heap, which every entry point finds
\* and leaves: the callers' blocks, the tags and the bins tell one story.
HeapSound == TypeOK /\ HeapTiled /\ BinsExact

\* A caller finds in its block what it wrote there, or the zeros of calloc,
\* whatever the others allocate, free and reallocate and wherever realloc
\* moves the block, and the block is as large as it asked for.
ContentsKept ==
    \A p \in DOMAIN live :
        /\ Usable(heap.mem, p) >= live[p].asked
        /\ \A w \in Words : p <= w /\ w < p + Usable(heap.mem, p) => heap.mem[w] = live[p].mark

\* A request is refused or costs another region only if no free block is
\* large enough, what __heap_find returns is large enough, and a region that
\* __heap_more acquires serves the request it was acquired for.
FindsWhatFits ==
    heap.ready => \A size \in {n \in Requests : n <= MaxRequest} :
        LET blk == BlockFor(size)
            b   == Find(heap, blk)
        IN  /\ IF b = 0 THEN \A f \in FreeBlocks : Size(heap.mem, f) < blk
                        ELSE Size(heap.mem, b) >= blk
            /\ \A g \in More(heap, blk) : Find(g.heap, blk) # 0
=============================================================================
