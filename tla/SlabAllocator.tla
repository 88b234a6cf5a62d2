--------------------------- MODULE SlabAllocator ----------------------------
(***************************************************************************)
(* SlabAllocator.cpp and slab.cpp: caches of objects of one size.  A cache *)
(* keeps its slabs in three lists, a slab keeps its free slots in a chain. *)
(* The memory is taken from the buddy allocator as BlockStore describes it *)
(* and MCBuddyAllocator checks it: an address is a block of BlockStore.    *)
(* Constructors, destructors and the contents of objects are left out.     *)
(***************************************************************************)
EXTENDS Integers, SequencesExt, Powers

CONSTANTS MaxUsedExponent, BLOCK_SIZE,  \* of the buddy allocator
          CacheSize, SlabSize, IntSize, \* sizeof kmem_cache_t, kmem_slab_t, int
          MIN_BUFFER_SIZE_EXPONENT, MAX_BUFFER_SIZE_EXPONENT,
          CacheKinds,    \* bound: the names and sizes given to kmem_cache_create
          BufferSizes,   \* bound: the sizes given to kmalloc
          FreedTwice,    \* the lists with slabs of which callers free any slot,
                         \* free already or not
          MaxCacheSize   \* bound: no cache grows beyond it, in blocks

\* Names are sequences of tokens.
ASSUME SlabAssumption ==
    /\ MaxUsedExponent \in Nat \ {0}
    /\ {BLOCK_SIZE, CacheSize, SlabSize, IntSize} \subseteq Nat \ {0}
    /\ MIN_BUFFER_SIZE_EXPONENT \in Nat /\ MAX_BUFFER_SIZE_EXPONENT \in Nat
    /\ \A k \in CacheKinds : k[2] \in Nat \ {0}
    /\ BufferSizes \subseteq Nat \ {0}
    /\ FreedTwice \subseteq {"free", "dirty"}
    /\ MaxCacheSize \in Nat

VARIABLES cacheList,  \* the caches from headOfCacheList on, newest first
          cache,      \* the fields of each cache
          slab,       \* the fields of each slab
          held,       \* the callers' objects: << slab, index of the slot >>
          buffer      \* the cache in which kmalloc goes on to allocate, if
                      \* any: << >> in it is nullptr

vars == << cacheList, cache, slab, held, buffer >>

Store == INSTANCE BlockStore WITH
    Requests <- Nat, held <- DOMAIN cache \cup DOMAIN slab, request <- 0, got <- << >>

\* BlockStore may hand out any unused block.  Which one makes no difference
\* to caches and slabs: the lowest stands for all.
Allocated(e) ==
    {b \in Store!Unused(e) : \A c \in Store!Unused(e) : b[2] <= c[2]}

Init ==
    /\ cacheList = << >>
    /\ cache = << >>
    /\ slab = << >>
    /\ held = {}
    /\ buffer = << >>

\* f with the value y at x
With(f, x, y) == [z \in {x} \cup DOMAIN f |-> IF z = x THEN y ELSE f[z]]

Ceil(bytes) == bytes \div BLOCK_SIZE + (IF bytes % BLOCK_SIZE # 0 THEN 1 ELSE 0)

\* The least exponent whose power of two is enough.
Exponent(n) == CHOOSE e \in 0 .. n : n <= Power[e] /\ \A d \in 0 .. e - 1 : Power[d] < n

\* totalSlabSizeInBytes
SlabBytes(slots, size) == SlabSize + IntSize * slots + slots * size

-----------------------------------------------------------------------------
(* Caches                                                                  *)

IsObjectSizeTooBig(size) ==
    size > BLOCK_SIZE * Power[MaxUsedExponent - 1] - (SlabSize + IntSize)

\* areCacheNamesEqual stops where the new name ends.
FindExistingCache(name) ==
    SelectInSeq(cacheList, LAMBDA c : IsPrefix(name, cache[c].name))

\* calculateNumberOfSlotsInSlab
NumberOfSlots(size) ==
    IF SlabBytes(2, size) > BLOCK_SIZE * 2 THEN 1
    ELSE CHOOSE n \in 1 .. BLOCK_SIZE * 2 :
            SlabBytes(n, size) <= BLOCK_SIZE * 2 /\ SlabBytes(n + 1, size) > BLOCK_SIZE * 2

InitializeNewCache(c, name, size) ==
    /\ cache' = With(cache, c,
                     [ name |-> name, objectSizeInBytes |-> size,
                       numberOfObjectsInOneSlab |-> NumberOfSlots(size),
                       didCacheGrow |-> FALSE, didCacheShrink |-> FALSE,
                       cacheSizeInBlocks |-> 0, numberOfSlabs |-> 0,
                       free |-> << >>, dirty |-> << >>, full |-> << >>,
                       cacheError |-> "none" ])
    /\ cacheList' = << c >> \o cacheList

\* kmem_cache_create when it changes anything: otherwise it returns the cache
\* found, or nullptr for an object that is too big or when memory is used up.
CreateCache(name, size) ==
    /\ ~IsObjectSizeTooBig(size)
    /\ FindExistingCache(name) = 0
    /\ \E c \in Allocated(Exponent(Ceil(CacheSize))) :
          InitializeNewCache(c, name, size)
    /\ UNCHANGED << slab, held, buffer >>

-----------------------------------------------------------------------------
(* Allocation                                                              *)

\* initializeNewFreeSlab, which also puts the slab in front of the free list.
NewSlab(slots) ==
    [ numberOfFreeSlots |-> slots, firstFreeSlotIndex |-> 0,
      slots |-> [i \in 0 .. slots - 1 |-> IF i = slots - 1 THEN -1 ELSE i + 1] ]

\* Mistake: a slab counts as one block.
GrownByOneBlock(k, s) ==
    [k EXCEPT !.cacheSizeInBlocks = @ + 1, !.numberOfSlabs = @ + 1,
              !.didCacheGrow = TRUE, !.free = << s >> \o @]

\* allocateNewFreeSlab when the buddy allocator has a block s.
GrownCache(k, s) ==
    [k EXCEPT !.cacheSizeInBlocks =
                  @ + Power[Exponent(Ceil(SlabBytes(k.numberOfObjectsInOneSlab, k.objectSizeInBytes)))],
              !.numberOfSlabs = @ + 1,
              !.didCacheGrow = TRUE,
              !.free = << s >> \o @]

\* The slab after getObjectFromSlab took the first slot of the chain.
TakenSlot(t) ==
    [t EXCEPT !.firstFreeSlotIndex = t.slots[@], !.numberOfFreeSlots = @ - 1]

\* moveSlabToCorrectSlabListAfterAllocation: the slab is the head of its list.
AfterAllocation(k, s, freeSlots) ==
    LET N == k.numberOfObjectsInOneSlab IN
    CASE freeSlots = 0 /\ N > 1 -> [k EXCEPT !.dirty = Tail(@), !.full = << s >> \o @]
      [] freeSlots = 0 /\ N = 1 -> [k EXCEPT !.free = Tail(@), !.full = << s >> \o @]
      [] freeSlots # 0 /\ freeSlots = N - 1 ->
            [k EXCEPT !.free = Tail(@), !.dirty = << s >> \o @]
      [] OTHER -> k

\* getObjectFromSlab, from the slab s with the fields t, in the cache c that
\* has the fields k by now.
GetObjectFromSlab(c, k, s, t) ==
    /\ slab' = With(slab, s, TakenSlot(t))
    /\ cache' = [cache EXCEPT ![c] = AfterAllocation(k, s, t.numberOfFreeSlots - 1)]
    /\ held' = held \cup {<< s, t.firstFreeSlotIndex >>}

\* getSlabWithFreeObject looks at the heads of the lists only.
HasFreeSlot(list) == list # << >> /\ slab[Head(list)].numberOfFreeSlots > 0

\* kmem_cache_alloc, and the end of kmalloc
AllocateObject(c) ==
    LET k == cache[c]
        N == k.numberOfObjectsInOneSlab
        room == Allocated(Exponent(Ceil(SlabBytes(N, k.objectSizeInBytes))))
        grows == ~HasFreeSlot(k.dirty) /\ ~HasFreeSlot(k.free)
    IN
    /\ \/ HasFreeSlot(k.dirty) /\ GetObjectFromSlab(c, k, Head(k.dirty), slab[Head(k.dirty)])
       \/ ~HasFreeSlot(k.dirty) /\ HasFreeSlot(k.free)
             /\ GetObjectFromSlab(c, k, Head(k.free), slab[Head(k.free)])
       \/ grows /\ \E s \in room : GetObjectFromSlab(c, GrownCache(k, s), s, NewSlab(N))
       \/ /\ grows /\ room = {}
          /\ cache' = [cache EXCEPT ![c] = [k EXCEPT !.cacheError = "space", !.didCacheGrow = TRUE]]
          /\ UNCHANGED << slab, held >>
    /\ grows => k.cacheSizeInBlocks < MaxCacheSize
    /\ buffer' = << >>
    /\ UNCHANGED cacheList

\* getBufferCacheName
BufferName(e) == << "size-", e >>

\* allocateBuffer up to its call of allocateObject; a buffer that is too big
\* is refused at once.  createCache may return nullptr.
AllocateBuffer(bytes) ==
    LET e == IF Exponent(bytes) < MIN_BUFFER_SIZE_EXPONENT
             THEN MIN_BUFFER_SIZE_EXPONENT ELSE Exponent(bytes)
        found == IF IsObjectSizeTooBig(Power[e]) THEN 0 ELSE FindExistingCache(BufferName(e))
        room == IF IsObjectSizeTooBig(Power[e]) THEN {} ELSE Allocated(Exponent(Ceil(CacheSize)))
    IN
    /\ e <= MAX_BUFFER_SIZE_EXPONENT
    /\ \/ found # 0 /\ buffer' = << cacheList[found] >> /\ UNCHANGED << cache, cacheList >>
       \/ /\ found = 0
          /\ \E c \in room : InitializeNewCache(c, BufferName(e), Power[e]) /\ buffer' = << c >>
       \/ found = 0 /\ room = {} /\ buffer' = << << >> >> /\ UNCHANGED << cache, cacheList >>
    /\ UNCHANGED << slab, held >>

-----------------------------------------------------------------------------
(* Release                                                                 *)

\* Mistake: a slab whose last object comes back stays in the dirty list.
StaysInDirtyList(k, s, freeSlots) ==
    CASE freeSlots = 1 /\ k.numberOfObjectsInOneSlab > 1 ->
            [k EXCEPT !.full = RemoveFirst(@, s), !.dirty = << s >> \o @]
      [] freeSlots = 1 /\ k.numberOfObjectsInOneSlab = 1 ->
            [k EXCEPT !.full = RemoveFirst(@, s), !.free = << s >> \o @]
      [] OTHER -> k

\* changeSlabListAfterDeallocation: nothing moves when the slab is not found.
Moved(list, s) == IF s \in Range(list) THEN << s >> ELSE << >>

\* moveSlabToCorrectSlabListAfterDeallocation
AfterDeallocation(k, s, freeSlots) ==
    LET N == k.numberOfObjectsInOneSlab IN
    CASE freeSlots = 1 /\ N > 1 ->
            [k EXCEPT !.full = RemoveFirst(@, s), !.dirty = Moved(k.full, s) \o @]
      [] freeSlots = 1 /\ N = 1 ->
            [k EXCEPT !.full = RemoveFirst(@, s), !.free = Moved(k.full, s) \o @]
      [] freeSlots # 1 /\ freeSlots = N ->
            [k EXCEPT !.dirty = RemoveFirst(@, s), !.free = Moved(k.dirty, s) \o @]
      [] OTHER -> k

\* Mistake: the slot before is forgotten, so the chain ends here.
ReturnedSlotEndsChain(t, i) ==
    [t EXCEPT !.slots[i] = -1, !.firstFreeSlotIndex = i, !.numberOfFreeSlots = @ + 1]

\* The slab after the slot i was put in front of the chain.
ReturnedSlot(t, i) ==
    [t EXCEPT !.slots[i] = t.firstFreeSlotIndex, !.firstFreeSlotIndex = i,
              !.numberOfFreeSlots = @ + 1]

\* deallocateObject looks into two of the lists.
IsSearched(c, s) == s \in Range(cache[c].dirty) \cup Range(cache[c].full)

\* kmem_cache_free in the cache of the object; kfree finds the cache itself
\* and does the same, but for the error.
DeallocateObject(c, o) ==
    /\ \/ /\ IsSearched(c, o[1])
          /\ slab' = [slab EXCEPT ![o[1]] = ReturnedSlot(@, o[2])]
          /\ cache' = [cache EXCEPT ![c] =
                          AfterDeallocation(@, o[1], slab[o[1]].numberOfFreeSlots + 1)]
       \/ /\ ~IsSearched(c, o[1])
          /\ cache' = [cache EXCEPT ![c].cacheError = "address"]
          /\ UNCHANGED slab
    /\ held' = held \ {o}
    /\ UNCHANGED << cacheList, buffer >>

\* Mistake: one slab is counted however many were returned.
WithoutOneSlab(k, slabs) ==
    LET bytes == SlabBytes(k.numberOfObjectsInOneSlab, k.objectSizeInBytes) IN
    [k EXCEPT !.cacheSizeInBlocks = @ - Len(slabs) * Ceil(bytes), !.numberOfSlabs = @ - 1]

\* What destroySlabList leaves of the counters after it returned the slabs.
WithoutSlabs(k, slabs) ==
    LET bytes == SlabBytes(k.numberOfObjectsInOneSlab, k.objectSizeInBytes) IN
    [k EXCEPT !.cacheSizeInBlocks = @ - Len(slabs) * Ceil(bytes),
              !.numberOfSlabs = @ - Len(slabs)]

ShrinkCache(c) ==
    LET k == cache[c] IN
    /\ \/ /\ k.didCacheShrink /\ k.didCacheGrow
          /\ cache' = [cache EXCEPT ![c].didCacheGrow = FALSE]
          /\ UNCHANGED slab
       \/ /\ ~(k.didCacheShrink /\ k.didCacheGrow)
          /\ cache' = [cache EXCEPT ![c] =
                 [WithoutSlabs(k, k.free) EXCEPT !.free = << >>, !.didCacheShrink = TRUE]]
          /\ slab' = Restrict(slab, DOMAIN slab \ Range(k.free))
    /\ UNCHANGED << cacheList, held, buffer >>

\* Its callers forget what they hold of the cache they destroy.
DestroyCache(c) ==
    LET slabs == Range(cache[c].free \o cache[c].dirty \o cache[c].full) IN
    /\ slab' = Restrict(slab, DOMAIN slab \ slabs)
    /\ cache' = Restrict(cache, DOMAIN cache \ {c})
    /\ cacheList' = RemoveFirst(cacheList, c)
    /\ held' = {o \in held : o[1] \notin slabs}
    /\ UNCHANGED buffer

-----------------------------------------------------------------------------

Slots(list) == UNION { {s} \X DOMAIN slab[s].slots : s \in Range(list) }

\* The slots of a cache that its callers may free.
MayBeFreed(k) ==
    (held \cap Slots(k.dirty \o k.full))
        \cup (IF "free" \in FreedTwice THEN Slots(k.free) ELSE {})
        \cup (IF "dirty" \in FreedTwice THEN Slots(k.dirty) ELSE {})

\* The model ends where the code would go on with a cache at address 0.
Next ==
    \/ /\ buffer = << >>
       /\ \/ \E k \in CacheKinds : CreateCache(k[1], k[2])
          \/ \E bytes \in BufferSizes : AllocateBuffer(bytes)
          \/ \E c \in DOMAIN cache :
                \/ AllocateObject(c)
                \/ \E o \in MayBeFreed(cache[c]) : DeallocateObject(c, o)
                \/ ShrinkCache(c)
                \/ DestroyCache(c)
    \/ \E c \in Range(buffer) \cap DOMAIN cache : AllocateObject(c)

Spec == Init /\ [][Next]_vars

-----------------------------------------------------------------------------
(* Properties                                                              *)

\* The first n slots of the chain of the slab s.
Chain(s, n) ==
    LET f[i \in 1 .. n] == IF i = 1 THEN slab[s].firstFreeSlotIndex
                           ELSE LET j == f[i - 1] IN
                                IF j = -1 THEN -1 ELSE slab[s].slots[j]
    IN  f

\* The chain of a slab runs through its free slots once, as many as it
\* counts, and ends: no object is handed out while somebody holds it and none
\* is lost (SlabAllocator.cpp:208-216, 260-262).
FreeSlotsAreChained ==
    \A s \in DOMAIN slab :
        LET n == slab[s].numberOfFreeSlots
            chain == Chain(s, n + 1)
        IN  /\ chain[n + 1] = -1
            /\ {chain[i] : i \in 1 .. n}
                  = {i \in DOMAIN slab[s].slots : << s, i >> \notin held}

\* A slab is in one list of one cache, in the one its free slots call for, so
\* a look at the heads of two lists finds every free object
\* (SlabAllocator.cpp:161-172, 218-244, 281-306).
SlabsAreInTheirLists ==
    /\ \A c \in DOMAIN cache :
          LET N == cache[c].numberOfObjectsInOneSlab IN
          /\ \A s \in Range(cache[c].free) : slab[s].numberOfFreeSlots = N
          /\ \A s \in Range(cache[c].dirty) : slab[s].numberOfFreeSlots \in 1 .. N - 1
          /\ \A s \in Range(cache[c].full) : slab[s].numberOfFreeSlots = 0
    /\ \A s \in DOMAIN slab : \E c \in DOMAIN cache :
          s \in Range(cache[c].free \o cache[c].dirty \o cache[c].full)
    /\ \A c, d \in DOMAIN cache : c # d =>
          Range(cache[c].free \o cache[c].dirty \o cache[c].full)
            \cap Range(cache[d].free \o cache[d].dirty \o cache[d].full) = {}
    /\ \A c \in DOMAIN cache :
          IsInjective(cache[c].free \o cache[c].dirty \o cache[c].full)

\* getTotalUsedMemoryInBytesInCache
UsedBytes(k) ==
    LET N == k.numberOfObjectsInOneSlab IN
    k.objectSizeInBytes *
        (FoldLeft(LAMBDA sum, s : sum + N - slab[s].numberOfFreeSlots, 0, k.dirty)
           + N * Len(k.full))

\* What kmem_cache_info prints is true: the bytes used are those of the
\* objects its callers hold, and the slabs counted are those in the lists
\* (SlabAllocator.cpp:75-77, 409-422).
CacheInfoIsTrue ==
    \A c \in DOMAIN cache :
        LET k == cache[c] IN
        /\ UsedBytes(k) = k.objectSizeInBytes
              * Cardinality(held \cap Slots(k.free \o k.dirty \o k.full))
        /\ k.numberOfSlabs = Len(k.free \o k.dirty \o k.full)

\* A cache is never smaller than the blocks its slabs were given: shrinking
\* takes off no more than growing added, so the counter does not wrap and a
\* cache with slabs has a size, whatever is freed twice
\* (SlabAllocator.cpp:90, 182, 333-335).
SizeCoversSlabs ==
    \A c \in DOMAIN cache :
        LET k == cache[c] IN
        k.cacheSizeInBlocks >= k.numberOfSlabs
            * Power[Exponent(Ceil(SlabBytes(k.numberOfObjectsInOneSlab, k.objectSizeInBytes)))]

\* What the error for an invalid address promises: a call that neither hands
\* out nor takes back an object changes no slab that stays
\* (SlabAllocator.cpp:36).  The code chains a free slot of a dirty slab again
\* (SlabAllocator.cpp:257-262).
InvalidFreeChangesNoSlab ==
    [][held' = held => \A s \in DOMAIN slab \cap DOMAIN slab' : slab'[s] = slab[s]]_vars

\* What the guard of the division says: a cache has a size just when it has
\* slabs (SlabAllocator.cpp:90).  Growing adds a power of two, shrinking takes
\* off the blocks the slab needs: the code breaks it where they differ.
SizeIsZeroWithoutSlabs ==
    \A c \in DOMAIN cache : cache[c].numberOfSlabs = 0 <=> cache[c].cacheSizeInBlocks = 0
=============================================================================
