-------------------------- MODULE MCSlabAllocator ---------------------------
EXTENDS SlabAllocator

\* A cache of three objects in a slab.
MCCacheKinds == { << << "Class" >>, 3 >> }

\* States are compared without what nothing reads: the errors, and what a
\* slot held before its object was handed out, which is written first.
LiveState ==
    << cacheList, held, buffer,
       [c \in DOMAIN cache |-> [cache[c] EXCEPT !.cacheError = "none"]],
       [s \in DOMAIN slab |->
           << slab[s].numberOfFreeSlots, slab[s].firstFreeSlotIndex,
              [i \in {j \in DOMAIN slab[s].slots : << s, j >> \notin held} |-> slab[s].slots[i]] >>] >>
=============================================================================
