----------------------------- MODULE MCFirstFit -----------------------------
EXTENDS FirstFit

\* States are compared without what the memory held before: the links of a
\* block are read only while it heads a segment of the list, its size only
\* while it heads a segment.
LiveState ==
    LET list == FreeList IN
    << freeListHead, held,
       [a \in list |-> << numberOfBlocks[a], next[a], prev[a] >>],
       [h \in held |-> numberOfBlocks[h[1]]] >>
=============================================================================
