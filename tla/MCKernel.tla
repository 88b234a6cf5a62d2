------------------------------ MODULE MCKernel ------------------------------
EXTENDS Kernel

CONSTANTS m, idle, u, t1, t2, s1

MCThreads == {m, idle, u, t1, t2}

MCBootQueue == << u >>

MCSemaphores == {s1}

MCMinValue == -3
=============================================================================
