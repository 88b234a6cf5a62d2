------------------------------ MODULE MCTraps ------------------------------
EXTENDS Traps

CONSTANTS m, idle, u, o, w

MCThreads == {m, idle, u, o, w}
=============================================================================
