-------------------------- MODULE MCConsoleOutput --------------------------
EXTENDS ConsoleOutput

CONSTANTS m, idle, u, o, w

MCThreads == {m, idle, u, o, w}
=============================================================================
