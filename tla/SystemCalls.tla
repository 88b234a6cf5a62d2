---------------------------- MODULE SystemCalls -----------------------------
(***************************************************************************)
(* syscall_c.cpp and ABI_Interface.cpp: how the arguments of a call reach  *)
(* the trap.  Every function has one static block for them, and its code   *)
(* runs in user mode, where the timer may let another thread run between   *)
(* any two stores or loads.                                                *)
(***************************************************************************)
EXTENDS Integers, FiniteSets

\* The code and the number of arguments each function passes; the fields of
\* the block that it sets to 0 are left out.
MemoryCalls == [ mem_alloc |-> << 1, 1 >>, mem_free |-> << 2, 1 >> ]

ThreadCalls ==
    [ thread_create |-> << 17, 4 >>, thread_exit |-> << 18, 0 >>,
      thread_dispatch |-> << 19, 0 >>, thread_create_cpp |-> << 20, 4 >>,
      scheduler_put |-> << 21, 1 >>, getThreadId |-> << 22, 0 >> ]

SemaphoreCalls ==
    [ sem_open |-> << 33, 2 >>, sem_close |-> << 34, 1 >>,
      sem_wait |-> << 35, 1 >>, sem_signal |-> << 36, 1 >> ]

OtherCalls ==
    [ time_sleep |-> << 49, 1 >>, getc |-> << 65, 0 >>, putc |-> << 66, 1 >>,
      switchSupervisorToUser |-> << 80, 0 >>, switchUserToSupervisor |-> << 81, 0 >> ]

AllCalls ==
    [f \in DOMAIN MemoryCalls \cup DOMAIN ThreadCalls
           \cup DOMAIN SemaphoreCalls \cup DOMAIN OtherCalls |->
        CASE f \in DOMAIN MemoryCalls    -> MemoryCalls[f]
          [] f \in DOMAIN ThreadCalls    -> ThreadCalls[f]
          [] f \in DOMAIN SemaphoreCalls -> SemaphoreCalls[f]
          [] f \in DOMAIN OtherCalls     -> OtherCalls[f]]

CONSTANTS Callers,
          Functions,   \* bound: the functions that are called
          Values,      \* bound: the arguments given to them
          MaxCalls     \* bound: the calls of one thread

\* The functions are those of syscall_c.cpp; arguments are machine words.
CallsAreKnown == Functions \subseteq DOMAIN AllCalls /\ Values \subseteq Nat

\* The fields of the block of f: 0 is its code.
Fields(f) == 0 .. AllCalls[f][2]

None == << >>

VARIABLES arguments,   \* the static block of each function
          call,        \* what each thread wants: << function, fields >>
          stored,      \* how many of the fields it has stored
          register,    \* the fields it has loaded into a0 .. a4
          trapped,     \* the last ecall: << function, fields, registers,
                       \* whether the thread was disturbed >>
          disturbed,   \* threads in whose block another one stored meanwhile
          calls        \* how many calls each thread has made

callVars == << arguments, call, stored, register, trapped, disturbed, calls >>

CallsInit ==
    /\ arguments = [f \in Functions |-> [i \in Fields(f) |-> 0]]
    /\ call = [t \in Callers |-> None]
    /\ stored = [t \in Callers |-> 0]
    /\ register = [t \in Callers |-> << >>]
    /\ trapped = None
    /\ disturbed = {}
    /\ calls = [t \in Callers |-> 0]

Call(t, f) ==
    /\ call[t] = None
    /\ calls[t] < MaxCalls
    /\ \E given \in [Fields(f) \ {0} -> Values] :
          call' = [call EXCEPT ![t] =
              << f, [i \in Fields(f) |-> IF i = 0 THEN AllCalls[f][1] ELSE given[i]] >>]
    /\ calls' = [calls EXCEPT ![t] = @ + 1]
    /\ UNCHANGED << arguments, stored, register, trapped, disturbed >>

\* The others that are in the same function
Sharing(t) == {u \in Callers \ {t} : call[u] # None /\ call[u][1] = call[t][1]}

\* Another thread in the function is disturbed whenever this one stores.
Store(t) ==
    LET f == call[t][1]
        i == stored[t]
    IN
    /\ call[t] # None
    /\ i \in Fields(f)
    /\ arguments' = [arguments EXCEPT ![f][i] = call[t][2][i]]
    /\ stored' = [stored EXCEPT ![t] = i + 1]
    /\ disturbed' = disturbed \cup Sharing(t)
    /\ UNCHANGED << call, register, trapped, calls >>

\* prepareArgsAndEcall loads the code last.
LoadOrder(f) == [n \in 1 .. AllCalls[f][2] + 1 |-> IF n \in Fields(f) THEN n ELSE 0]

Load(t) ==
    LET f == call[t][1]
        i == LoadOrder(f)[Cardinality(DOMAIN register[t]) + 1]
    IN
    /\ call[t] # None
    /\ stored[t] = AllCalls[f][2] + 1
    /\ DOMAIN register[t] # Fields(f)
    /\ register' = [register EXCEPT ![t] =
          [j \in DOMAIN @ \cup {i} |-> IF j = i THEN arguments[f][i] ELSE @[j]]]
    /\ UNCHANGED << arguments, call, stored, trapped, disturbed, calls >>

\* ecall: from here on the trap reads the registers of this thread only.
EnterTrap(t) ==
    /\ call[t] # None
    /\ DOMAIN register[t] = Fields(call[t][1])
    /\ trapped' = << call[t][1], call[t][2], register[t], t \in disturbed >>
    /\ call' = [call EXCEPT ![t] = None]
    /\ stored' = [stored EXCEPT ![t] = 0]
    /\ register' = [register EXCEPT ![t] = << >>]
    /\ disturbed' = disturbed \ {t}
    /\ UNCHANGED << arguments, calls >>

CallsNext ==
    \E t \in Callers :
        (\E f \in Functions : Call(t, f)) \/ Store(t) \/ Load(t) \/ EnterTrap(t)

CallsSpec == CallsInit /\ [][CallsNext]_callVars

-----------------------------------------------------------------------------
(* Properties                                                              *)

\* A thread's call reaches the trap unchanged unless another thread stored
\* the arguments of the same function meanwhile; and whatever happened, the
\* trap serves the function that was called (ABI_Interface.cpp:8-15).
OnlyTheSameCallInterferes ==
    trapped # None =>
        /\ trapped[3][0] = AllCalls[trapped[1]][1]
        /\ ~trapped[4] => trapped[3] = trapped[2]

\* The trap gets the arguments of this call (syscall_c.cpp:8).
ArgumentsAreTheCallers == trapped # None => trapped[3] = trapped[2]
=============================================================================
