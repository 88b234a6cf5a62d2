----------------------------- MODULE ReadyQueue -----------------------------
(***************************************************************************)
(* The scheduler's list of ready threads as a sequence.  The idle thread   *)
(* is always the last element of the list and never leaves it, so the      *)
(* sequence holds the other threads only.  Scheduler.tla models the        *)
(* pointers; Kernel.tla is built on these three operators.                 *)
(***************************************************************************)
EXTENDS Sequences

CONSTANT Idle

\* Scheduler::put: at the end, just before the idle thread.
Enqueue(q, t) == IF t = Idle THEN q ELSE Append(q, t)

\* Scheduler::get: the thread returned ...
First(q) == IF q = << >> THEN Idle ELSE Head(q)

\* ... and what stays in the list.
Rest(q) == IF q = << >> THEN q ELSE Tail(q)
=============================================================================
