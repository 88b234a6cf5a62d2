----------------------------- MODULE BlockStore -----------------------------
(***************************************************************************)
(* What an allocator of aligned blocks promises: it hands out a block of   *)
(* the size asked for that overlaps no other one handed out, and refuses   *)
(* only when there is no such block.  A block is << exponent, index >>: it *)
(* is 2^exponent units long and aligned to its own size.                   *)
(***************************************************************************)
EXTENDS Powers

CONSTANTS MaxUsedExponent,  \* the exponent of the whole memory
          Requests          \* the exponents asked for

VARIABLES held,           \* the blocks handed out and not returned
          request,        \* the exponent of the last allocation
          got             \* what it returned; << >> is nullptr

vars == << held, request, got >>

BlocksOfSize(e) == IF e > MaxUsedExponent THEN {}
                   ELSE {e} \X (0 .. Power[MaxUsedExponent - e] - 1)

Units(b) == b[2] * Power[b[1]] .. (b[2] + 1) * Power[b[1]] - 1

Unused(e) == {b \in BlocksOfSize(e) : \A h \in held : Units(b) \cap Units(h) = {}}

Init == held = {} /\ request = 0 /\ got = << >>

Grant(e) ==
    /\ request' = e
    /\ got' \in Unused(e)
    /\ held' = held \cup {got'}

Refuse(e) ==
    /\ request' = e
    /\ Unused(e) = {}
    /\ got' = << >>
    /\ UNCHANGED held

\* A request for no bytes
Nothing == got' = << >> /\ UNCHANGED << held, request >>

Return(b) ==
    /\ b \in held
    /\ held' = held \ {b}
    /\ UNCHANGED << request, got >>

Next == (\E e \in Requests : Grant(e) \/ Refuse(e)) \/ Nothing \/ (\E b \in held : Return(b))

Spec == Init /\ [][Next]_vars
=============================================================================
