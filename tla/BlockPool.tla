----------------------------- MODULE BlockPool ------------------------------
(***************************************************************************)
(* What the block pool promises its callers (spec section 4.8), with each  *)
(* call one atomic step: allocate() hands a free block to one caller, or   *)
(* nothing when none is free; deallocate() of a held block makes it free   *)
(* again; a held block may pass from one thread to another (a moved        *)
(* PoolBuffer).  MemoryPool implements this specification under the       *)
(* refinement mapping it defines.                                          *)
(***************************************************************************)
CONSTANTS
    Blocks,    \* the blocks of the arena
    Threads    \* threads using the pool

VARIABLES
    free,      \* the blocks allocate() may return
    held       \* held[t]: the blocks thread t holds

vars == <<free, held>>

Init ==
    /\ free = Blocks
    /\ held = [t \in Threads |-> {}]

(* allocate() returns a free block to t.                                   *)
Allocate(t, b) ==
    /\ b \in free
    /\ free' = free \ {b}
    /\ held' = [held EXCEPT ![t] = @ \cup {b}]

(* deallocate(b) by its holder.                                            *)
Deallocate(t, b) ==
    /\ b \in held[t]
    /\ free' = free \cup {b}
    /\ held' = [held EXCEPT ![t] = @ \ {b}]

(* A held block changes holder.                                            *)
Handoff(t, u, b) ==
    /\ t # u
    /\ b \in held[t]
    /\ held' = [held EXCEPT ![t] = @ \ {b}, ![u] = @ \cup {b}]
    /\ UNCHANGED free

Next ==
    \E t \in Threads, b \in Blocks :
        \/ Allocate(t, b)
        \/ Deallocate(t, b)
        \/ \E u \in Threads : Handoff(t, u, b)

Spec == Init /\ [][Next]_vars

=============================================================================
