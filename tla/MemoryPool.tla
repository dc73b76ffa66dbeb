----------------------------- MODULE MemoryPool -----------------------------
(***************************************************************************)
(* The lock-free block pool (src/src/common/memory_pool.cpp, declared in   *)
(* src/unnamed/part_012): a Treiber stack of free blocks whose head        *)
(* free_list_ is one atomic pointer, changed by compare_exchange_weak.     *)
(* Each thread runs allocate() and deallocate() as sequences of atomic     *)
(* operations; a thread between two of them may be overtaken by any other. *)
(* held[t] is a history variable: the blocks allocate() has returned to t  *)
(* and t has not yet passed back to deallocate().                          *)
(***************************************************************************)
EXTENDS Naturals, FiniteSets

CONSTANTS
    Blocks,      \* the blocks of the arena
    Threads,     \* threads using the pool
    Allocators,  \* the threads that call allocate()
    Null,        \* nullptr
    Foreign,     \* a pointer outside the arena
    MaxOps       \* bound on allocate()/deallocate() calls in a run

ASSUME ConstantsAssumption ==
    /\ IsFiniteSet(Blocks) /\ IsFiniteSet(Threads)
    /\ Allocators \subseteq Threads
    /\ Null \notin Blocks /\ Foreign \notin Blocks /\ Null # Foreign
    /\ MaxOps \in Nat

Ptr == Blocks \cup {Null}
Pcs == {"idle", "a_next", "a_cas", "a_count", "f_link", "f_cas", "f_count"}

VARIABLES
    head,    \* free_list_
    next,    \* FreeNode::next of every block
    count,   \* allocated_count_
    pc,      \* where each thread is
    node,    \* each thread's local node
    aux,     \* each thread's local next (allocate) or expected (deallocate)
    held,    \* blocks each thread holds
    ops      \* calls started, for the bound

vars == <<head, next, count, pc, node, aux, held, ops>>

TypeOK ==
    /\ head \in Ptr
    /\ next \in [Blocks -> Ptr]
    /\ count \in Nat
    /\ pc \in [Threads -> Pcs]
    /\ node \in [Threads -> Ptr]
    /\ aux \in [Threads -> Ptr]
    /\ held \in [Threads -> SUBSET Blocks]
    /\ ops \in 0 .. MaxOps

(* The blocks reached from head by following next, in at most k hops.     *)
Walk[k \in Nat] == IF k = 0 THEN head
                   ELSE IF Walk[k - 1] = Null THEN Null ELSE next[Walk[k - 1]]
FreeList == {Walk[k] : k \in 0 .. Cardinality(Blocks)} \ {Null}

-----------------------------------------------------------------------------
(* allocate(): node = free_list_.load().                                   *)
StartAlloc(t) ==
    /\ pc[t] = "idle" /\ t \in Allocators /\ ops < MaxOps
    /\ ops' = ops + 1
    /\ node' = [node EXCEPT ![t] = head]
    /\ pc' = [pc EXCEPT ![t] = "a_next"]
    /\ UNCHANGED <<head, next, count, aux, held>>

(* while (node): next = node->next.load(); when node is null the pool is   *)
(* exhausted and allocate() returns nullptr.                               *)
AllocReadNext(t) ==
    /\ pc[t] = "a_next"
    /\ IF node[t] = Null
       THEN /\ pc' = [pc EXCEPT ![t] = "idle"]
            /\ UNCHANGED aux
       ELSE /\ aux' = [aux EXCEPT ![t] = next[node[t]]]
            /\ pc' = [pc EXCEPT ![t] = "a_cas"]
    /\ UNCHANGED <<head, next, count, node, held, ops>>

(* compare_exchange_weak(node, next): on success node is t's block; on     *)
(* failure node is reloaded with the current head and the loop goes on.    *)
(* A spurious failure reloads the head unchanged, the same step.           *)
AllocCas(t) ==
    /\ pc[t] = "a_cas"
    /\ \/ /\ head = node[t]
          /\ head' = aux[t]
          /\ held' = [held EXCEPT ![t] = @ \cup {node[t]}]
          /\ pc' = [pc EXCEPT ![t] = "a_count"]
          /\ UNCHANGED node
       \/ /\ head # node[t]
          /\ node' = [node EXCEPT ![t] = head]
          /\ pc' = [pc EXCEPT ![t] = "a_next"]
          /\ UNCHANGED <<head, held>>
    /\ UNCHANGED <<next, count, aux, ops>>

(* allocated_count_.fetch_add(1); return node.                             *)
AllocCount(t) ==
    /\ pc[t] = "a_count"
    /\ count' = count + 1
    /\ pc' = [pc EXCEPT ![t] = "idle"]
    /\ UNCHANGED <<head, next, node, aux, held, ops>>

(* Mutant: the range check dropped, any non-null pointer pushed.          *)
StartFreeNoRangeCheck(t, p) ==
    /\ pc[t] = "idle"
    /\ p \in held[t] \cup {Null, Foreign}
    /\ IF p # Null
       THEN /\ ops < MaxOps
            /\ ops' = ops + 1
            /\ held' = [held EXCEPT ![t] = @ \ {p}]
            /\ node' = [node EXCEPT ![t] = p]
            /\ aux' = [aux EXCEPT ![t] = head]
            /\ pc' = [pc EXCEPT ![t] = "f_link"]
       ELSE UNCHANGED <<held, node, aux, pc, ops>>
    /\ UNCHANGED <<head, next, count>>

(* deallocate(ptr): a null or foreign pointer returns at once; a block of  *)
(* the arena is given up by its holder and expected = free_list_.load().   *)
(* Only calls with a block count against the bound.                        *)
StartFree(t, p) ==
    /\ pc[t] = "idle"
    /\ p \in held[t] \cup {Null, Foreign}
    /\ IF p \in Blocks
       THEN /\ ops < MaxOps
            /\ ops' = ops + 1
            /\ held' = [held EXCEPT ![t] = @ \ {p}]
            /\ node' = [node EXCEPT ![t] = p]
            /\ aux' = [aux EXCEPT ![t] = head]
            /\ pc' = [pc EXCEPT ![t] = "f_link"]
       ELSE UNCHANGED <<held, node, aux, pc, ops>>
    /\ UNCHANGED <<head, next, count>>

(* node->next.store(expected).                                             *)
FreeLink(t) ==
    /\ pc[t] = "f_link"
    /\ next' = [next EXCEPT ![node[t]] = aux[t]]
    /\ pc' = [pc EXCEPT ![t] = "f_cas"]
    /\ UNCHANGED <<head, count, node, aux, held, ops>>

(* Mutant: the head stored without comparing it with expected.           *)
FreeCasBlind(t) ==
    /\ pc[t] = "f_cas"
    /\ head' = node[t]
    /\ pc' = [pc EXCEPT ![t] = "f_count"]
    /\ UNCHANGED <<next, count, node, aux, held, ops>>

(* compare_exchange_weak(expected, node): on failure expected is reloaded  *)
(* and the link is stored again.                                           *)
FreeCas(t) ==
    /\ pc[t] = "f_cas"
    /\ \/ /\ head = aux[t]
          /\ head' = node[t]
          /\ pc' = [pc EXCEPT ![t] = "f_count"]
          /\ UNCHANGED aux
       \/ /\ head # aux[t]
          /\ aux' = [aux EXCEPT ![t] = head]
          /\ pc' = [pc EXCEPT ![t] = "f_link"]
          /\ UNCHANGED head
    /\ UNCHANGED <<next, count, node, held, ops>>

(* Mutant: deallocate() returns without decrementing the count.           *)
FreeCountMissing(t) ==
    /\ pc[t] = "f_count"
    /\ pc' = [pc EXCEPT ![t] = "idle"]
    /\ UNCHANGED <<head, next, count, node, aux, held, ops>>

(* allocated_count_.fetch_sub(1).                                          *)
FreeCount(t) ==
    /\ pc[t] = "f_count"
    /\ count' = count - 1
    /\ pc' = [pc EXCEPT ![t] = "idle"]
    /\ UNCHANGED <<head, next, node, aux, held, ops>>

(* A PoolBuffer moved to another thread (its move constructor, part_012   *)
(* 72-76): the block changes holder without touching the pool.            *)
Handoff(t, u, b) ==
    /\ t # u /\ pc[t] = "idle"
    /\ b \in held[t]
    /\ held' = [held EXCEPT ![t] = @ \ {b}, ![u] = @ \cup {b}]
    /\ UNCHANGED <<head, next, count, pc, node, aux, ops>>

-----------------------------------------------------------------------------
(* The constructor's reset(): every block pushed in turn, so the list runs *)
(* from the last block to the first; any order of Blocks is one the       *)
(* arena's layout gives.                                                   *)
Init ==
    /\ \E order \in [1 .. Cardinality(Blocks) -> Blocks] :
          /\ \A i, j \in DOMAIN order : i # j => order[i] # order[j]
          /\ head = IF Blocks = {} THEN Null ELSE order[Cardinality(Blocks)]
          /\ next = [b \in Blocks |->
                       LET i == CHOOSE i \in DOMAIN order : order[i] = b
                       IN  IF i = 1 THEN Null ELSE order[i - 1]]
    /\ count = 0
    /\ pc = [t \in Threads |-> "idle"]
    /\ node = [t \in Threads |-> Null]
    /\ aux = [t \in Threads |-> Null]
    /\ held = [t \in Threads |-> {}]
    /\ ops = 0

Next ==
    \E t \in Threads :
        \/ StartAlloc(t) \/ AllocReadNext(t) \/ AllocCas(t) \/ AllocCount(t)
        \/ \E p \in Blocks \cup {Null, Foreign} : StartFree(t, p)
        \/ FreeLink(t) \/ FreeCas(t) \/ FreeCount(t)
        \/ \E u \in Threads, b \in Blocks : Handoff(t, u, b)

Spec == Init /\ [][Next]_vars

-----------------------------------------------------------------------------
(* No block is handed to two holders: the blocks held by different threads *)
(* are disjoint and none of them is on the free list.  An allocate() whose *)
(* CAS (memory_pool.cpp:34) meets the head it loaded, after other threads  *)
(* popped and pushed it back, would install a stale next and break this.   *)
NoDoubleAllocation ==
    /\ \A t, u \in Threads : t # u => held[t] \cap held[u] = {}
    /\ \A t \in Threads : held[t] \cap FreeList = {}

(* When no call is in flight, every block is either on an acyclic free     *)
(* list or held, and allocated_count_ equals the number of blocks held.    *)
QuiescentAccounting ==
    (\A t \in Threads : pc[t] = "idle") =>
        /\ Walk[Cardinality(Blocks)] = Null
        /\ FreeList \cup UNION {held[t] : t \in Threads} = Blocks
        /\ count = Cardinality(UNION {held[t] : t \in Threads})


-----------------------------------------------------------------------------
(* The refinement mapping onto BlockPool.  A block is free once it is on   *)
(* the list; a block given to deallocate() stays its caller's until the    *)
(* CAS that pushes it succeeds, which is where the call takes effect, as   *)
(* allocate() takes effect at its successful CAS.                          *)
AbsHeld ==
    [t \in Threads |->
        held[t] \cup (IF pc[t] \in {"f_link", "f_cas"} THEN {node[t]} ELSE {})]

Abstract == INSTANCE BlockPool WITH free <- FreeList, held <- AbsHeld

(* Spec section 4.8: the pool behaves as an atomic allocator.  Every       *)
(* allocate() and deallocate() of the Treiber stack, split into its loads, *)
(* stores and CASes, is a BlockPool step or no step at all: no block is    *)
(* lost, duplicated or handed out twice by any interleaving of the calls.  *)
PoolRefinement == Abstract!Spec

=============================================================================
