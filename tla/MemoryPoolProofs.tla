-------------------------- MODULE MemoryPoolProofs --------------------------
(***************************************************************************)
(* Proofs about the lock-free block pool of MemoryPool.tla: type           *)
(* correctness for any finite arena, any finite set of threads and one     *)
(* allocating thread, as in the memory_pool run.  With one allocator the   *)
(* only next an allocate() loads is that of the free head, which no caller *)
(* holds; the model's next, which a holder's data never overwrites, is     *)
(* then the code's.  With several allocators a stale allocate() can load   *)
(* the next of a block another thread holds and has written over (part_012 *)
(* 43-45), which the model does not represent, so no claim is made there.  *)
(*                                                                         *)
(* TypeOK is not inductive.  CountCovers strengthens it: allocated_count_  *)
(* is at least the number of (thread, block) holdings whose allocate() has *)
(* counted them, plus the number of deallocate() calls that have given a   *)
(* block up and not yet decremented.  A holding is counted once its        *)
(* allocate() has passed the fetch_add; a deallocate() gives one holding   *)
(* up for one pending fetch_sub, and a hand-off moves a holding.  The      *)
(* inequality (not an equality) is what survives an ABA double allocation, *)
(* where a successful CAS may return a block its thread already holds.    *)
(***************************************************************************)
EXTENDS MemoryPool, FiniteSetTheorems, TLAPS

(* The blocks each thread holds, as (thread, block) pairs.                  *)
HeldPairs == {hb \in Threads \X Blocks : hb[2] \in held[hb[1]]}

(* Threads whose allocate() has won its CAS but not yet counted the block. *)
Claiming == {t \in Threads : pc[t] = "a_count"}
Claimed == {<<t, node[t]>> : t \in Claiming}

(* Threads inside deallocate() after giving their block up.               *)
Freeing == {t \in Threads : pc[t] \in {"f_link", "f_cas", "f_count"}}

CountCovers ==
    count >= Cardinality(HeldPairs \ Claimed) + Cardinality(Freeing)

(* A thread about to CAS a block onto or off the list has a block of the   *)
(* arena in node.                                                          *)
NodeInArena ==
    \A t \in Threads :
        pc[t] \in {"a_cas", "a_count", "f_link", "f_cas", "f_count"} => node[t] \in Blocks

IInv == TypeOK /\ NodeInArena /\ CountCovers

-----------------------------------------------------------------------------
(* Counting lemmas: a set that loses one element it had and gains at most  *)
(* one has at most as many elements; one that gains at most one element    *)
(* has at most one more.                                                   *)
LEMMA CardSwap ==
    ASSUME NEW S, IsFiniteSet(S), NEW x \in S, NEW y, NEW T,
           T \subseteq (S \ {x}) \cup {y}
    PROVE  IsFiniteSet(T) /\ Cardinality(T) <= Cardinality(S)
<1>1. IsFiniteSet(S \ {x}) /\ Cardinality(S \ {x}) = Cardinality(S) - 1
    BY FS_RemoveElement
<1>2. IsFiniteSet((S \ {x}) \cup {y})
      /\ Cardinality((S \ {x}) \cup {y}) <= Cardinality(S \ {x}) + 1
    BY <1>1, FS_AddElement, FS_CardinalityType
<1>3. IsFiniteSet(T) /\ Cardinality(T) <= Cardinality((S \ {x}) \cup {y})
    BY <1>2, FS_Subset
<1> QED
    BY <1>1, <1>2, <1>3, FS_CardinalityType

LEMMA CardGrow ==
    ASSUME NEW S, IsFiniteSet(S), NEW y, NEW T, T \subseteq S \cup {y}
    PROVE  IsFiniteSet(T) /\ Cardinality(T) <= Cardinality(S) + 1
<1>1. IsFiniteSet(S \cup {y})
      /\ Cardinality(S \cup {y}) = IF y \in S THEN Cardinality(S) ELSE Cardinality(S) + 1
    BY FS_AddElement
<1>2. Cardinality(S \cup {y}) <= Cardinality(S) + 1
    BY <1>1, FS_CardinalityType
<1>3. IsFiniteSet(T) /\ Cardinality(T) <= Cardinality(S \cup {y})
    BY <1>1, FS_Subset
<1> QED
    BY <1>1, <1>2, <1>3, FS_CardinalityType

(* The arena and the threads are finite, and so are the sets counted.      *)
LEMMA Finite ==
    /\ IsFiniteSet(Threads \X Blocks)
    /\ IsFiniteSet(HeldPairs \ Claimed)
    /\ IsFiniteSet(Freeing)
    /\ Cardinality(HeldPairs \ Claimed) \in Nat
    /\ Cardinality(Freeing) \in Nat
<1>1. IsFiniteSet(Threads \X Blocks)
    BY ConstantsAssumption, FS_Product
<1>2. IsFiniteSet(HeldPairs \ Claimed)
    <2>1. HeldPairs \ Claimed \subseteq Threads \X Blocks
        BY DEF HeldPairs
    <2> QED
        BY <1>1, <2>1, FS_Subset
<1>3. IsFiniteSet(Freeing)
    BY ConstantsAssumption, FS_Subset DEF Freeing
<1> QED
    BY <1>1, <1>2, <1>3, FS_CardinalityType
(* The constructor's free list is well formed: the order of the pushes is  *)
(* an injection of 1 .. N into the N blocks, hence onto them, so every     *)
(* block's link is the block pushed before it or nullptr.                  *)
LEMMA InitIInv == Init => IInv
<1> SUFFICES ASSUME Init PROVE IInv
    OBVIOUS
<1> DEFINE N == Cardinality(Blocks)
<1>1. N \in Nat /\ IsFiniteSet(Blocks)
    BY ConstantsAssumption, FS_CardinalityType
<1>2. PICK order \in [1 .. N -> Blocks] :
          /\ \A i, j \in DOMAIN order : i # j => order[i] # order[j]
          /\ head = IF Blocks = {} THEN Null ELSE order[N]
          /\ next = [b \in Blocks |->
                       LET i == CHOOSE i \in DOMAIN order : order[i] = b
                       IN  IF i = 1 THEN Null ELSE order[i - 1]]
    BY DEF Init
<1>3. \A b \in Blocks : \E i \in 1 .. N : order[i] = b
    <2>1. order \in Injection(1 .. N, Blocks)
        BY <1>2 DEF Injection, IsInjective
    <2>2. Cardinality(1 .. N) = N
        BY <1>1, FS_Interval
    <2>3. order \in Surjection(1 .. N, Blocks)
        BY <1>1, <2>1, <2>2, FS_Injection
    <2> QED
        BY <2>3 DEF Surjection
<1>4. head \in Ptr
    <2>1. CASE Blocks = {}
        BY <1>2, <2>1 DEF Ptr
    <2>2. CASE Blocks # {}
        <3>1. N # 0
            BY <1>1, <2>2, FS_EmptySet
        <3> QED
            BY <1>1, <1>2, <2>2, <3>1 DEF Ptr
    <2> QED
        BY <2>1, <2>2
<1>5. next \in [Blocks -> Ptr]
    <2> SUFFICES ASSUME NEW b \in Blocks
                 PROVE  (LET i == CHOOSE i \in DOMAIN order : order[i] = b
                         IN  IF i = 1 THEN Null ELSE order[i - 1]) \in Ptr
        BY <1>2
    <2>1. (CHOOSE i \in DOMAIN order : order[i] = b) \in 1 .. N
        BY <1>3
    <2> QED
        BY <1>1, <2>1 DEF Ptr
<1>6. HeldPairs = {} /\ Freeing = {} /\ count = 0
    BY DEF Init, HeldPairs, Freeing
<1>7. CountCovers
    BY <1>6, FS_EmptySet DEF CountCovers
<1>8. TypeOK /\ NodeInArena
    BY <1>4, <1>5, ConstantsAssumption DEF Init, TypeOK, NodeInArena, Pcs, Ptr
<1> QED
    BY <1>7, <1>8 DEF IInv
(* A step that moves no block between holders, leaves allocated_count_    *)
(* alone, and moves no thread into or out of the counting and freeing     *)
(* steps (nor changes the node of a thread about to count) keeps the      *)
(* counted sets and so CountCovers.                                        *)
LEMMA CountFrame ==
    ASSUME CountCovers, UNCHANGED <<held, count>>,
           \A u \in Threads :
              /\ pc'[u] = "a_count" <=> pc[u] = "a_count"
              /\ pc'[u] \in {"f_link", "f_cas", "f_count"}
                   <=> pc[u] \in {"f_link", "f_cas", "f_count"}
              /\ pc[u] = "a_count" => node'[u] = node[u]
    PROVE  CountCovers'
<1>1. HeldPairs' = HeldPairs
    BY DEF HeldPairs
<1>2. Claiming' = Claiming
    BY DEF Claiming
<1>3. Claimed' = Claimed
    BY <1>2 DEF Claimed, Claiming
<1>4. Freeing' = Freeing
    BY DEF Freeing
<1> QED
    BY <1>1, <1>3, <1>4 DEF CountCovers

(* allocate(): node = free_list_.load().                                   *)
LEMMA StartAllocIInv ==
    ASSUME IInv, NEW t \in Threads, StartAlloc(t) PROVE IInv'
<1>1. TypeOK'
    BY ConstantsAssumption DEF IInv, StartAlloc, TypeOK, Pcs
<1>2. NodeInArena'
    <2> SUFFICES ASSUME NEW u \in Threads,
                        pc'[u] \in {"a_cas", "a_count", "f_link", "f_cas", "f_count"}
                 PROVE  node'[u] \in Blocks
        BY DEF NodeInArena
    <2>1. u # t
        BY DEF StartAlloc, IInv, TypeOK
    <2> QED
        BY <2>1 DEF IInv, StartAlloc, TypeOK, NodeInArena
<1>3. CountCovers'
    BY CountFrame DEF IInv, StartAlloc, TypeOK
<1> QED
    BY <1>1, <1>2, <1>3 DEF IInv

(* next = node->next.load(), or nullptr returned on an empty list.         *)
LEMMA AllocReadNextIInv ==
    ASSUME IInv, NEW t \in Threads, AllocReadNext(t) PROVE IInv'
<1>1. pc[t] = "a_next"
    BY DEF AllocReadNext
<1>2. CASE node[t] = Null
    <2>1. pc' = [pc EXCEPT ![t] = "idle"] /\ UNCHANGED <<head, next, count, node, aux, held, ops>>
        BY <1>2 DEF AllocReadNext
    <2>2. TypeOK' /\ NodeInArena'
        BY <1>1, <2>1 DEF IInv, TypeOK, NodeInArena, Pcs
    <2>3. CountCovers'
        BY <1>1, <2>1, CountFrame DEF IInv, TypeOK
    <2> QED
        BY <2>2, <2>3 DEF IInv
<1>3. CASE node[t] # Null
    <2>1. /\ aux' = [aux EXCEPT ![t] = next[node[t]]]
          /\ pc' = [pc EXCEPT ![t] = "a_cas"]
          /\ UNCHANGED <<head, next, count, node, held, ops>>
        BY <1>3 DEF AllocReadNext
    <2>2. node[t] \in Blocks
        BY <1>3 DEF IInv, TypeOK, Ptr
    <2>3. TypeOK' /\ NodeInArena'
        BY <1>1, <2>1, <2>2 DEF IInv, TypeOK, NodeInArena, Pcs
    <2>4. CountCovers'
        BY <1>1, <2>1, CountFrame DEF IInv, TypeOK
    <2> QED
        BY <2>3, <2>4 DEF IInv
<1> QED
    BY <1>2, <1>3
(* compare_exchange_weak in allocate(): on success the thread holds its   *)
(* block, which is claimed and not yet counted; on failure it reloads.     *)
LEMMA AllocCasIInv ==
    ASSUME IInv, NEW t \in Threads, AllocCas(t) PROVE IInv'
<1>1. pc[t] = "a_cas" /\ node[t] \in Blocks /\ UNCHANGED <<next, count, aux, ops>>
    BY DEF AllocCas, IInv, NodeInArena
<1>2. CASE head = node[t]
    <2>1. /\ head' = aux[t]
          /\ held' = [held EXCEPT ![t] = @ \cup {node[t]}]
          /\ pc' = [pc EXCEPT ![t] = "a_count"]
          /\ UNCHANGED node
        BY <1>2 DEF AllocCas
    <2>2. TypeOK' /\ NodeInArena'
        BY <1>1, <2>1 DEF IInv, TypeOK, NodeInArena, Pcs
    <2>3. HeldPairs' = HeldPairs \cup {<<t, node[t]>>}
        BY <1>1, <2>1 DEF HeldPairs, IInv, TypeOK
    <2>4. Claimed' = Claimed \cup {<<t, node[t]>>}
        BY <1>1, <2>1 DEF Claimed, Claiming, IInv, TypeOK
    <2>5. Freeing' = Freeing
        BY <1>1, <2>1 DEF Freeing, IInv, TypeOK
    <2>6. HeldPairs' \ Claimed' \subseteq HeldPairs \ Claimed
        BY <2>3, <2>4
    <2>7. Cardinality(HeldPairs' \ Claimed') <= Cardinality(HeldPairs \ Claimed)
        BY <2>6, Finite, FS_Subset
    <2>8. Cardinality(HeldPairs' \ Claimed') \in Nat
        BY <2>6, Finite, FS_Subset, FS_CardinalityType
    <2>9. CountCovers'
        BY <1>1, <2>5, <2>7, <2>8, Finite DEF CountCovers, IInv, TypeOK
    <2> QED
        BY <2>2, <2>9 DEF IInv
<1>3. CASE head # node[t]
    <2>1. /\ node' = [node EXCEPT ![t] = head]
          /\ pc' = [pc EXCEPT ![t] = "a_next"]
          /\ UNCHANGED <<head, held>>
        BY <1>3 DEF AllocCas
    <2>2. TypeOK' /\ NodeInArena'
        BY <1>1, <2>1 DEF IInv, TypeOK, NodeInArena, Pcs
    <2>3. CountCovers'
        BY <1>1, <2>1, CountFrame DEF IInv, TypeOK
    <2> QED
        BY <2>2, <2>3 DEF IInv
<1> QED
    BY <1>2, <1>3

(* allocated_count_.fetch_add(1): the claimed holding becomes counted.     *)
LEMMA AllocCountIInv ==
    ASSUME IInv, NEW t \in Threads, AllocCount(t) PROVE IInv'
<1>1. /\ pc[t] = "a_count" /\ count' = count + 1
      /\ pc' = [pc EXCEPT ![t] = "idle"]
      /\ UNCHANGED <<head, next, node, aux, held, ops>>
    BY DEF AllocCount
<1>2. TypeOK' /\ NodeInArena'
    BY <1>1 DEF IInv, TypeOK, NodeInArena, Pcs
<1>3. Claimed \ {<<t, node[t]>>} \subseteq Claimed'
    BY <1>1 DEF Claimed, Claiming, IInv, TypeOK
<1>4. HeldPairs' \ Claimed' \subseteq (HeldPairs \ Claimed) \cup {<<t, node[t]>>}
    BY <1>1, <1>3 DEF HeldPairs
<1>5. Cardinality(HeldPairs' \ Claimed') <= Cardinality(HeldPairs \ Claimed) + 1
    BY <1>4, Finite, CardGrow
<1>6. Freeing' = Freeing
    BY <1>1 DEF Freeing, IInv, TypeOK
<1>7. CountCovers'
    <2>1. IsFiniteSet(HeldPairs' \ Claimed')
        BY <1>4, Finite, CardGrow
    <2>2. Cardinality(HeldPairs' \ Claimed') \in Nat
        BY <2>1, FS_CardinalityType
    <2> QED
        BY <1>1, <1>5, <1>6, <2>2, Finite DEF CountCovers, IInv, TypeOK
<1> QED
    BY <1>2, <1>7 DEF IInv
(* deallocate(ptr) of a block: the holding is given up for one pending    *)
(* fetch_sub; a null or foreign pointer changes nothing.                   *)
LEMMA StartFreeIInv ==
    ASSUME IInv, NEW t \in Threads, NEW p \in Blocks \cup {Null, Foreign},
           StartFree(t, p)
    PROVE  IInv'
<1>1. pc[t] = "idle" /\ p \in held[t] \cup {Null, Foreign} /\ UNCHANGED <<head, next, count>>
    BY DEF StartFree
<1>2. CASE p \in Blocks
    <2>1. /\ ops < MaxOps /\ ops' = ops + 1
          /\ held' = [held EXCEPT ![t] = @ \ {p}]
          /\ node' = [node EXCEPT ![t] = p]
          /\ aux' = [aux EXCEPT ![t] = head]
          /\ pc' = [pc EXCEPT ![t] = "f_link"]
        BY <1>2 DEF StartFree
    <2>2. p \in held[t]
        BY <1>1, <1>2, ConstantsAssumption
    <2>3. TypeOK' /\ NodeInArena'
        BY <1>1, <1>2, <2>1, ConstantsAssumption DEF IInv, TypeOK, NodeInArena, Pcs, Ptr
    <2>4. HeldPairs' = HeldPairs \ {<<t, p>>}
        BY <2>1 DEF HeldPairs, IInv, TypeOK
    <2>5. Claimed' = Claimed /\ <<t, p>> \notin Claimed
        BY <1>1, <2>1 DEF Claimed, Claiming, IInv, TypeOK
    <2>6. HeldPairs' \ Claimed' = (HeldPairs \ Claimed) \ {<<t, p>>}
          /\ <<t, p>> \in HeldPairs \ Claimed
        BY <1>2, <2>2, <2>4, <2>5 DEF HeldPairs
    <2>7. Cardinality(HeldPairs' \ Claimed') = Cardinality(HeldPairs \ Claimed) - 1
        <3>1. Cardinality((HeldPairs \ Claimed) \ {<<t, p>>})
                = Cardinality(HeldPairs \ Claimed) - 1
            BY <2>6, Finite, FS_RemoveElement
        <3> QED
            BY <2>6, <3>1
    <2>8. Freeing' = Freeing \cup {t} /\ t \notin Freeing
        BY <1>1, <2>1 DEF Freeing, IInv, TypeOK
    <2>9. Cardinality(Freeing') = Cardinality(Freeing) + 1
        BY <2>8, Finite, FS_AddElement
    <2>10. CountCovers'
        BY <1>1, <2>7, <2>9, Finite DEF CountCovers, IInv
    <2> QED
        BY <2>3, <2>10 DEF IInv
<1>3. CASE p \notin Blocks
    <2>1. UNCHANGED <<held, node, aux, pc, ops>>
        BY <1>3 DEF StartFree
    <2>2. TypeOK' /\ NodeInArena'
        BY <1>1, <2>1 DEF IInv, TypeOK, NodeInArena
    <2>3. CountCovers'
        BY <1>1, <2>1, CountFrame DEF IInv
    <2> QED
        BY <2>2, <2>3 DEF IInv
<1> QED
    BY <1>2, <1>3

(* node->next.store(expected).                                             *)
LEMMA FreeLinkIInv ==
    ASSUME IInv, NEW t \in Threads, FreeLink(t) PROVE IInv'
<1>1. /\ pc[t] = "f_link" /\ node[t] \in Blocks
      /\ next' = [next EXCEPT ![node[t]] = aux[t]]
      /\ pc' = [pc EXCEPT ![t] = "f_cas"]
      /\ UNCHANGED <<head, count, node, aux, held, ops>>
    BY DEF FreeLink, IInv, NodeInArena
<1>2. TypeOK' /\ NodeInArena'
    BY <1>1 DEF IInv, TypeOK, NodeInArena, Pcs
<1>3. CountCovers'
    BY <1>1, CountFrame DEF IInv, TypeOK
<1> QED
    BY <1>2, <1>3 DEF IInv

(* compare_exchange_weak in deallocate(): the block becomes the head, or   *)
(* expected is reloaded and the link stored again.                         *)
LEMMA FreeCasIInv ==
    ASSUME IInv, NEW t \in Threads, FreeCas(t) PROVE IInv'
<1>1. /\ pc[t] = "f_cas" /\ node[t] \in Blocks
      /\ UNCHANGED <<next, count, node, held, ops>>
    BY DEF FreeCas, IInv, NodeInArena
<1>2. CASE head = aux[t]
    <2>1. head' = node[t] /\ pc' = [pc EXCEPT ![t] = "f_count"] /\ UNCHANGED aux
        BY <1>2 DEF FreeCas
    <2>2. TypeOK' /\ NodeInArena'
        BY <1>1, <2>1 DEF IInv, TypeOK, NodeInArena, Pcs, Ptr
    <2>3. CountCovers'
        BY <1>1, <2>1, CountFrame DEF IInv, TypeOK
    <2> QED
        BY <2>2, <2>3 DEF IInv
<1>3. CASE head # aux[t]
    <2>1. aux' = [aux EXCEPT ![t] = head] /\ pc' = [pc EXCEPT ![t] = "f_link"]
          /\ UNCHANGED head
        BY <1>3 DEF FreeCas
    <2>2. TypeOK' /\ NodeInArena'
        BY <1>1, <2>1 DEF IInv, TypeOK, NodeInArena, Pcs
    <2>3. CountCovers'
        BY <1>1, <2>1, CountFrame DEF IInv, TypeOK
    <2> QED
        BY <2>2, <2>3 DEF IInv
<1> QED
    BY <1>2, <1>3
(* allocated_count_.fetch_sub(1): the pending decrement the thread's own   *)
(* freeing accounted for, so the count stays a natural number.             *)
LEMMA FreeCountIInv ==
    ASSUME IInv, NEW t \in Threads, FreeCount(t) PROVE IInv'
<1>1. /\ pc[t] = "f_count" /\ count' = count - 1
      /\ pc' = [pc EXCEPT ![t] = "idle"]
      /\ UNCHANGED <<head, next, node, aux, held, ops>>
    BY DEF FreeCount
<1>2. Freeing' = Freeing \ {t} /\ t \in Freeing
    BY <1>1 DEF Freeing, IInv, TypeOK
<1>3. Cardinality(Freeing') = Cardinality(Freeing) - 1
    <2>1. Cardinality(Freeing \ {t}) = Cardinality(Freeing) - 1
        BY <1>2, Finite, FS_RemoveElement
    <2> QED
        BY <1>2, <2>1
<1>4. Cardinality(Freeing) >= 1
    <2>1. Cardinality(Freeing) # 0
        BY <1>2, Finite, FS_EmptySet
    <2> QED
        BY <2>1, Finite
<1>5. HeldPairs' \ Claimed' = HeldPairs \ Claimed
    BY <1>1 DEF HeldPairs, Claimed, Claiming, IInv, TypeOK
<1>6. count - 1 \in Nat /\ CountCovers'
    <2>1. count \in Nat
          /\ count >= Cardinality(HeldPairs \ Claimed) + Cardinality(Freeing)
        BY DEF IInv, TypeOK, CountCovers
    <2>2. count - 1 \in Nat
          /\ count - 1 >= Cardinality(HeldPairs \ Claimed) + (Cardinality(Freeing) - 1)
        BY <1>4, <2>1, Finite
    <2> QED
        BY <1>1, <1>3, <1>5, <2>2 DEF CountCovers
<1>7. TypeOK' /\ NodeInArena'
    BY <1>1, <1>6 DEF IInv, TypeOK, NodeInArena, Pcs
<1> QED
    BY <1>6, <1>7 DEF IInv

(* A PoolBuffer moved to another thread: one holding swapped for another.  *)
LEMMA HandoffIInv ==
    ASSUME IInv, NEW t \in Threads, NEW u \in Threads, NEW b \in Blocks,
           Handoff(t, u, b)
    PROVE  IInv'
<1>1. /\ t # u /\ pc[t] = "idle" /\ b \in held[t]
      /\ held' = [held EXCEPT ![t] = @ \ {b}, ![u] = @ \cup {b}]
      /\ UNCHANGED <<head, next, count, pc, node, aux, ops>>
    BY DEF Handoff
<1>2. TypeOK' /\ NodeInArena'
    BY <1>1 DEF IInv, TypeOK, NodeInArena
<1>3. Claimed' = Claimed /\ Freeing' = Freeing
    BY <1>1 DEF Claimed, Claiming, Freeing
<1>4. <<t, b>> \in HeldPairs \ Claimed
    BY <1>1 DEF HeldPairs, Claimed, Claiming, IInv, TypeOK
<1>5. HeldPairs' \ Claimed' \subseteq ((HeldPairs \ Claimed) \ {<<t, b>>}) \cup {<<u, b>>}
    BY <1>1, <1>3 DEF HeldPairs, IInv, TypeOK
<1>6. IsFiniteSet(HeldPairs' \ Claimed')
      /\ Cardinality(HeldPairs' \ Claimed') <= Cardinality(HeldPairs \ Claimed)
    BY <1>4, <1>5, Finite, CardSwap
<1>7. Cardinality(HeldPairs' \ Claimed') \in Nat
    BY <1>6, FS_CardinalityType
<1>8. CountCovers'
    BY <1>1, <1>3, <1>6, <1>7, Finite DEF CountCovers, IInv, TypeOK
<1> QED
    BY <1>2, <1>8 DEF IInv

(* A stuttering step keeps the invariant.                                  *)
LEMMA StutterIInv ==
    ASSUME IInv, UNCHANGED vars PROVE IInv'
<1>1. TypeOK' /\ NodeInArena'
    BY DEF vars, IInv, TypeOK, NodeInArena
<1>2. CountCovers'
    BY CountFrame DEF vars, IInv
<1> QED
    BY <1>1, <1>2 DEF IInv

(* Every step of the pool and its callers keeps the invariant.             *)
LEMMA NextIInv ==
    IInv /\ [Next]_vars => IInv'
<1> SUFFICES ASSUME IInv, [Next]_vars PROVE IInv'
    OBVIOUS
<1>1. CASE UNCHANGED vars
    BY <1>1, StutterIInv
<1>2. CASE Next
    <2> PICK t \in Threads :
          \/ StartAlloc(t) \/ AllocReadNext(t) \/ AllocCas(t) \/ AllocCount(t)
          \/ \E p \in Blocks \cup {Null, Foreign} : StartFree(t, p)
          \/ FreeLink(t) \/ FreeCas(t) \/ FreeCount(t)
          \/ \E v \in Threads, b \in Blocks : Handoff(t, v, b)
        BY <1>2 DEF Next
    <2>1. CASE StartAlloc(t)
        BY <2>1, StartAllocIInv
    <2>2. CASE AllocReadNext(t)
        BY <2>2, AllocReadNextIInv
    <2>3. CASE AllocCas(t)
        BY <2>3, AllocCasIInv
    <2>4. CASE AllocCount(t)
        BY <2>4, AllocCountIInv
    <2>5. CASE \E p \in Blocks \cup {Null, Foreign} : StartFree(t, p)
        BY <2>5, StartFreeIInv
    <2>6. CASE FreeLink(t)
        BY <2>6, FreeLinkIInv
    <2>7. CASE FreeCas(t)
        BY <2>7, FreeCasIInv
    <2>8. CASE FreeCount(t)
        BY <2>8, FreeCountIInv
    <2>9. CASE \E v \in Threads, b \in Blocks : Handoff(t, v, b)
        BY <2>9, HandoffIInv
    <2> QED
        BY <2>1, <2>2, <2>3, <2>4, <2>5, <2>6, <2>7, <2>8, <2>9
<1> QED
    BY <1>1, <1>2

(* The invariant holds in every behaviour of the model, whatever the set  *)
(* of allocating threads; the step lemmas never use Allocators.            *)
LEMMA ModelIInv == Spec => []IInv
BY InitIInv, NextIInv, PTL DEF Spec

(* Type correctness of the pool with one allocating thread: every pointer  *)
(* that allocate() loads from free_list_ or from a node's next, that       *)
(* deallocate() links or installs, and that a caller holds is a block of   *)
(* the arena or nullptr, for any finite arena and any number of threads    *)
(* freeing and passing blocks on; and allocated_count_ stays a natural     *)
(* number, at least the blocks counted out and not yet given back.         *)
THEOREM TypeCorrect ==
    ASSUME Cardinality(Allocators) <= 1
    PROVE  Spec => []TypeOK
<1>1. Spec => []IInv
    BY ModelIInv
<1> QED
    BY <1>1, PTL DEF IInv

=============================================================================
