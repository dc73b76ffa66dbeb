---------------------------- MODULE MCMemoryPool ----------------------------
(* Two blocks and two threads; a pop, a push of the same block and another *)
(* pop fit between one allocate()'s load and its CAS within MaxOps calls.  *)
EXTENDS MemoryPool

CONSTANTS b1, b2, t1, t2, null, foreign

MCBlocks == {b1, b2}
MCThreads == {t1, t2}

=============================================================================
