---------------------------- MODULE MCAtomicQueue ----------------------------
(* TLC instance of AtomicQueue: the .cfg names the threads.                 *)
EXTENDS AtomicQueue, TLC

(* Threads of one role, and items, differ in nothing but their names.       *)
Symmetry == Permutations(Producers) \cup Permutations(Consumers)
            \cup Permutations(Items)
=============================================================================
