--------------------------- MODULE MCTwoLockQueue ---------------------------
(***************************************************************************)
(* Small instances of TwoLockQueue.  Threads, nodes and values are         *)
(* interchangeable.                                                        *)
(***************************************************************************)
EXTENDS TwoLockQueue, TLC

Symmetry == Permutations(Threads) \cup Permutations(Node) \cup Permutations(Value)
=============================================================================
