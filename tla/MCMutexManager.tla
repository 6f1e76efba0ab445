--------------------------- MODULE MCMutexManager ---------------------------
(* Instances of MutexManager for TLC. *)
EXTENDS MutexManager

CONSTANTS p1, p2, p3

\* The priority of each process; 0 is the highest.
Priorities == [p \in Proc |-> IF p = p1 THEN 2 ELSE IF p = p2 THEN 1 ELSE 0]

MutexSymmetry == Permutations(Mutex)
=============================================================================
