-------------------------- MODULE MCManagedCache --------------------------
(***************************************************************************)
(* Instances of ManagedCache for TLC.                                      *)
(***************************************************************************)
EXTENDS ManagedCacheInv, TLC

CONSTANTS p1, p2, u1, Alice, l1

\* Everybody runs as the same user.
OneUser == [a \in Actors |-> Alice]

\* p1 runs under sudo on behalf of that user.
Sudo == [a \in Actors |-> IF a = p1 THEN Root ELSE Alice]

NothingProtected == [p \in Procs |-> {}]

Symmetry == Permutations(Inodes) \cup Permutations(Tombs)
============================================================================
