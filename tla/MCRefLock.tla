----------------------------- MODULE MCRefLock -----------------------------
EXTENDS RefLock, TLC

CONSTANTS p1, p2, p3

(* One machine; p2 and p3 may be given the same pid one after the other.   *)
Here      == [p \in Proc |-> "here"]
SharedPid == [p \in Proc |-> IF p = p1 THEN 1 ELSE 2]
OwnPids   == [p \in Proc |-> p]

InodeSymmetry == Permutations(Inode)
=============================================================================
