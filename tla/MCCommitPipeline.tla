-------------------------- MODULE MCCommitPipeline --------------------------
EXTENDS CommitPipeline, TLC

CONSTANTS r1, r2, g

(* Every run from a worktree of its own.                                   *)
Apart == [s \in Run |-> s]

(* Whatever r2 or git adds hides the move r1's change makes.               *)
HidesOne == [c \in Change |-> IF c = r1 THEN Change \ {r1} ELSE {}]
=============================================================================
