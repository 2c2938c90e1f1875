------------------------------- MODULE MCBump -------------------------------
(* Two submodules in one parent, and that in another repository or not.      *)
EXTENDS Bump, TLC

MCParentOf == [R \in Repo |-> CASE R \in {"s", "t"} -> "p" [] R = "p" /\ "g" \in Repo -> "g" [] OTHER -> None]
MCDepth    == [R \in Repo |-> CASE R \in {"s", "t"} -> 2 [] R = "p" -> 1 [] OTHER -> 0]

RunSymmetry == Permutations(Run)
=============================================================================
