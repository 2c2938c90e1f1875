------------------------------- MODULE MCUndo -------------------------------
EXTENDS Undo, TLC

CONSTANTS s1, s2

SessionSymmetry == Permutations(Session)
=============================================================================
