---------------------------- MODULE MCConclusion ----------------------------
EXTENDS Conclusion, TLC

CONSTANTS s1, s2

SourceSymmetry == Permutations(Sources)
=============================================================================
