-------------------------- MODULE MCShadowAttempts --------------------------
\* The model values of ShadowAttempts.
EXTENDS ShadowAttempts, TLC

\* The highs are old, so the roots differ in nothing.
MCHighAt == [r \in Roots |-> 0]
Symmetry == Permutations(Roots)
=============================================================================
