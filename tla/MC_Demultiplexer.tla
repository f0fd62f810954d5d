-------------------------- MODULE MC_Demultiplexer --------------------------
EXTENDS Demultiplexer, TLC

CONSTANTS s1, s2, k1, k2

TwoSubs == {s1, s2}
TwoKeys == {k1, k2}
OneKey == {k1}

\* Subscribers are interchangeable; keys are too.
SubSymmetry == Permutations(TwoSubs)
=============================================================================
