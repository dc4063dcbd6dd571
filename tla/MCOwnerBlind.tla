---------------------------- MODULE MCOwnerBlind ----------------------------
EXTENDS OwnerBlind, TLC

\* The properties treat the worlds alike, and the owner the lists.
Symmetry == Permutations(ListIds) \cup Permutations(Worlds)
=============================================================================
