---------------------------- MODULE MCImageBlobs ----------------------------
EXTENDS ImageBlobs, TLC

\* Request slots, items and pictures of one kind are interchangeable.
Symmetry == Permutations(Requests) \cup Permutations(Items)
=============================================================================
