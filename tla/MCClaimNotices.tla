--------------------------- MODULE MCClaimNotices ---------------------------
(* A bounded instance of ClaimNotices for TLC. *)
EXTENDS ClaimNotices, TLC

Symmetry == Permutations(Items) \cup Permutations(ClaimIds) \cup Permutations(Tabs)
=============================================================================
