------------------------------- MODULE MCPages -------------------------------
(* A bounded instance of Pages for TLC. *)
EXTENDS Pages, TLC

Symmetry == Permutations(Users) \cup Permutations(ListIds)
            \cup Permutations(ItemIds) \cup Permutations(ClaimIds)
=============================================================================
