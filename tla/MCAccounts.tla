----------------------------- MODULE MCAccounts -----------------------------
(* A bounded instance of Accounts and its pages for TLC. *)
EXTENDS AccountPages, TLC

\* Passwords, requests, invites and those who register are only compared.
Symmetry ==
    UNION {Permutations(S) : S \in {Passwords, Requests, Invites, Users \ {First}}}

\* A second session or a second invite, and so a second registration; not both.
SecondSessionOrInvite == issued + Cardinality(DOMAIN invites) <= 3
=============================================================================
