---------------------------- MODULE MCLinkHealth ----------------------------
(* Bounded instances of LinkHealth for TLC. *)
EXTENDS LinkHealth, TLC

\* One URL on each shop.
OwnHost == [u \in Urls |-> u]

\* What forms post: a link whose lookup went well, maybe not the one looked up;
\* or no link.
OkLinks == Urls \X {"ok"}
OkOrNoLink == OkLinks \cup {<<NoUrl, "unknown">>}

\* An edit and a restart, which may cut the edit off, while there are two items;
\* neither of them once there is a third, which is for the order of a sweep.
EditAndRestartOfTwo ==
    \/ Len(never \o looked) <= 2
    \/ edits = 0 /\ edit = NoEdit /\ restarts = 0

\* Ids and shops are only compared.
Symmetry == Permutations(ItemIds) \cup Permutations(Urls)
=============================================================================
