------------------------------- MODULE Tables -------------------------------
(***************************************************************************)
(* A SQL table is a function from the primary keys present to their rows.  *)
(***************************************************************************)
EXTENDS Functions

EmptyTable == [k \in {} |-> {}]

\* INSERT of a row whose key is new.
Put(table, key, row) ==
    [k \in DOMAIN table \cup {key} |-> IF k = key THEN row ELSE table[k]]

\* DELETE of the rows with the given keys.
Drop(table, keys) == Restrict(table, DOMAIN table \ keys)
=============================================================================
