----------------------------- MODULE ClaimLedger -----------------------------
(***************************************************************************)
(* What the claim system promises, with no counter and no tables: every    *)
(* item asks for a number of units, people take units, and the units taken *)
(* never exceed the units asked for.  Every guard counts the units that    *)
(* are actually taken.  WishStore keeps a denormalised claimed_qty column  *)
(* instead, and WishStore's runs and proofs show it implements this.       *)
(***************************************************************************)
EXTENDS Naturals, FiniteSets, Tables

CONSTANTS Users, ItemIds, ClaimIds, MaxQuantity

VARIABLES
    offered,    \* offered[i]: the units item i asks for, and whether it is open
    taken       \* taken[k]: who took how many units of which item

ledgerVars == <<offered, taken>>

TakenFrom(i) == {k \in DOMAIN taken : taken[k].item = i}

\* One element for every unit of i that somebody has taken.
UnitsTaken(i) == UNION {{k} \X (1..taken[k].qty) : k \in TakenFrom(i)}

Held(i) == Cardinality(UnitsTaken(i))

Init ==
    /\ offered = EmptyTable
    /\ taken = EmptyTable

Offer(i, q) ==
    /\ i \notin DOMAIN offered
    /\ offered' = Put(offered, i, [wanted |-> q, open |-> TRUE])
    /\ UNCHANGED taken

\* The owner may change their mind, but not below what is taken.
Amend(i, q) ==
    /\ i \in DOMAIN offered
    /\ offered[i].open
    /\ Held(i) <= q
    /\ offered' = [offered EXCEPT ![i].wanted = q]
    /\ UNCHANGED taken

\* Withdrawing an item somebody holds closes it and keeps what they hold.
Close(i) ==
    /\ i \in DOMAIN offered
    /\ TakenFrom(i) # {}
    /\ offered' = [offered EXCEPT ![i].open = FALSE]
    /\ UNCHANGED taken

Forget(i) ==
    /\ i \in DOMAIN offered
    /\ TakenFrom(i) = {}
    /\ offered' = Drop(offered, {i})
    /\ UNCHANGED taken

Take(k, u, i, n) ==
    /\ k \notin DOMAIN taken
    /\ i \in DOMAIN offered
    /\ offered[i].open
    /\ Held(i) + n <= offered[i].wanted
    /\ taken' = Put(taken, k, [item |-> i, by |-> u, qty |-> n])
    /\ UNCHANGED offered

GiveBack(k) ==
    /\ k \in DOMAIN taken
    /\ taken' = Drop(taken, {k})
    /\ UNCHANGED offered

\* A whole list goes, with whatever was taken from it.
Erase(S) ==
    /\ offered' = Drop(offered, S)
    /\ taken' = Drop(taken, {k \in DOMAIN taken : taken[k].item \in S})

Next ==
    \/ \E i \in ItemIds, q \in 1..MaxQuantity : Offer(i, q) \/ Amend(i, q)
    \/ \E i \in ItemIds : Close(i) \/ Forget(i)
    \/ \E k \in ClaimIds, u \in Users, i \in ItemIds, n \in 1..MaxQuantity :
          Take(k, u, i, n)
    \/ \E k \in ClaimIds : GiveBack(k)
    \/ \E S \in SUBSET ItemIds : Erase(S)

Spec == Init /\ [][Next]_ledgerVars
=============================================================================
