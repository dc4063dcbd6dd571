------------------------------ MODULE WishStore ------------------------------
(***************************************************************************)
(* The lists, shares, items and claims tables and the store methods that   *)
(* write them.  SQLite runs every method on one connection, and a method   *)
(* with more than one statement inside BEGIN IMMEDIATE, so a method is one *)
(* atomic action here.  A method that returns an error writes nothing and  *)
(* is therefore not a step.                                                *)
(*                                                                         *)
(* Each action also carries the authorisation its HTTP handler does before *)
(* calling the method, evaluated in the same step.  The handlers evaluate  *)
(* it in earlier, separate reads; what a stale answer of theirs can do is  *)
(* not in this module.                                                     *)
(*                                                                         *)
(* Left out of the rows: names, titles, notes, prices, timestamps and      *)
(* sort_order.  Primary keys are UUIDs; a key is taken again here once its *)
(* row is gone, which only renames the reachable states.                   *)
(***************************************************************************)
EXTENDS Naturals, FiniteSets, Tables

CONSTANTS
    Users,          \* accounts; there is no operation that deletes one
    ListIds,
    ItemIds,
    ClaimIds,
    MaxQuantity     \* the item form accepts 1..99

ASSUME MaxQuantityAssumption == MaxQuantity \in Nat \ {0}

VARIABLES
    lists,      \* list id  -> [owner, visibility]
    shares,     \* the list_shares rows, <<list id, user>>
    items,      \* item id  -> [list, quantity, claimed_qty, deleted]
    claims      \* claim id -> [item, claimer, qty, state]

vars == <<lists, shares, items, claims>>

Quantities   == 1..MaxQuantity
Visibilities == {"private", "all_users", "selected"}
ClaimStates  == {"claimed", "purchased"}

ListRow  == [owner: Users, visibility: Visibilities]
ItemRow  == [list: ListIds, quantity: Quantities, claimed_qty: Nat, deleted: BOOLEAN]
ClaimRow == [item: ItemIds, claimer: Users, qty: Quantities, state: ClaimStates]

-----------------------------------------------------------------------------
(* Reads the methods share.                                                *)

Owns(u, l)  == l \in DOMAIN lists /\ lists[l].owner = u
OwnerOf(i)  == lists[items[i].list].owner
Live(i)     == i \in DOMAIN items /\ ~items[i].deleted
ItemsOn(l)  == {i \in DOMAIN items : items[i].list = l}
ClaimsOn(i) == {c \in DOMAIN claims : claims[c].item = i}

\* The predicate every page is shown by.
CanView(u, l) ==
    \/ lists[l].owner = u
    \/ lists[l].visibility = "all_users"
    \/ lists[l].visibility = "selected" /\ <<l, u>> \in shares

\* Faulty variant: the share check is lost.
CanClaimIgnoringShares(u, l) ==
    /\ lists[l].owner # u
    /\ lists[l].visibility # "private"

\* What CreateClaim checks again inside its transaction.
CanClaim(u, l) ==
    /\ lists[l].owner # u
    /\ lists[l].visibility = "selected" => <<l, u>> \in shares
    /\ lists[l].visibility # "private"

-----------------------------------------------------------------------------
(* Faulty variants of the actions that follow: what a plausible bug would  *)
(* make of each.  No specification uses them; they show that the           *)
(* properties at the end of the module notice such a bug.                  *)

\* UpdateItem without AND ? >= claimed_qty.
UpdateItemUnguarded(u, i, q) ==
    /\ Live(i)
    /\ OwnerOf(i) = u
    /\ items' = [items EXCEPT ![i].quantity = q]
    /\ UNCHANGED <<lists, shares, claims>>

\* UpdateItem without AND deleted_at IS NULL.
UpdateRemovedItem(u, i, q) ==
    /\ i \in DOMAIN items
    /\ OwnerOf(i) = u
    /\ items[i].claimed_qty <= q
    /\ items' = [items EXCEPT ![i].quantity = q]
    /\ UNCHANGED <<lists, shares, claims>>

\* DeleteItem without AND claimed_qty = 0.
DeleteItemOutright(u, i) ==
    /\ i \in DOMAIN items
    /\ OwnerOf(i) = u
    /\ items' = Drop(items, {i})
    /\ claims' = Drop(claims, ClaimsOn(i))
    /\ UNCHANGED <<lists, shares>>

\* DeleteList on a connection without PRAGMA foreign_keys.
DeleteListNoCascade(u, l) ==
    /\ Owns(u, l)
    /\ lists' = Drop(lists, {l})
    /\ UNCHANGED <<shares, items, claims>>

\* MoveItemToList without the destOwnerID comparison.
MoveToAnyList(u, i, dest) ==
    /\ Live(i)
    /\ OwnerOf(i) = u
    /\ dest \in DOMAIN lists
    /\ items' = [items EXCEPT ![i].list = dest]
    /\ UNCHANGED <<lists, shares, claims>>

\* CreateClaim that asks whether anything is left instead of enough.
ClaimIfAnyLeft(u, i, n, c) ==
    /\ Live(i)
    /\ CanClaim(u, items[i].list)
    /\ items[i].claimed_qty < items[i].quantity
    /\ c \notin DOMAIN claims
    /\ items'  = [items EXCEPT ![i].claimed_qty = @ + n]
    /\ claims' = Put(claims, c, [item |-> i, claimer |-> u, qty |-> n,
                                 state |-> "claimed"])
    /\ UNCHANGED <<lists, shares>>

\* CreateClaim without deleted_at IS NULL.
ClaimRemovedItem(u, i, n, c) ==
    /\ i \in DOMAIN items
    /\ CanClaim(u, items[i].list)
    /\ items[i].claimed_qty + n <= items[i].quantity
    /\ c \notin DOMAIN claims
    /\ items'  = [items EXCEPT ![i].claimed_qty = @ + n]
    /\ claims' = Put(claims, c, [item |-> i, claimer |-> u, qty |-> n,
                                 state |-> "claimed"])
    /\ UNCHANGED <<lists, shares>>

\* ReleaseClaim that gives back one unit, whatever the claim held.
ReleaseOneUnit(u, c) ==
    /\ c \in DOMAIN claims
    /\ claims[c].claimer = u
    /\ claims' = Drop(claims, {c})
    /\ items'  = [items EXCEPT ![claims[c].item].claimed_qty = @ - 1]
    /\ UNCHANGED <<lists, shares>>

-----------------------------------------------------------------------------
(* The owner's side.                                                       *)

CreateList(u, l, v) ==
    /\ l \notin DOMAIN lists
    /\ lists' = Put(lists, l, [owner |-> u, visibility |-> v])
    /\ UNCHANGED <<shares, items, claims>>

UpdateList(u, l, v) ==
    /\ Owns(u, l)
    /\ lists' = [lists EXCEPT ![l].visibility = v]
    /\ UNCHANGED <<shares, items, claims>>

\* The form's share boxes, without the owner, replace the list's share rows.
ReplaceShares(u, l, chosen) ==
    /\ Owns(u, l)
    /\ shares' = {s \in shares : s[1] # l} \cup ({l} \X (chosen \ {u}))
    /\ UNCHANGED <<lists, items, claims>>

\* ON DELETE CASCADE takes the shares, the items and the items' claims.
DeleteList(u, l) ==
    /\ Owns(u, l)
    /\ lists'  = Drop(lists, {l})
    /\ shares' = {s \in shares : s[1] # l}
    /\ items'  = Drop(items, ItemsOn(l))
    /\ claims' = Drop(claims, UNION {ClaimsOn(i) : i \in ItemsOn(l)})

CreateItem(u, l, i, q) ==
    /\ Owns(u, l)
    /\ i \notin DOMAIN items
    /\ items' = Put(items, i, [list |-> l, quantity |-> q,
                               claimed_qty |-> 0, deleted |-> FALSE])
    /\ UNCHANGED <<lists, shares, claims>>

\* The WHERE clause refuses a quantity below what is claimed.
CanUpdateItem(u, i, q) == Live(i) /\ OwnerOf(i) = u /\ items[i].claimed_qty <= q

UpdateItem(u, i, q) ==
    /\ CanUpdateItem(u, i, q)
    /\ items' = [items EXCEPT ![i].quantity = q]
    /\ UNCHANGED <<lists, shares, claims>>

\* Both statements of the transaction always run: mark the row deleted, then
\* delete it if nothing is claimed.  Neither needs the row to be live still.
CanDeleteItem(u, i) == i \in DOMAIN items /\ OwnerOf(i) = u

DeleteItem(u, i) ==
    /\ CanDeleteItem(u, i)
    /\ items' = IF items[i].claimed_qty = 0
                THEN Drop(items, {i})
                ELSE [items EXCEPT ![i].deleted = TRUE]
    /\ UNCHANGED <<lists, shares, claims>>

CanMoveItem(u, i, dest) == Live(i) /\ OwnerOf(i) = u /\ Owns(u, dest)

MoveItemToList(u, i, dest) ==
    /\ CanMoveItem(u, i, dest)
    /\ items' = [items EXCEPT ![i].list = dest]
    /\ UNCHANGED <<lists, shares, claims>>

-----------------------------------------------------------------------------
(* The claimer's side.                                                     *)

\* The conditional UPDATE of claimed_qty decides; the claims row follows it.
CanCreateClaim(u, i, n, c) ==
    /\ Live(i)
    /\ CanClaim(u, items[i].list)
    /\ items[i].claimed_qty + n <= items[i].quantity
    /\ c \notin DOMAIN claims

CreateClaim(u, i, n, c) ==
    /\ CanCreateClaim(u, i, n, c)
    /\ items'  = [items EXCEPT ![i].claimed_qty = @ + n]
    /\ claims' = Put(claims, c, [item |-> i, claimer |-> u, qty |-> n,
                                 state |-> "claimed"])
    /\ UNCHANGED <<lists, shares>>

\* The row is looked up by its id and its claimer.
OwnsClaim(u, c) == c \in DOMAIN claims /\ claims[c].claimer = u

\* Works on a removed item too: that is how a claimer lets go of one.
ReleaseClaim(u, c) ==
    /\ OwnsClaim(u, c)
    /\ claims' = Drop(claims, {c})
    /\ items'  = [items EXCEPT ![claims[c].item].claimed_qty = @ - claims[c].qty]
    /\ UNCHANGED <<lists, shares>>

SetClaimState(u, c, s) ==
    /\ OwnsClaim(u, c)
    /\ claims' = [claims EXCEPT ![c].state = s]
    /\ UNCHANGED <<lists, shares, items>>

-----------------------------------------------------------------------------
(* The specification.                                                      *)

Init ==
    /\ lists  = EmptyTable
    /\ shares = {}
    /\ items  = EmptyTable
    /\ claims = EmptyTable

ListStep(u, l) ==
    \/ \E v \in Visibilities : CreateList(u, l, v) \/ UpdateList(u, l, v)
    \/ \E chosen \in SUBSET Users : ReplaceShares(u, l, chosen)
    \/ DeleteList(u, l)

ItemStep(u, i) ==
    \/ \E l \in ListIds, q \in Quantities : CreateItem(u, l, i, q)
    \/ \E q \in Quantities : UpdateItem(u, i, q)
    \/ DeleteItem(u, i)
    \/ \E dest \in ListIds : MoveItemToList(u, i, dest)

ClaimStep(u, c) ==
    \/ \E i \in ItemIds, n \in Quantities : CreateClaim(u, i, n, c)
    \/ ReleaseClaim(u, c)
    \/ \E s \in ClaimStates : SetClaimState(u, c, s)

Next ==
    \E u \in Users :
        \/ \E l \in ListIds : ListStep(u, l)
        \/ \E i \in ItemIds : ItemStep(u, i)
        \/ \E c \in ClaimIds : ClaimStep(u, c)

Spec == Init /\ [][Next]_vars

-----------------------------------------------------------------------------
(* Properties.                                                             *)

\* Every row keeps the schema's types and CHECK constraints: no method relies
\* on CHECK (claimed_qty <= quantity) or CHECK (claimed_qty >= 0) to stop it.
TypeOK ==
    /\ DOMAIN lists \subseteq ListIds /\ lists \in [DOMAIN lists -> ListRow]
    /\ shares \subseteq ListIds \X Users
    /\ DOMAIN items \subseteq ItemIds /\ items \in [DOMAIN items -> ItemRow]
    /\ DOMAIN claims \subseteq ClaimIds /\ claims \in [DOMAIN claims -> ClaimRow]
    /\ \A i \in DOMAIN items : items[i].claimed_qty <= items[i].quantity

\* No row points at a row that is gone, across every cascade.
References ==
    /\ \A s \in shares : s[1] \in DOMAIN lists
    /\ \A i \in DOMAIN items : items[i].list \in DOMAIN lists
    /\ \A c \in DOMAIN claims : claims[c].item \in DOMAIN items

\* The schema's promise: its CHECKs and its FOREIGN KEYs.
SchemaHolds == TypeOK /\ References

\* A claim of n units stands for n pairs, so that the SUM of the claims'
\* quantities is the number of pairs.
ClaimUnits(i) == UNION {{c} \X (1..claims[c].qty) : c \in ClaimsOn(i)}

\* items.claimed_qty is SUM(claims.qty) for that item, after every history of
\* claims, releases, edits, moves, removals and list deletions.
CounterMatchesClaims ==
    \A i \in DOMAIN items : items[i].claimed_qty = Cardinality(ClaimUnits(i))

\* However the claimers and the owner race, the units claimed on an item never
\* exceed the units it asks for.
NoOverclaim ==
    \A i \in DOMAIN items : Cardinality(ClaimUnits(i)) <= items[i].quantity

\* Nobody holds a claim on an item of their own list, also after the item was
\* moved between lists.  Every owner-blind read relies on it.
OwnerNeverClaims ==
    \A c \in DOMAIN claims : OwnerOf(claims[c].item) # claims[c].claimer

\* A claim is only ever made by somebody who can see the list at that moment
\* and is not its owner, on an item that is not removed.
ClaimIsVisible ==
    \A c \in DOMAIN claims' \ DOMAIN claims :
        LET i == claims'[c].item
            u == claims'[c].claimer
        IN  Live(i) /\ CanView(u, items[i].list) /\ OwnerOf(i) # u

ClaimsAreVisible == [][ClaimIsVisible]_vars

\* A claim ends when its claimer gives the units back, or with its whole list;
\* no edit, removal or move by the owner ends it.
ClaimEndsByRelease ==
    \A c \in DOMAIN claims \ DOMAIN claims' :
        LET i == claims[c].item
        IN  \/ items[i].list \notin DOMAIN lists'
            \/ /\ i \in DOMAIN items'
               /\ items'[i].claimed_qty = items[i].claimed_qty - claims[c].qty

ClaimsEndByRelease == [][ClaimEndsByRelease]_vars

\* An item that is claimed keeps its row until its list is deleted, so that the
\* claimer can be shown what became of it.
ClaimedItemIsKept ==
    \A i \in DOMAIN items \ DOMAIN items' :
        ClaimsOn(i) = {} \/ items[i].list \notin DOMAIN lists'

ClaimedItemsAreKept == [][ClaimedItemIsKept]_vars

\* Removal is final: the row never becomes live again, moves, changes quantity
\* or gains a claim.
RemovedItemIsFrozen ==
    \A i \in DOMAIN items \cap DOMAIN items' :
        items[i].deleted =>
            /\ items'[i].deleted
            /\ items'[i].list = items[i].list
            /\ items'[i].quantity = items[i].quantity
            /\ ClaimsOn(i)' \subseteq ClaimsOn(i)

RemovalIsFinal == [][RemovedItemIsFrozen]_vars

\* The tables implement the ledger: the counter column never decides anything
\* the claims themselves would have decided differently.
Ledger == INSTANCE ClaimLedger WITH
    offered <- [i \in DOMAIN items |->
                  [wanted |-> items[i].quantity, open |-> ~items[i].deleted]],
    taken   <- [c \in DOMAIN claims |->
                  [item |-> claims[c].item, by |-> claims[c].claimer,
                   qty |-> claims[c].qty]]

ImplementsLedger == Ledger!Spec
=============================================================================
