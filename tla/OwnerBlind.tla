----------------------------- MODULE OwnerBlind -----------------------------
(***************************************************************************)
(* Owner-blindness: a list owner must never learn anything about claims on *)
(* their own items.  It is a property of pairs of runs, so the module runs *)
(* two copies of one owner's items side by side.  The owner sends the same *)
(* requests to both; the claimers act in each as they like.  Whatever the  *)
(* owner can look at must then be equal in the two worlds.                 *)
(*                                                                         *)
(* The one accepted leak, that a quantity cannot go below what is claimed, *)
(* is taken out: UpdateItem happens only when both worlds give the same    *)
(* answer.  The lists stay; titles and prices are left out, the same in    *)
(* both worlds; a sort by price or category compares those first and then  *)
(* falls back on the order modelled here.  Every claim is of one unit.     *)
(***************************************************************************)
EXTENDS Naturals, FiniteSets, FiniteSetsExt, Tables

CONSTANTS
    Worlds,         \* the two worlds that are compared
    ListIds,        \* the lists of the owner
    MaxItems,       \* bound on the items ever created
    MaxPosition,    \* bound on sort_order
    MaxQuantity,
    Pictures,       \* whether an item may have a picture: a set of BOOLEANs
    Overlapping     \* may the owner send a request while a MoveItem runs?

ASSUME OwnerBlindAssumption ==
    /\ MaxItems \in Nat
    /\ MaxPosition \in Nat
    /\ MaxQuantity \in Nat \ {0}
    /\ Pictures \subseteq BOOLEAN
    /\ Overlapping \in BOOLEAN

ItemIds == 1..MaxItems      \* UUIDv7: the order of the ids is the order of creation
Replies == {"none", "ok", "conflict", "not_found"}

VARIABLES
    created,    \* how many items the owner has created
    items,      \* items[w]: item id -> [list, sort_order, quantity, claimed, deleted, picture]
    moving,     \* moving[w]: what a MoveItem is about to write, [list, order]
    reply       \* reply[w]: the last answer the owner got

vars == <<created, items, moving, reply>>

ItemRow == [list: ListIds, sort_order: Nat, quantity: 1..MaxQuantity,
            claimed: Nat, deleted: BOOLEAN, picture: BOOLEAN]

NoMove == [list |-> "none", order |-> EmptyTable]

-----------------------------------------------------------------------------
(* What the store reads, from the rows t of one world.                     *)

Live(t, i)   == i \in DOMAIN t /\ ~t[i].deleted
On(t, l)     == {i \in DOMAIN t : t[i].list = l}

\* Faulty variant: the page and the reordering see removed items too.
AllOn(t, l) == On(t, l)

LiveOn(t, l) == {i \in On(t, l) : ~t[i].deleted}

\* ORDER BY sort_order, created_at, id.
Before(t, i, j) ==
    \/ t[i].sort_order < t[j].sort_order
    \/ t[i].sort_order = t[j].sort_order /\ i < j

\* The position on the page, from 1.
Rank(t, l, i) == Cardinality({j \in LiveOn(t, l) : Before(t, j, i)}) + 1

\* MAX(sort_order) over the list, removed items included, plus one.
NextPosition(t, l) == Max({t[i].sort_order : i \in On(t, l)} \cup {0}) + 1

-----------------------------------------------------------------------------
(* Faulty variants of the actions below.                                   *)

\* The removal answers differently when it had to keep the row.
TellingDelete(i) ==
    /\ i <= created
    /\ items' = [w \in Worlds |->
                    IF ~Live(items[w], i) THEN items[w]
                    ELSE IF items[w][i].claimed = 0
                    THEN Drop(items[w], {i})
                    ELSE [items[w] EXCEPT ![i].deleted = TRUE]]
    /\ reply' = [w \in Worlds |->
                    IF ~Live(items[w], i) THEN "not_found"
                    ELSE IF items[w][i].claimed = 0 THEN "ok" ELSE "conflict"]
    /\ UNCHANGED <<created, moving>>

\* The claim goes in whether or not a unit is left.
ClaimUnguarded(w, i) ==
    /\ Live(items[w], i)
    /\ items' = [items EXCEPT ![w][i].claimed = @ + 1]
    /\ UNCHANGED <<created, moving, reply>>

-----------------------------------------------------------------------------
(* The owner's requests, the same in both worlds.                          *)

\* A request that is not a MoveItem waits for a running one, unless the owner
\* works in two tabs.
Free == Overlapping \/ \A w \in Worlds : moving[w] = NoMove

CreateItem(l, q, p) ==
    /\ Free
    /\ created < MaxItems
    /\ \A w \in Worlds : NextPosition(items[w], l) <= MaxPosition
    /\ created' = created + 1
    /\ items' = [w \in Worlds |->
                    Put(items[w], created', [list |-> l,
                        sort_order |-> NextPosition(items[w], l),
                        quantity |-> q, claimed |-> 0,
                        deleted |-> FALSE, picture |-> p])]
    /\ reply' = [w \in Worlds |-> "ok"]
    /\ UNCHANGED moving

\* An edit that goes in may also take the picture off or put one on.
UpdateItem(i, q, p) ==
    LET answer(w) ==
            IF ~Live(items[w], i) THEN "not_found"
            ELSE IF q >= items[w][i].claimed THEN "ok" ELSE "conflict"
    IN  /\ Free
        /\ i <= created
        /\ \A v, w \in Worlds : answer(v) = answer(w)       \* the accepted leak
        /\ items' = [w \in Worlds |->
                        IF answer(w) = "ok"
                        THEN [items[w] EXCEPT ![i].quantity = q,
                                              ![i].picture = p]
                        ELSE items[w]]
        /\ reply' = [w \in Worlds |-> answer(w)]
        /\ UNCHANGED <<created, moving>>

\* Mark the row deleted, then delete it if nothing is claimed; its picture row
\* goes with it by ON DELETE CASCADE, or stays.
DeleteItem(i) ==
    /\ Free
    /\ i <= created
    /\ items' = [w \in Worlds |->
                    IF ~Live(items[w], i) THEN items[w]     \* ownedItem: 404
                    ELSE IF items[w][i].claimed = 0
                    THEN Drop(items[w], {i})
                    ELSE [items[w] EXCEPT ![i].deleted = TRUE]]
    /\ reply' = [w \in Worlds |->
                    IF Live(items[w], i) THEN "ok" ELSE "not_found"]
    /\ UNCHANGED <<created, moving>>

MoveItemToList(i, dest) ==
    /\ Free
    /\ i <= created
    /\ \A w \in Worlds : NextPosition(items[w], dest) <= MaxPosition
    /\ items' = [w \in Worlds |->
                    IF Live(items[w], i) /\ items[w][i].list # dest
                    THEN [items[w] EXCEPT
                            ![i].list = dest,
                            ![i].sort_order = NextPosition(items[w], dest)]
                    ELSE items[w]]
    /\ reply' = [w \in Worlds |->
                    IF Live(items[w], i) THEN "ok" ELSE "not_found"]
    /\ UNCHANGED <<created, moving>>

\* MoveItem reads the page and swaps i with its neighbour in memory ...
Swapped(t, l, i, up) ==
    LET k == Rank(t, l, i)
        n == IF up THEN k - 1 ELSE k + 1
    IN  [j \in LiveOn(t, l) |->
            CASE Rank(t, l, j) = k -> n
              [] Rank(t, l, j) = n -> k
              [] OTHER -> Rank(t, l, j)]

MoveItem(i, up) ==
    LET l(w) == items[w][i].list
        k(w) == Rank(items[w], l(w), i)
        inPage(w) == IF up THEN k(w) > 1
                           ELSE k(w) < Cardinality(LiveOn(items[w], l(w)))
    IN  /\ \A w \in Worlds : moving[w] = NoMove
        /\ i <= created
        /\ moving' = [w \in Worlds |->
                        IF Live(items[w], i) /\ inPage(w)
                        THEN [list |-> l(w),
                              order |-> Swapped(items[w], l(w), i, up)]
                        ELSE NoMove]
        /\ reply' = [w \in Worlds |->
                        IF Live(items[w], i) THEN "ok" ELSE "not_found"]
        /\ UNCHANGED <<created, items>>

\* ... and writes the positions back in a second transaction, to the rows that
\* are still live and on the list.
ReorderItems ==
    /\ \E w \in Worlds : moving[w] # NoMove
    /\ items' = [w \in Worlds |->
                    [i \in DOMAIN items[w] |->
                        IF i \in DOMAIN moving[w].order \cap LiveOn(items[w], moving[w].list)
                        THEN [items[w][i] EXCEPT !.sort_order = moving[w].order[i]]
                        ELSE items[w][i]]]
    /\ moving' = [w \in Worlds |-> NoMove]
    /\ UNCHANGED <<created, reply>>

-----------------------------------------------------------------------------
(* The claimers, in one world at a time.                                   *)

CreateClaim(w, i) ==
    /\ Live(items[w], i)
    /\ items[w][i].claimed < items[w][i].quantity
    /\ items' = [items EXCEPT ![w][i].claimed = @ + 1]
    /\ UNCHANGED <<created, moving, reply>>

ReleaseClaim(w, i) ==
    /\ i \in DOMAIN items[w]
    /\ items[w][i].claimed > 0
    /\ items' = [items EXCEPT ![w][i].claimed = @ - 1]
    /\ UNCHANGED <<created, moving, reply>>

-----------------------------------------------------------------------------

Init ==
    /\ created = 0
    /\ items   = [w \in Worlds |-> EmptyTable]
    /\ moving  = [w \in Worlds |-> NoMove]
    /\ reply   = [w \in Worlds |-> "none"]

Next ==
    \/ \E l \in ListIds, q \in 1..MaxQuantity, p \in Pictures : CreateItem(l, q, p)
    \/ \E i \in ItemIds, q \in 1..MaxQuantity, p \in Pictures : UpdateItem(i, q, p)
    \/ \E i \in ItemIds : DeleteItem(i)
    \/ \E i \in ItemIds, dest \in ListIds : MoveItemToList(i, dest)
    \/ \E i \in ItemIds, up \in BOOLEAN : MoveItem(i, up)
    \/ ReorderItems
    \/ \E w \in Worlds, i \in ItemIds : CreateClaim(w, i) \/ ReleaseClaim(w, i)

Spec == Init /\ [][Next]_vars

-----------------------------------------------------------------------------
(* What the owner can look at, in one world.                               *)

\* The list page: which items, in which order.  The edit form of an item is
\* there exactly when the item is on a page.
Page(t, l) ==
    {p \in LiveOn(t, l) \X LiveOn(t, l) : p[1] = p[2] \/ Before(t, p[1], p[2])}

\* What a card says: everything in OwnerItemView that the model keeps.
Card(t, i) == [list |-> t[i].list, quantity |-> t[i].quantity, picture |-> t[i].picture]

\* The pictures the image route serves to the owner.  ImageAccessible joins the
\* items without asking whether they are removed.
Served(t) == {i \in DOMAIN t : t[i].picture}

-----------------------------------------------------------------------------
(* Properties.                                                             *)

\* Rows are well formed, no row claims more than it wants, and only a move in
\* flight has something to write.
TypeOK ==
    /\ created \in 0..MaxItems
    /\ DOMAIN items = Worlds /\ DOMAIN moving = Worlds
    /\ \A w \in Worlds :
          /\ DOMAIN items[w] \subseteq 1..created
          /\ \A i \in DOMAIN items[w] :
                items[w][i] \in ItemRow /\ items[w][i].claimed <= items[w][i].quantity
          /\ moving[w] = NoMove \/ moving[w].list \in ListIds
          /\ \A i \in DOMAIN moving[w].order :
                moving[w].order[i] \in 1..Cardinality(DOMAIN moving[w].order)
    /\ reply \in [Worlds -> Replies]

\* Every list page shows the same items in the same order, with the same cards,
\* in the two worlds: positions are computed over removed rows as well, and
\* which rows were kept depends on the claims.
PagesAgree ==
    \A v, w \in Worlds :
        /\ \A l \in ListIds : Page(items[v], l) = Page(items[w], l)
        /\ \A i \in 1..created :
              Live(items[v], i) => Card(items[v], i) = Card(items[w], i)

\* Every request gets the same answer in the two worlds.
RepliesAgree == \A v, w \in Worlds : reply[v] = reply[w]

\* The owner sees, and is told, the same in the two worlds.
BlindToClaims == PagesAgree /\ RepliesAgree

\* The image route answers the owner the same in the two worlds.
PicturesAgree == \A v, w \in Worlds : Served(items[v]) = Served(items[w])
=============================================================================
