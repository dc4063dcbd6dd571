-------------------------------- MODULE Pages --------------------------------
(***************************************************************************)
(* The pages about lists and claims over the tables of WishStore: what each *)
(* page offers its reader to do, and what the server does when they do it.  *)
(*                                                                         *)
(* A control is a link, a button or a form of a page, named by what it does *)
(* and carrying what it posts.  The operators below build the pages from    *)
(* the tables as the handlers and templates do; the wording and the layout  *)
(* of a page, and the details of an item that only its owner writes, are    *)
(* left out.  Every item here has a picture.                                *)
(*                                                                         *)
(* The list page is read in several queries with nothing to hold the tables *)
(* still between them; one such request runs here beside the writers.       *)
(***************************************************************************)
EXTENDS WishStore

CONSTANT
    MaxWrites   \* bound: writes while one page is being built

VARIABLE
    building    \* the list page being built: who asked, for which list, how far
                \* it is, and what its queries have answered

pageVars == <<lists, shares, items, claims, building>>

Sorts == {"manual", "other"}

-----------------------------------------------------------------------------
(* What the queries of the pages return.                                   *)

ListsOwnedBy(u)   == {l \in DOMAIN lists : lists[l].owner = u}
ListsVisibleTo(u) == {l \in DOMAIN lists \ ListsOwnedBy(u) : CanView(u, l)}

\* LiveItemsForList, with the quantity every card reads from the row.
LiveItems(l) == [i \in {j \in ItemsOn(l) : ~items[j].deleted} |-> items[i].quantity]

\* ClaimsForList: all claims on the items that are on the list, removed or not.
ClaimsForList(l) == Restrict(claims, UNION {ClaimsOn(i) : i \in ItemsOn(l)})

RemovedClaimedItems(l, u) ==
    [i \in {j \in ItemsOn(l) : items[j].deleted /\ \E c \in ClaimsOn(j) : claims[c].claimer = u}
        |-> items[i].quantity]

\* Faulty variant: only claims on lists the claimer can still see.
VisibleClaimsByUser(u) ==
    {c \in DOMAIN claims : claims[c].claimer = u /\ CanView(u, items[claims[c].item].list)}

\* Everything the viewer has claimed, wherever it is now and whoever sees it.
ClaimsByUser(u) == {c \in DOMAIN claims : claims[c].claimer = u /\ OwnerOf(claims[c].item) # u}

\* The dashboard's aggregate counts with the stored counter, in one query.
ProgressForList(l) ==
    LET live == DOMAIN LiveItems(l)
    IN  [items   |-> Cardinality(live),
         claimed |-> Cardinality({i \in live : items[i].claimed_qty >= items[i].quantity})]

-----------------------------------------------------------------------------
(* The cards of a list page.                                               *)

UnitsIn(rows, i) ==
    Cardinality(UNION {{c} \X (1..rows[c].qty) : c \in {d \in DOMAIN rows : rows[d].item = i}})

\* viewerItem: the units left are the quantity on the item's row less the
\* claims' total, which were read at different moments, and never negative.
ViewerItem(i, wanted, rows, removed) ==
    LET taken == UnitsIn(rows, i)
    IN  [item    |-> i,
         removed |-> removed,
         full    |-> taken >= wanted,
         left    |-> IF taken > wanted THEN 0 ELSE wanted - taken,
         claims  |-> {c \in DOMAIN rows : rows[c].item = i}]

\* The live items, then the removed ones the viewer holds.
ViewerItems(live, rows, gone) ==
    {ViewerItem(i, live[i], rows, FALSE) : i \in DOMAIN live}
        \cup {ViewerItem(i, gone[i], rows, TRUE) : i \in DOMAIN gone}

PageItems(u, l) == ViewerItems(LiveItems(l), ClaimsForList(l), RemovedClaimedItems(l, u))

\* Faulty variant: removed items count towards the bar.
ProgressOfAll(cards) ==
    [items |-> Cardinality(cards), claimed |-> Cardinality({v \in cards : v.full})]

\* ListPage.Progress, computed from the cards instead of by a query.
Progress(cards) ==
    LET live == {v \in cards : ~v.removed}
    IN  [items |-> Cardinality(live), claimed |-> Cardinality({v \in live : v.full})]

\* A bar that would stand for nothing is not drawn; the label tells three
\* cases apart.
ClaimBar(p) ==
    IF p.items = 0 THEN "none"
    ELSE IF p.claimed = p.items THEN "every item is claimed"
    ELSE IF p.claimed = 0 THEN "nothing claimed yet"
    ELSE "some claimed"

-----------------------------------------------------------------------------
(* The controls the templates put on a page.                               *)

\* The header of every page.
Nav == {[op |-> o] : o \in {"home", "claims", "account", "help", "logout"}}

OpenList(ls) == {[op |-> "open list", list |-> l] : l \in ls}

NewList == {[op |-> "new list", visibility |-> v] : v \in Visibilities}

\* The two sections of the dashboard, own lists and other people's.
MyListLinks(u)     == OpenList(ListsOwnedBy(u))
FamilyListLinks(u) == OpenList(ListsVisibleTo(u))

Dashboard(u) == Nav \cup NewList \cup MyListLinks(u) \cup FamilyListLinks(u)

\* Only above more than one item.
SortBar(l, n) ==
    {[op |-> "sort", list |-> l, sort |-> s] : s \in IF n > 1 THEN Sorts ELSE {}}

Picture(i) == {[op |-> "picture", item |-> i]}

MoveTargets(u, l) == ListsOwnedBy(u) \ {l}

\* The arrows mean nothing under another sort and are left out.
ReorderForms(i, sort) ==
    {[op |-> "reorder", item |-> i, dir |-> d] :
        d \in IF sort = "manual" THEN {"up", "down"} ELSE {}}

\* One option for each of the owner's other lists; no form without one.
MoveToList(u, l, i) == {[op |-> "move to", item |-> i, dest |-> d] : d \in MoveTargets(u, l)}

OwnerItemCard(u, l, i, sort) ==
    Picture(i)
        \cup {[op |-> "edit", item |-> i], [op |-> "remove", item |-> i]}
        \cup ReorderForms(i, sort)
        \cup MoveToList(u, l, i)

\* Who the settings form can share the list with, and whose box is ticked.
ShareBoxes(l)  == Users \ {lists[l].owner}
TickedBoxes(l) == {v \in ShareBoxes(l) : <<l, v>> \in shares}

ListSettings(l) ==
    [op: {"save settings"}, list: {l}, visibility: Visibilities,
     share: {TickedBoxes(l), ShareBoxes(l)}]
    \cup {[op |-> "delete list", list |-> l]}

OwnerListView(u, l, sort) ==
    LET own == DOMAIN LiveItems(l)
    IN  Nav \cup {[op |-> "add item", list |-> l]} \cup ListSettings(l)
            \cup SortBar(l, Cardinality(own))
            \cup UNION {OwnerItemCard(u, l, i, sort) : i \in own}

\* Faulty variant: the number box goes up to what the item asks for.
ClaimFormUpToQuantity(v) ==
    {[op |-> "claim", item |-> v.item, qty |-> n] :
        n \in IF v.removed \/ v.left = 0 THEN {} ELSE 1..items[v.item].quantity}

\* Not on a removed card and not on a full one; the number goes up to what is
\* left.
ClaimForm(v) ==
    {[op |-> "claim", item |-> v.item, qty |-> n] : n \in IF v.removed THEN {} ELSE 1..v.left}

\* The one other state.
ClaimStateForm(c) ==
    {[op |-> "set state", claim |-> c, state |-> s] : s \in ClaimStates \ {claims[c].state}}

Release(c) == {[op |-> "release", claim |-> c]}

\* Every claim is named on the card; only one's own has controls.
CardClaims(u, v) ==
    UNION {ClaimStateForm(c) \cup Release(c) : c \in {d \in v.claims : claims[d].claimer = u}}

ViewerItemCard(u, v) == Picture(v.item) \cup ClaimForm(v) \cup CardClaims(u, v)

ViewerListView(u, l) ==
    LET cards == PageItems(u, l)
    IN  Nav \cup SortBar(l, Cardinality(cards)) \cup UNION {ViewerItemCard(u, v) : v \in cards}

ListView(u, l, sort) ==
    IF lists[l].owner = u THEN OwnerListView(u, l, sort) ELSE ViewerListView(u, l)

\* The rows of "things you have claimed": a note, the state, and letting go.
ClaimRowForms(c) == {[op |-> "note", claim |-> c]} \cup ClaimStateForm(c) \cup Release(c)

ClaimsPage(u) == Nav \cup UNION {ClaimRowForms(c) : c \in ClaimsByUser(u)}

\* The add form, empty, and the edit form as it is filled in for an item.
NewItemForm(l)  == Nav \cup OpenList({l}) \cup {[op |-> "create item", list |-> l]}
EditItemForm(i) ==
    Nav \cup OpenList({items[i].list}) \cup Picture(i)
        \cup {[op |-> "save item", item |-> i, qty |-> items[i].quantity]}

\* Where a link shared from a phone arrives: nowhere without a list, at the one
\* list's form, or at a page that asks which.
ShareTarget(u) == {[op |-> "add item", list |-> l] : l \in ListsOwnedBy(u)}

-----------------------------------------------------------------------------
(* The administrator's report, for one who is also a reader: on is the      *)
(* browser's cookie that includes one's own lists.                          *)

\* Removed items included, and their claims without asking who is looking.
AuditItemsForList(l)  == ItemsOn(l)
AuditClaimsForList(l) == Restrict(claims, UNION {ClaimsOn(i) : i \in AuditItemsForList(l)})

\* The rows whose stored count is not what their claims add up to.
Drift(l) ==
    {i \in AuditItemsForList(l) : items[i].claimed_qty # UnitsIn(AuditClaimsForList(l), i)}

\* A form, so that a link cannot take the second step.
AuditToggle(on) == {[op |-> "include own", on |-> on]}

AuditPerson(u, person, on) ==
    IF person = u /\ ~on
    THEN AuditToggle(TRUE)
    ELSE (IF person = u THEN AuditToggle(FALSE) ELSE {})
            \cup {[op |-> "report", list |-> l, own |-> on] : l \in ListsOwnedBy(person)}

AuditList(l) == {[op |-> "person", person |-> lists[l].owner]}

\* Without the switch one's own list is not there.
Reported(u, l, on) == l \in DOMAIN lists /\ (Owns(u, l) => on)

\* People, their lists, and the report on each.
Reports(u, on) ==
    (UNION {AuditPerson(u, v, on) : v \in Users})
        \cup (UNION {AuditList(l) : l \in {k \in DOMAIN lists : Reported(u, k, on)}})

-----------------------------------------------------------------------------
(* What the server does with a control.                                    *)

OwnedItem(u, i) == Live(i) /\ Owns(u, items[i].list)

Visible(u, l) == l \in DOMAIN lists /\ CanView(u, l)

ClaimableItem(u, i) == Live(i) /\ Visible(u, items[i].list) /\ OwnerOf(i) # u

\* CreateClaim's transaction, with any key that is free.
ClaimSucceeds(u, i, n) ==
    \/ ClaimIds \subseteq DOMAIN claims
    \/ \E c \in ClaimIds : CanCreateClaim(u, i, n, c)

\* Some page or redirect that is neither "Not found" nor a refusal.
Accepted(u, c) ==
    CASE c.op \in {"home", "claims", "account", "help", "logout", "new list",
                   "include own", "person"} -> TRUE
      [] c.op = "report" -> Reported(u, c.list, c.own)
      [] c.op \in {"open list", "sort"} -> Visible(u, c.list)
      [] c.op \in {"add item", "create item", "save settings", "delete list"} -> Owns(u, c.list)
      [] c.op \in {"edit", "reorder"} -> OwnedItem(u, c.item)
      [] c.op = "remove" -> OwnedItem(u, c.item) /\ CanDeleteItem(u, c.item)
      [] c.op = "move to" -> OwnedItem(u, c.item) /\ CanMoveItem(u, c.item, c.dest)
      [] c.op = "save item" -> OwnedItem(u, c.item) /\ CanUpdateItem(u, c.item, c.qty)
      [] c.op = "picture" -> \E l \in DOMAIN lists : c.item \in ItemsOn(l) /\ CanView(u, l)
      [] c.op = "claim" -> ClaimableItem(u, c.item) /\ ClaimSucceeds(u, c.item, c.qty)
      [] c.op \in {"release", "note", "set state"} -> OwnsClaim(u, c.claim)

-----------------------------------------------------------------------------
(* A list page for somebody else's list, query by query.                   *)

NoPage == [step |-> "none", writes |-> 0, viewer |-> {}, list |-> {}, live |-> EmptyTable,
           rows |-> EmptyTable, gone |-> EmptyTable, held |-> {}]

\* What the reader holds on the list.
HeldOn(l, u) == {c \in DOMAIN claims : claims[c].claimer = u /\ items[claims[c].item].list = l}

\* Faulty variant: the removed items are asked for first.
RemovedFirst == [start |-> "removed", removed |-> "items", items |-> "claims", claims |-> "shown"]

\* The order of the queries: what follows each.
Order == [start |-> "items", items |-> "claims", claims |-> "removed", removed |-> "shown"]

\* VisibleList answers before anything of the list is read.
StartPage(u, l) ==
    /\ building.step = "none"
    /\ Visible(u, l)
    /\ ~Owns(u, l)
    /\ building' = [NoPage EXCEPT !.step = Order.start, !.viewer = u, !.list = l,
                                  !.held = HeldOn(l, u)]
    /\ UNCHANGED vars

ReadItems ==
    /\ building.step = "items"
    /\ building' = [building EXCEPT !.step = Order.items, !.live = LiveItems(building.list)]
    /\ UNCHANGED vars

\* ClaimsForList asks for the owner again, and the list may be gone by now.
ReadClaims ==
    /\ building.step = "claims"
    /\ building' = IF building.list \in DOMAIN lists
                   THEN [building EXCEPT !.step = Order.claims,
                                         !.rows = ClaimsForList(building.list)]
                   ELSE NoPage
    /\ UNCHANGED vars

ReadRemoved ==
    /\ building.step = "removed"
    /\ building' = [building EXCEPT !.step = Order.removed,
                        !.gone = RemovedClaimedItems(building.list, building.viewer)]
    /\ UNCHANGED vars

SendPage ==
    /\ building.step = "shown"
    /\ building' = NoPage
    /\ UNCHANGED vars

\* Anybody's write, between two queries; who may see the list is not read again,
\* so that only writes of items and claims matter by then.  What is held throughout
\* the building is remembered; the claims of a list that is gone are not.
Write ==
    /\ building.step # "shown" /\ building.writes < MaxWrites
    /\ Next
    /\ building.step # "none" => <<items, claims>>' # <<items, claims>>
    /\ building' = IF building.step = "none" THEN building
                   ELSE [building EXCEPT !.writes = @ + 1, !.held =
                           {c \in @ \cap DOMAIN claims' : items'[claims'[c].item].list = building.list}]

PagesInit == Init /\ building = NoPage

PagesNext ==
    \/ Write
    \/ \E u \in Users, l \in ListIds : StartPage(u, l)
    \/ ReadItems
    \/ ReadClaims
    \/ ReadRemoved
    \/ SendPage

PagesSpec == PagesInit /\ [][PagesNext]_pageVars

-----------------------------------------------------------------------------
(* Properties.                                                             *)

\* All that u can come to from the home page, one page after the other.
InReach(u) ==
    Dashboard(u)
        \cup (UNION {UNION {ListView(u, l, s) : s \in Sorts} :
                        l \in ListsOwnedBy(u) \cup ListsVisibleTo(u)})
        \cup ClaimsPage(u)
        \cup (UNION {NewItemForm(l) : l \in ListsOwnedBy(u)})
        \cup (UNION {EditItemForm(i) : i \in UNION {DOMAIN LiveItems(l) : l \in ListsOwnedBy(u)}})
        \cup ShareTarget(u)
        \cup (UNION {Reports(u, on) : on \in BOOLEAN})

\* A page never offers what the server would refuse at that moment: every link
\* leads somewhere, every number in a claim box can be claimed, an edit form that
\* is saved as it came is saved, and a claim can be let go of from every page that
\* shows it, removed item or hidden list or not.
FreshControlsWork ==
    building = NoPage => \A u \in Users : \A c \in InReach(u) : Accepted(u, c)

\* And the other way: whatever the tables would let somebody do, some page they
\* can come to offers it.
NothingIsOutOfReach ==
    building = NoPage => \A u \in Users :
        LET offered == InReach(u)
        IN  /\ \A c \in DOMAIN claims : OwnsClaim(u, c) =>
                  Release(c) \cup ClaimStateForm(c) \cup {[op |-> "note", claim |-> c]}
                      \subseteq offered
            /\ \A i \in DOMAIN items, n \in Quantities :
                  ClaimIds \ DOMAIN claims # {} /\ ClaimSucceeds(u, i, n) =>
                      [op |-> "claim", item |-> i, qty |-> n] \in offered
            /\ \A i \in DOMAIN items : Live(i) /\ CanDeleteItem(u, i) =>
                  {[op |-> "remove", item |-> i], [op |-> "edit", item |-> i]} \subseteq offered
            /\ \A i \in DOMAIN items, d \in DOMAIN lists :
                  d # items[i].list /\ CanMoveItem(u, i, d) =>
                      [op |-> "move to", item |-> i, dest |-> d] \in offered
            /\ \A l \in DOMAIN lists : Owns(u, l) => ListSettings(l) \subseteq offered
            /\ \A l \in DOMAIN lists, on \in BOOLEAN : Reported(u, l, on) =>
                  [op |-> "report", list |-> l, own |-> on] \in offered

\* The bar on a list page, counted from its cards and their claims, says what the
\* dashboard's bar for the same list says, counted from the stored counter; and
\* the report, which looks at removed items as well, finds no row that drifted.
BarsAgree ==
    building = NoPage =>
        /\ \A u \in Users : \A l \in ListsVisibleTo(u) :
              /\ Progress(PageItems(u, l)) = ProgressForList(l)
              /\ ClaimBar(Progress(PageItems(u, l))) = ClaimBar(ProgressForList(l))
        /\ \A l \in DOMAIN lists : Drift(l) = {}

\* However the owner's edits, moves and removals fall between the queries of a
\* list page, what its reader holds on that list from the first query to the last
\* is on the page.
HeldClaimsAreShown ==
    building.step = "shown" =>
        building.held \subseteq
            UNION {v.claims : v \in ViewerItems(building.live, building.rows, building.gone)}
=============================================================================
