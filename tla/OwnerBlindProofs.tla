-------------------------- MODULE OwnerBlindProofs --------------------------
(***************************************************************************)
(* Proofs about OwnerBlind for every number of items, lists, worlds and     *)
(* positions, and every quantity.                                          *)
(***************************************************************************)
EXTENDS OwnerBlind, FiniteSetTheorems, WellFoundedInduction, TLAPS

-----------------------------------------------------------------------------
(* The invariant.                                                          *)

\* Positions are those of new and moved items, or ranks.
Positions == 0..(MaxPosition + MaxItems)

RowOK(row) ==
    row \in ItemRow /\ row.claimed <= row.quantity /\ row.sort_order \in Positions

TableOK(t) == DOMAIN t \subseteq ItemIds /\ \A i \in DOMAIN t : RowOK(t[i])

\* To its owner, one table is as good as the other.
Alike(t, u) ==
    /\ \A i \in ItemIds : Live(t, i) <=> Live(u, i)
    /\ \A i \in ItemIds : Live(t, i) => Card(t, i) = Card(u, i)
    /\ \A i, j \in ItemIds :
          Live(t, i) /\ Live(t, j) /\ t[i].list = t[j].list
              => (Before(t, i, j) <=> Before(u, i, j))

\* What a move will write is of the page as it still is.
MoveOK(m, t) ==
    \/ m = NoMove
    \/ /\ m.list \in ListIds
       /\ DOMAIN m.order = LiveOn(t, m.list)
       /\ \A i \in DOMAIN m.order : m.order[i] \in 1..Cardinality(DOMAIN m.order)

WorldOK(w) ==
    /\ TableOK(items[w]) /\ DOMAIN items[w] \subseteq 1..created
    /\ MoveOK(moving[w], items[w])

Inv ==
    /\ created \in 0..MaxItems
    /\ DOMAIN items = Worlds /\ DOMAIN moving = Worlds
    /\ reply \in [Worlds -> Replies]
    /\ \A w \in Worlds : WorldOK(w)
    /\ \A v, w \in Worlds :
          Alike(items[v], items[w]) /\ moving[v] = moving[w] /\ reply[v] = reply[w]

-----------------------------------------------------------------------------
(* Positions.                                                              *)

\* Every nonempty set of naturals has a least element.
LEMMA Least ==
    ASSUME NEW S \in SUBSET Nat, S # {}
    PROVE  \E x \in S : \A y \in S : x <= y
<1>1. PICK x \in S : \A y \in S : ~ (<<y, x>> \in OpToRel(<, Nat))
  BY NatLessThanWellFounded, WFMin
<1>2. \A y \in S : <<y, x>> \notin {p \in Nat \X Nat : p[1] < p[2]}
  BY <1>1, Zenon DEF OpToRel
<1>3. \A y \in S : ~ (y < x)
  BY <1>2
<1> QED
  BY <1>3

LEMMA Greatest ==
    ASSUME NEW n \in Nat, NEW S \in SUBSET (0..n), S # {}
    PROVE  Max(S) \in S /\ \A x \in S : x <= Max(S)
<1> DEFINE T == {n - k : k \in S}
<1>1. \A k \in S : k \in Nat /\ k <= n /\ n - k \in Nat
  OBVIOUS
<1>2. T \in SUBSET Nat /\ T # {}
  BY <1>1
<1>3. PICK x \in T : \A y \in T : x <= y
  BY <1>2, Least
<1>4. PICK k \in S : x = n - k
  BY <1>3
<1>5. ASSUME NEW j \in S
      PROVE  k >= j
  <2>1. n - k <= n - j
    BY <1>3, <1>4
  <2> QED
    BY <1>1, <2>1
<1>6. Max(S) \in S /\ \A y \in S : Max(S) >= y
  BY <1>5 DEF Max
<1> QED
  BY <1>1, <1>6

\* A new item, or one that comes to a list, goes behind all that is there.
LEMMA NextIsLast ==
    ASSUME NEW t, TableOK(t), NEW l
    PROVE  /\ NextPosition(t, l) \in Nat
           /\ \A i \in On(t, l) : t[i].sort_order < NextPosition(t, l)
<1> DEFINE S == {t[i].sort_order : i \in On(t, l)} \cup {0}
<1>1. MaxPosition + MaxItems \in Nat
  BY OwnerBlindAssumption
<1>2. S \in SUBSET (0..(MaxPosition + MaxItems)) /\ S # {}
  BY <1>1 DEF TableOK, RowOK, Positions, On
<1> HIDE DEF S
<1>3. Max(S) \in S /\ \A x \in S : x <= Max(S)
  BY <1>1, <1>2, Greatest
<1>4. Max(S) \in Nat /\ NextPosition(t, l) = Max(S) + 1
  BY <1>1, <1>2, <1>3 DEF NextPosition, S
<1>5. \A x \in S : x \in Nat /\ x < NextPosition(t, l)
  BY <1>1, <1>2, <1>3, <1>4
<1>6. \A i \in On(t, l) : t[i].sort_order \in S
  BY DEF S
<1> QED
  BY <1>4, <1>5, <1>6

LEMMA PageFinite ==
    ASSUME NEW t, TableOK(t), NEW l
    PROVE  /\ IsFiniteSet(LiveOn(t, l)) /\ Cardinality(LiveOn(t, l)) \in Nat
           /\ Cardinality(LiveOn(t, l)) <= MaxItems
<1>1. IsFiniteSet(1..MaxItems) /\ Cardinality(1..MaxItems) = MaxItems
  BY OwnerBlindAssumption, FS_Interval
<1>2. LiveOn(t, l) \subseteq 1..MaxItems
  BY DEF LiveOn, On, TableOK, ItemIds
<1> QED
  BY <1>1, <1>2, FS_Subset, FS_CardinalityType

\* Ranks are those of the page.
LEMMA RankOnPage ==
    ASSUME NEW t, TableOK(t), NEW l, NEW i \in LiveOn(t, l)
    PROVE  Rank(t, l, i) \in 1..Cardinality(LiveOn(t, l))
<1> DEFINE B == {j \in LiveOn(t, l) : Before(t, j, i)}
<1>1. t[i].sort_order \in Nat /\ i \in Nat
  BY OwnerBlindAssumption DEF LiveOn, On, TableOK, RowOK, Positions, ItemIds
<1>2. i \notin B
  BY <1>1 DEF Before
<1>3. B \subseteq LiveOn(t, l) /\ B # LiveOn(t, l)
  BY <1>2
<1> HIDE DEF B
<1>4. Cardinality(B) < Cardinality(LiveOn(t, l)) /\ Cardinality(B) \in Nat
  BY <1>3, PageFinite, FS_Subset, FS_CardinalityType
<1>5. Rank(t, l, i) = Cardinality(B) + 1
  BY DEF Rank, B
<1> QED
  BY <1>4, <1>5, PageFinite

-----------------------------------------------------------------------------
(* What keeps two tables alike.                                            *)

\* What the owner sees of t is what they see of u, and so is where it comes from.
SameToOwner(t, u) ==
    \A i \in ItemIds :
        /\ Live(t, i) <=> Live(u, i)
        /\ Live(t, i) => Card(t, i) = Card(u, i) /\ t[i].sort_order = u[i].sort_order

LEMMA SameListsLive ==
    ASSUME NEW t, TableOK(t), NEW u, TableOK(u), SameToOwner(t, u), NEW l
    PROVE  LiveOn(t, l) = LiveOn(u, l)
<1>1. \A i \in ItemIds : i \in LiveOn(t, l) <=> i \in LiveOn(u, l)
  BY DEF SameToOwner, LiveOn, On, Live, Card
<1>2. LiveOn(t, l) \subseteq ItemIds /\ LiveOn(u, l) \subseteq ItemIds
  BY DEF LiveOn, On, TableOK
<1> QED
  BY <1>1, <1>2

LEMMA AlikeSymmetric ==
    ASSUME NEW t, NEW u, Alike(t, u)
    PROVE  Alike(u, t)
  BY DEF Alike, Card

\* A card that changes, and a removal: the order is left alone.
LEMMA FewerKeepAlike ==
    ASSUME NEW t, NEW u, NEW t1, NEW u1, Alike(t, u),
           \A i \in ItemIds :
               /\ Live(t1, i) <=> Live(u1, i)
               /\ Live(t1, i) => Card(t1, i) = Card(u1, i)
               /\ Live(t1, i) => /\ Live(t, i) /\ t1[i].list = t[i].list
                                 /\ t1[i].sort_order = t[i].sort_order
               /\ Live(u1, i) => /\ Live(u, i) /\ u1[i].list = u[i].list
                                 /\ u1[i].sort_order = u[i].sort_order
    PROVE  Alike(t1, u1)
<1>1. ASSUME NEW i \in ItemIds, NEW j \in ItemIds, Live(t1, i), Live(t1, j),
             t1[i].list = t1[j].list
      PROVE  Before(t1, i, j) <=> Before(u1, i, j)
  <2>1. Before(t1, i, j) <=> Before(t, i, j)
    BY <1>1 DEF Before
  <2>2. Before(u1, i, j) <=> Before(u, i, j)
    BY <1>1 DEF Before
  <2>3. Before(t, i, j) <=> Before(u, i, j)
    BY <1>1 DEF Alike
  <2> QED
    BY <2>1, <2>2, <2>3
<1> QED
  BY <1>1 DEF Alike

\* A write that the owner sees in neither world.
LEMMA SameKeepsAlike ==
    ASSUME NEW t, NEW u, NEW t1, NEW u1, Alike(t, u), SameToOwner(t1, t), SameToOwner(u1, u)
    PROVE  Alike(t1, u1)
<1>1. \A i \in ItemIds :
          /\ Live(t1, i) <=> Live(t, i)
          /\ Live(t, i) <=> Live(u, i)
          /\ Live(u1, i) <=> Live(u, i)
  BY DEF Alike, SameToOwner
<1>2. \A i \in ItemIds : Live(t1, i) =>
          /\ t1[i].list = t[i].list /\ t1[i].sort_order = t[i].sort_order
          /\ u1[i].list = u[i].list /\ u1[i].sort_order = u[i].sort_order
          /\ Card(t1, i) = Card(u1, i)
  BY <1>1 DEF Alike, SameToOwner, Card
<1> QED
  BY <1>1, <1>2, FewerKeepAlike

\* t1 is t but for i, which is on a list behind all that is live there.
GoesLast(t1, t, i) ==
    /\ Live(t1, i) /\ t1[i].sort_order \in Nat
    /\ \A j \in ItemIds \ {i} :
          /\ Live(t1, j) <=> Live(t, j)
          /\ Live(t1, j) => t1[j] = t[j]
          /\ Live(t1, j) /\ t1[j].list = t1[i].list =>
                t1[j].sort_order \in Nat /\ t1[j].sort_order < t1[i].sort_order

LEMMA LastKeepsAlike ==
    ASSUME NEW t, NEW u, NEW t1, NEW u1, Alike(t, u), NEW k \in ItemIds,
           GoesLast(t1, t, k), GoesLast(u1, u, k), Card(t1, k) = Card(u1, k)
    PROVE  Alike(t1, u1)
<1>1. \A i \in ItemIds : Live(t1, i) <=> Live(u1, i)
  BY DEF GoesLast, Alike
<1>2. \A i \in ItemIds : Live(t1, i) => Card(t1, i) = Card(u1, i)
  <2> SUFFICES ASSUME NEW i \in ItemIds, Live(t1, i)
               PROVE  Card(t1, i) = Card(u1, i)
    OBVIOUS
  <2>1. CASE i = k
    BY <2>1
  <2>2. CASE i # k
    BY <1>1, <2>2 DEF GoesLast, Alike, Card
  <2> QED
    BY <2>1, <2>2
<1>3. ASSUME NEW i \in ItemIds, NEW j \in ItemIds, Live(t1, i), Live(t1, j),
             t1[i].list = t1[j].list
      PROVE  Before(t1, i, j) <=> Before(u1, i, j)
  <2>1. u1[i].list = u1[j].list /\ Live(u1, i) /\ Live(u1, j)
    BY <1>1, <1>2, <1>3 DEF Card
  <2>2. CASE i = k /\ j = k
    BY <2>2 DEF Before, GoesLast
  <2>3. CASE i # k /\ j = k
    BY <1>3, <2>1, <2>3 DEF Before, GoesLast
  <2>4. CASE i = k /\ j # k
    BY <1>3, <2>1, <2>4 DEF Before, GoesLast
  <2>5. CASE i # k /\ j # k
    <3>1. /\ Live(t, i) /\ Live(t, j) /\ t1[i] = t[i] /\ t1[j] = t[j]
          /\ u1[i] = u[i] /\ u1[j] = u[j]
      BY <1>3, <2>1, <2>5 DEF GoesLast
    <3> QED
      BY <1>3, <3>1 DEF Alike, Before
  <2> QED
    BY <2>2, <2>3, <2>4, <2>5
<1> QED
  BY <1>1, <1>2, <1>3 DEF Alike

\* Alike pages have the same ranks.
LEMMA AlikePages ==
    ASSUME NEW t, NEW u, TableOK(t), TableOK(u), Alike(t, u), NEW l
    PROVE  /\ LiveOn(t, l) = LiveOn(u, l)
           /\ \A i \in LiveOn(t, l) : Rank(t, l, i) = Rank(u, l, i)
<1>1. \A i \in ItemIds : i \in LiveOn(t, l) <=> i \in LiveOn(u, l)
  BY DEF Alike, LiveOn, On, Live, Card
<1>2. LiveOn(t, l) \subseteq ItemIds /\ LiveOn(u, l) \subseteq ItemIds
  BY DEF LiveOn, On, TableOK
<1>3. LiveOn(t, l) = LiveOn(u, l)
  BY <1>1, <1>2
<1>4. ASSUME NEW i \in LiveOn(t, l)
      PROVE  Rank(t, l, i) = Rank(u, l, i)
  <2>1. \A j \in LiveOn(t, l) : Before(t, j, i) <=> Before(u, j, i)
    BY <1>2 DEF Alike, LiveOn, On, Live
  <2>2. {j \in LiveOn(t, l) : Before(t, j, i)} = {j \in LiveOn(u, l) : Before(u, j, i)}
    BY <1>3, <2>1
  <2> QED
    BY <2>2 DEF Rank
<1> QED
  BY <1>3, <1>4

-----------------------------------------------------------------------------
(* What the requests do to one table.                                      *)

LEMMA Fields ==
    ASSUME NEW t, TableOK(t), NEW i \in DOMAIN t
    PROVE  /\ i \in ItemIds /\ i \in Nat /\ t[i] \in ItemRow /\ RowOK(t[i])
           /\ t[i].list \in ListIds /\ t[i].quantity \in 1..MaxQuantity
           /\ t[i].claimed \in Nat /\ t[i].claimed <= t[i].quantity
           /\ t[i].sort_order \in Nat /\ t[i].deleted \in BOOLEAN /\ t[i].picture \in BOOLEAN
  BY DEF TableOK, RowOK, ItemRow, ItemIds

LEMMA PutLast ==
    ASSUME NEW t, TableOK(t), NEW n \in ItemIds, n \notin DOMAIN t, NEW row, RowOK(row),
           ~ row.deleted, \A i \in On(t, row.list) : t[i].sort_order < row.sort_order,
           NEW t1, t1 = Put(t, n, row)
    PROVE  /\ TableOK(t1) /\ DOMAIN t1 = DOMAIN t \cup {n} /\ t1[n] = row
           /\ GoesLast(t1, t, n)
<1>1. /\ DOMAIN t1 = DOMAIN t \cup {n} /\ t1[n] = row
      /\ \A i \in DOMAIN t : t1[i] = t[i]
  BY DEF Put
<1>2. TableOK(t1)
  BY <1>1 DEF TableOK
<1>3. row.sort_order \in Nat
  BY DEF RowOK, ItemRow
<1>4. \A i \in DOMAIN t : t[i].sort_order \in Nat
  BY Fields
<1>5. GoesLast(t1, t, n)
  BY <1>1, <1>3, <1>4 DEF GoesLast, Live, On
<1> QED
  BY <1>1, <1>2, <1>5

\* A row's card, position or state changes and nothing else.
Written(t, i, row) == [t EXCEPT ![i] = row]

LEMMA RowWritten ==
    ASSUME NEW t, TableOK(t), NEW i \in DOMAIN t, NEW row, RowOK(row),
           NEW t1, t1 = Written(t, i, row)
    PROVE  /\ TableOK(t1) /\ DOMAIN t1 = DOMAIN t /\ t1[i] = row
           /\ \A j \in ItemIds \ {i} : /\ Live(t1, j) <=> Live(t, j)
                                       /\ Live(t, j) => t1[j] = t[j]
  BY DEF TableOK, Live, Written

\* The writes of MoveItemToList and UpdateItem to a row that is there.
Moved(t, i, dest) ==
    [t EXCEPT ![i].list = dest, ![i].sort_order = NextPosition(t, dest)]
Rewritten(t, i, q, p) == [t EXCEPT ![i].quantity = q, ![i].picture = p]

LEMMA MovedLast ==
    ASSUME NEW t, TableOK(t), NEW i, Live(t, i), NEW dest \in ListIds,
           NextPosition(t, dest) <= MaxPosition, t[i].list # dest,
           NEW t1, t1 = Moved(t, i, dest)
    PROVE  /\ TableOK(t1) /\ DOMAIN t1 = DOMAIN t /\ GoesLast(t1, t, i)
           /\ Card(t1, i) = [list |-> dest, quantity |-> t[i].quantity, picture |-> t[i].picture]
<1> DEFINE p   == NextPosition(t, dest)
           row == [t[i] EXCEPT !.list = dest, !.sort_order = p]
<1>1. p \in Nat /\ \A j \in On(t, dest) : t[j].sort_order < p
  BY NextIsLast
<1>2. i \in DOMAIN t /\ ~ t[i].deleted
  BY Fields DEF Live
<1>3. t[i] \in ItemRow /\ RowOK(t[i])
  BY <1>2, Fields
<1>4. t1 = Written(t, i, row)
  BY <1>2 DEF Moved, Written
<1> HIDE DEF p
<1>5. /\ row.list = dest /\ row.sort_order = p /\ ~ row.deleted
      /\ row.quantity = t[i].quantity /\ row.picture = t[i].picture
      /\ row.claimed = t[i].claimed /\ row \in ItemRow
  BY <1>1, <1>2, <1>3 DEF ItemRow
<1>6. p \in Positions
  BY <1>1, OwnerBlindAssumption DEF Positions, p
<1>7. RowOK(row)
  BY <1>3, <1>5, <1>6 DEF RowOK
<1> HIDE DEF row
<1>8. /\ TableOK(t1) /\ DOMAIN t1 = DOMAIN t /\ t1[i] = row
      /\ \A j \in ItemIds \ {i} : /\ Live(t1, j) <=> Live(t, j)
                                  /\ Live(t, j) => t1[j] = t[j]
  BY <1>2, <1>4, <1>7, RowWritten
<1>9. \A j \in DOMAIN t : t[j].sort_order \in Nat
  BY Fields
<1>10. GoesLast(t1, t, i)
  BY <1>1, <1>2, <1>5, <1>8, <1>9 DEF GoesLast, Live, On
<1>11. Card(t1, i) = [list |-> dest, quantity |-> t[i].quantity, picture |-> t[i].picture]
  BY <1>5, <1>8 DEF Card
<1> QED
  BY <1>8, <1>10, <1>11

\* What CreateItem puts into a table.
NewRow(t, l, q, p) ==
    [list |-> l, sort_order |-> NextPosition(t, l), quantity |-> q,
     claimed |-> 0, deleted |-> FALSE, picture |-> p]

LEMMA NewRowOK ==
    ASSUME NEW t, TableOK(t), NEW l \in ListIds, NEW q \in 1..MaxQuantity,
           NEW p \in Pictures, NextPosition(t, l) <= MaxPosition
    PROVE  /\ RowOK(NewRow(t, l, q, p)) /\ ~ NewRow(t, l, q, p).deleted
           /\ \A i \in On(t, NewRow(t, l, q, p).list) :
                 t[i].sort_order < NewRow(t, l, q, p).sort_order
           /\ NewRow(t, l, q, p).list = l /\ NewRow(t, l, q, p).quantity = q
           /\ NewRow(t, l, q, p).picture = p
<1> DEFINE n == NextPosition(t, l)
<1>1. n \in Nat /\ \A i \in On(t, l) : t[i].sort_order < n
  BY NextIsLast
<1>2. p \in BOOLEAN /\ q \in Nat
  BY OwnerBlindAssumption
<1>3. n \in Positions
  BY <1>1, OwnerBlindAssumption DEF Positions
<1> HIDE DEF n
<1>4. NewRow(t, l, q, p) = [list |-> l, sort_order |-> n, quantity |-> q,
                            claimed |-> 0, deleted |-> FALSE, picture |-> p]
  BY DEF NewRow, n
<1>5. NewRow(t, l, q, p) \in ItemRow
  BY <1>1, <1>2, <1>4 DEF ItemRow
<1> QED
  BY <1>1, <1>2, <1>3, <1>4, <1>5 DEF RowOK

Added(t, n, l, q, p) == Put(t, n, NewRow(t, l, q, p))

LEMMA NewLast ==
    ASSUME NEW t, TableOK(t), NEW n \in ItemIds, n \notin DOMAIN t,
           NEW l \in ListIds, NEW q \in 1..MaxQuantity, NEW p \in Pictures,
           NextPosition(t, l) <= MaxPosition,
           NEW t1, t1 = Added(t, n, l, q, p)
    PROVE  /\ TableOK(t1) /\ GoesLast(t1, t, n)
           /\ \A i \in DOMAIN t1 : i \in DOMAIN t \/ i = n
           /\ t1[n].list = l /\ t1[n].quantity = q /\ t1[n].picture = p
<1> DEFINE r == NewRow(t, l, q, p)
<1>1. /\ RowOK(r) /\ ~ r.deleted /\ r.list = l /\ r.quantity = q /\ r.picture = p
      /\ \A i \in On(t, r.list) : t[i].sort_order < r.sort_order
  BY NewRowOK
<1>2. t1 = Put(t, n, r)
  BY DEF Added
<1> HIDE DEF r
<1>3. TableOK(t1) /\ DOMAIN t1 = DOMAIN t \cup {n} /\ t1[n] = r /\ GoesLast(t1, t, n)
  BY <1>1, <1>2, PutLast
<1> QED
  BY <1>1, <1>3

LEMMA CreateKeeps ==
    ASSUME NEW t, NEW u, TableOK(t), TableOK(u), Alike(t, u),
           NEW n \in ItemIds, n \notin DOMAIN t, n \notin DOMAIN u,
           NEW l \in ListIds, NEW q \in 1..MaxQuantity, NEW p \in Pictures,
           NextPosition(t, l) <= MaxPosition, NextPosition(u, l) <= MaxPosition,
           NEW t1, t1 = Added(t, n, l, q, p), NEW u1, u1 = Added(u, n, l, q, p)
    PROVE  /\ TableOK(t1) /\ Alike(t1, u1)
           /\ \A i \in DOMAIN t1 : i \in DOMAIN t \/ i = n
<1>1. /\ TableOK(t1) /\ GoesLast(t1, t, n)
      /\ \A i \in DOMAIN t1 : i \in DOMAIN t \/ i = n
      /\ t1[n].list = l /\ t1[n].quantity = q /\ t1[n].picture = p
  BY NewLast
<1>2. /\ GoesLast(u1, u, n)
      /\ u1[n].list = l /\ u1[n].quantity = q /\ u1[n].picture = p
  BY NewLast
<1>3. Card(t1, n) = Card(u1, n)
  BY <1>1, <1>2 DEF Card
<1> QED
  BY <1>1, <1>2, <1>3, LastKeepsAlike

\* What UpdateItem does to a table.
Edited(t, i, q, p) ==
    IF Live(t, i) /\ q >= t[i].claimed
    THEN Rewritten(t, i, q, p)
    ELSE t

LEMMA EditedRow ==
    ASSUME NEW t, TableOK(t), NEW i, Live(t, i), NEW q \in 1..MaxQuantity,
           q >= t[i].claimed, NEW p \in BOOLEAN,
           NEW t1, t1 = Rewritten(t, i, q, p)
    PROVE  /\ TableOK(t1) /\ DOMAIN t1 = DOMAIN t /\ Live(t1, i)
           /\ t1[i].list = t[i].list /\ t1[i].sort_order = t[i].sort_order
           /\ t1[i].quantity = q /\ t1[i].picture = p
           /\ \A j \in ItemIds \ {i} : /\ Live(t1, j) <=> Live(t, j)
                                       /\ Live(t, j) => t1[j] = t[j]
<1> DEFINE row == [t[i] EXCEPT !.quantity = q, !.picture = p]
<1>1. i \in DOMAIN t /\ ~ t[i].deleted
  BY DEF Live
<1>2. t[i] \in ItemRow /\ RowOK(t[i])
  BY <1>1, Fields
<1>3. t1 = Written(t, i, row)
  BY <1>1 DEF Rewritten, Written
<1>4. /\ row.list = t[i].list /\ row.sort_order = t[i].sort_order
      /\ row.deleted = t[i].deleted /\ row.claimed = t[i].claimed
      /\ row.quantity = q /\ row.picture = p /\ row \in ItemRow
  BY <1>2 DEF ItemRow
<1> HIDE DEF row
<1>5. t[i].claimed \in Nat /\ q \in Nat
  BY <1>2 DEF ItemRow
<1>6. RowOK(row)
  BY <1>2, <1>4, <1>5 DEF RowOK
<1>7. /\ TableOK(t1) /\ DOMAIN t1 = DOMAIN t /\ t1[i] = row
      /\ \A j \in ItemIds \ {i} : /\ Live(t1, j) <=> Live(t, j)
                                  /\ Live(t, j) => t1[j] = t[j]
  BY <1>1, <1>3, <1>6, RowWritten
<1> QED
  BY <1>1, <1>4, <1>7 DEF Live

LEMMA EditKeeps ==
    ASSUME NEW t, NEW u, TableOK(t), TableOK(u), Alike(t, u),
           NEW i \in ItemIds, NEW q \in 1..MaxQuantity, NEW p \in BOOLEAN,
           (Live(t, i) /\ q >= t[i].claimed) <=> (Live(u, i) /\ q >= u[i].claimed),
           NEW t1, t1 = Edited(t, i, q, p), NEW u1, u1 = Edited(u, i, q, p)
    PROVE  TableOK(t1) /\ DOMAIN t1 = DOMAIN t /\ Alike(t1, u1)
<1>1. CASE ~ (Live(t, i) /\ q >= t[i].claimed)
  BY <1>1 DEF Edited
<1>2. CASE Live(t, i) /\ q >= t[i].claimed
  <2>1. t1 = Rewritten(t, i, q, p) /\ u1 = Rewritten(u, i, q, p)
    BY <1>2 DEF Edited
  <2>2. /\ TableOK(t1) /\ DOMAIN t1 = DOMAIN t /\ Live(t1, i)
        /\ t1[i].list = t[i].list /\ t1[i].sort_order = t[i].sort_order
        /\ t1[i].quantity = q /\ t1[i].picture = p
        /\ \A j \in ItemIds \ {i} : /\ Live(t1, j) <=> Live(t, j)
                                    /\ Live(t, j) => t1[j] = t[j]
    BY <1>2, <2>1, EditedRow
  <2>3. /\ Live(u1, i)
        /\ u1[i].list = u[i].list /\ u1[i].sort_order = u[i].sort_order
        /\ u1[i].quantity = q /\ u1[i].picture = p
        /\ \A j \in ItemIds \ {i} : /\ Live(u1, j) <=> Live(u, j)
                                    /\ Live(u, j) => u1[j] = u[j]
    BY <1>2, <2>1, EditedRow
  <2>4. t[i].list = u[i].list
    BY <1>2 DEF Alike, Card
  <2>5. \A j \in ItemIds :
            /\ Live(t1, j) <=> Live(u1, j)
            /\ Live(t1, j) => Card(t1, j) = Card(u1, j)
            /\ Live(t1, j) => /\ Live(t, j) /\ t1[j].list = t[j].list
                              /\ t1[j].sort_order = t[j].sort_order
            /\ Live(u1, j) => /\ Live(u, j) /\ u1[j].list = u[j].list
                              /\ u1[j].sort_order = u[j].sort_order
    <3> SUFFICES ASSUME NEW j \in ItemIds
                 PROVE  /\ Live(t1, j) <=> Live(u1, j)
                        /\ Live(t1, j) => Card(t1, j) = Card(u1, j)
                        /\ Live(t1, j) => /\ Live(t, j) /\ t1[j].list = t[j].list
                                          /\ t1[j].sort_order = t[j].sort_order
                        /\ Live(u1, j) => /\ Live(u, j) /\ u1[j].list = u[j].list
                                          /\ u1[j].sort_order = u[j].sort_order
      OBVIOUS
    <3>1. CASE j = i
      BY <1>2, <2>2, <2>3, <2>4, <3>1 DEF Card
    <3>2. CASE j # i
      BY <2>2, <2>3, <3>2 DEF Card, Alike
    <3> QED
      BY <3>1, <3>2
  <2> QED
    BY <2>2, <2>5, FewerKeepAlike
<1> QED
  BY <1>1, <1>2

\* What DeleteItem does to a table.
Removed(t, i) ==
    IF ~Live(t, i) THEN t
    ELSE IF t[i].claimed = 0 THEN Drop(t, {i})
    ELSE [t EXCEPT ![i].deleted = TRUE]

LEMMA RemovedRow ==
    ASSUME NEW t, TableOK(t), NEW i \in ItemIds, NEW t1, t1 = Removed(t, i)
    PROVE  /\ TableOK(t1) /\ DOMAIN t1 \subseteq DOMAIN t /\ ~Live(t1, i)
           /\ \A j \in ItemIds \ {i} : /\ Live(t1, j) <=> Live(t, j)
                                       /\ Live(t, j) => t1[j] = t[j]
<1>1. CASE ~Live(t, i)
  BY <1>1 DEF Removed
<1>2. CASE Live(t, i) /\ t[i].claimed = 0
  <2>1. t1 = Drop(t, {i})
    BY <1>2 DEF Removed
  <2>2. DOMAIN t1 = DOMAIN t \ {i} /\ \A j \in DOMAIN t \ {i} : t1[j] = t[j]
    BY <2>1 DEF Drop, Restrict
  <2> QED
    BY <2>2 DEF TableOK, Live
<1>3. CASE Live(t, i) /\ t[i].claimed # 0
  <2> DEFINE row == [t[i] EXCEPT !.deleted = TRUE]
  <2>1. i \in DOMAIN t
    BY <1>3 DEF Live
  <2>2. t[i] \in ItemRow /\ RowOK(t[i])
    BY <2>1, Fields
  <2>3. t1 = Written(t, i, row)
    BY <1>3, <2>1 DEF Removed, Written
  <2>4. /\ row.sort_order = t[i].sort_order /\ row.claimed = t[i].claimed
        /\ row.quantity = t[i].quantity /\ row.deleted /\ row \in ItemRow
    BY <2>2 DEF ItemRow
  <2> HIDE DEF row
  <2>5. RowOK(row)
    BY <2>2, <2>4 DEF RowOK
  <2>6. /\ TableOK(t1) /\ DOMAIN t1 = DOMAIN t /\ t1[i] = row
        /\ \A j \in ItemIds \ {i} : /\ Live(t1, j) <=> Live(t, j)
                                    /\ Live(t, j) => t1[j] = t[j]
    BY <2>1, <2>3, <2>5, RowWritten
  <2> QED
    BY <2>4, <2>6 DEF Live
<1> QED
  BY <1>1, <1>2, <1>3

LEMMA RemovalKeeps ==
    ASSUME NEW t, NEW u, TableOK(t), TableOK(u), Alike(t, u), NEW i \in ItemIds,
           NEW t1, t1 = Removed(t, i), NEW u1, u1 = Removed(u, i)
    PROVE  TableOK(t1) /\ DOMAIN t1 \subseteq DOMAIN t /\ Alike(t1, u1)
<1>1. /\ TableOK(t1) /\ DOMAIN t1 \subseteq DOMAIN t /\ ~Live(t1, i)
      /\ \A j \in ItemIds \ {i} : /\ Live(t1, j) <=> Live(t, j)
                                  /\ Live(t, j) => t1[j] = t[j]
  BY RemovedRow
<1>2. /\ ~Live(u1, i)
      /\ \A j \in ItemIds \ {i} : /\ Live(u1, j) <=> Live(u, j)
                                  /\ Live(u, j) => u1[j] = u[j]
  BY RemovedRow
<1>3. \A j \in ItemIds :
          /\ Live(t1, j) <=> Live(u1, j)
          /\ Live(t1, j) => Card(t1, j) = Card(u1, j)
          /\ Live(t1, j) => /\ Live(t, j) /\ t1[j].list = t[j].list
                            /\ t1[j].sort_order = t[j].sort_order
          /\ Live(u1, j) => /\ Live(u, j) /\ u1[j].list = u[j].list
                            /\ u1[j].sort_order = u[j].sort_order
  BY <1>1, <1>2 DEF Alike, Card
<1> QED
  BY <1>1, <1>3, FewerKeepAlike

\* What MoveItemToList does to a table.
Relisted(t, i, dest) ==
    IF Live(t, i) /\ t[i].list # dest THEN Moved(t, i, dest) ELSE t

LEMMA RelistKeeps ==
    ASSUME NEW t, NEW u, TableOK(t), TableOK(u), Alike(t, u), NEW i \in ItemIds,
           NEW dest \in ListIds,
           NextPosition(t, dest) <= MaxPosition, NextPosition(u, dest) <= MaxPosition,
           NEW t1, t1 = Relisted(t, i, dest), NEW u1, u1 = Relisted(u, i, dest)
    PROVE  TableOK(t1) /\ DOMAIN t1 = DOMAIN t /\ Alike(t1, u1)
<1>1. (Live(t, i) /\ t[i].list # dest) <=> (Live(u, i) /\ u[i].list # dest)
  BY DEF Alike, Card
<1>2. CASE ~ (Live(t, i) /\ t[i].list # dest)
  BY <1>1, <1>2 DEF Relisted
<1>3. CASE Live(t, i) /\ t[i].list # dest
  <2>1. t1 = Moved(t, i, dest) /\ u1 = Moved(u, i, dest)
    BY <1>1, <1>3 DEF Relisted
  <2>2. /\ TableOK(t1) /\ DOMAIN t1 = DOMAIN t /\ GoesLast(t1, t, i)
        /\ Card(t1, i) = [list |-> dest, quantity |-> t[i].quantity, picture |-> t[i].picture]
    BY <1>3, <2>1, MovedLast
  <2>3. /\ GoesLast(u1, u, i)
        /\ Card(u1, i) = [list |-> dest, quantity |-> u[i].quantity, picture |-> u[i].picture]
    BY <1>1, <1>3, <2>1, MovedLast
  <2>4. t[i].quantity = u[i].quantity /\ t[i].picture = u[i].picture
    BY <1>3 DEF Alike, Card
  <2>5. Card(t1, i) = Card(u1, i)
    BY <2>2, <2>3, <2>4
  <2> QED
    BY <2>2, <2>3, <2>5, LastKeepsAlike
<1> QED
  BY <1>2, <1>3

\* What ReorderItems does to a table.
Reordered(t, m) ==
    [j \in DOMAIN t |->
        IF j \in DOMAIN m.order \cap LiveOn(t, m.list)
        THEN [t[j] EXCEPT !.sort_order = m.order[j]]
        ELSE t[j]]

LEMMA ReorderedRows ==
    ASSUME NEW t, TableOK(t), NEW m, MoveOK(m, t), NEW t1, t1 = Reordered(t, m)
    PROVE  /\ TableOK(t1) /\ DOMAIN t1 = DOMAIN t
           /\ \A i \in ItemIds :
                 /\ Live(t1, i) <=> Live(t, i)
                 /\ Live(t, i) => Card(t1, i) = Card(t, i)
                 /\ i \in LiveOn(t, m.list) /\ m # NoMove => t1[i].sort_order = m.order[i]
                 /\ Live(t, i) /\ (i \notin LiveOn(t, m.list) \/ m = NoMove)
                       => t1[i].sort_order = t[i].sort_order
<1>1. CASE m = NoMove
  <2>1. DOMAIN m.order = {}
    BY <1>1 DEF NoMove, EmptyTable
  <2>2. DOMAIN t1 = DOMAIN t /\ \A j \in DOMAIN t : t1[j] = t[j]
    BY <2>1 DEF Reordered
  <2> QED
    BY <1>1, <2>2 DEF TableOK, Live, Card
<1>2. CASE m # NoMove
  <2>1. /\ DOMAIN m.order = LiveOn(t, m.list)
        /\ \A i \in DOMAIN m.order : m.order[i] \in 1..Cardinality(DOMAIN m.order)
    BY <1>2 DEF MoveOK
  <2>2. /\ Cardinality(LiveOn(t, m.list)) \in Nat
        /\ Cardinality(LiveOn(t, m.list)) <= MaxItems
    BY PageFinite
  <2>3. \A i \in LiveOn(t, m.list) : m.order[i] \in Nat /\ m.order[i] \in Positions
    BY <2>1, <2>2, OwnerBlindAssumption DEF Positions
  <2>4. ASSUME NEW i \in DOMAIN t
        PROVE  /\ RowOK(t1[i]) /\ t1[i].deleted = t[i].deleted /\ Card(t1, i) = Card(t, i)
               /\ i \in LiveOn(t, m.list) => t1[i].sort_order = m.order[i]
               /\ i \notin LiveOn(t, m.list) => t1[i] = t[i]
    <3>1. t[i] \in ItemRow /\ RowOK(t[i])
      BY Fields
    <3>2. CASE i \notin LiveOn(t, m.list)
      <4>1. t1[i] = t[i]
        BY <3>2, <2>4 DEF Reordered
      <4> QED
        BY <3>1, <3>2, <4>1 DEF Card
    <3>3. CASE i \in LiveOn(t, m.list)
      <4> DEFINE n == m.order[i]
                 row == [t[i] EXCEPT !.sort_order = n]
      <4>1. t1[i] = row
        BY <2>1, <2>4, <3>3 DEF Reordered
      <4>2. n \in Nat /\ n \in Positions
        BY <2>3, <3>3
      <4> HIDE DEF n
      <4>3. /\ row.sort_order = n /\ row.claimed = t[i].claimed /\ row.list = t[i].list
            /\ row.quantity = t[i].quantity /\ row.deleted = t[i].deleted
            /\ row.picture = t[i].picture /\ row \in ItemRow
        BY <3>1, <4>2 DEF ItemRow
      <4> HIDE DEF row
      <4>4. RowOK(row)
        BY <3>1, <4>2, <4>3 DEF RowOK
      <4> QED
        BY <3>3, <4>1, <4>3, <4>4 DEF Card, n
    <3> QED
      BY <3>2, <3>3
  <2>5. DOMAIN t1 = DOMAIN t
    BY DEF Reordered
  <2> QED
    BY <1>2, <2>4, <2>5 DEF TableOK, Live, LiveOn, On
<1> QED
  BY <1>1, <1>2

LEMMA ReorderKeeps ==
    ASSUME NEW t, NEW u, TableOK(t), TableOK(u), Alike(t, u),
           NEW m, MoveOK(m, t), MoveOK(m, u),
           NEW t1, t1 = Reordered(t, m), NEW u1, u1 = Reordered(u, m)
    PROVE  TableOK(t1) /\ DOMAIN t1 = DOMAIN t /\ Alike(t1, u1)
<1>1. /\ TableOK(t1) /\ DOMAIN t1 = DOMAIN t
      /\ \A i \in ItemIds :
            /\ Live(t1, i) <=> Live(t, i)
            /\ Live(t, i) => Card(t1, i) = Card(t, i)
            /\ i \in LiveOn(t, m.list) /\ m # NoMove => t1[i].sort_order = m.order[i]
            /\ Live(t, i) /\ (i \notin LiveOn(t, m.list) \/ m = NoMove)
                  => t1[i].sort_order = t[i].sort_order
  BY ReorderedRows
<1>2. \A i \in ItemIds :
            /\ Live(u1, i) <=> Live(u, i)
            /\ Live(u, i) => Card(u1, i) = Card(u, i)
            /\ i \in LiveOn(u, m.list) /\ m # NoMove => u1[i].sort_order = m.order[i]
            /\ Live(u, i) /\ (i \notin LiveOn(u, m.list) \/ m = NoMove)
                  => u1[i].sort_order = u[i].sort_order
  BY ReorderedRows
<1>3. LiveOn(t, m.list) = LiveOn(u, m.list)
  BY AlikePages
<1>4. \A i \in ItemIds :
          /\ Live(t1, i) <=> Live(u1, i)
          /\ Live(t1, i) => Card(t1, i) = Card(u1, i)
  BY <1>1, <1>2 DEF Alike
<1>5. ASSUME NEW i \in ItemIds, NEW j \in ItemIds, Live(t1, i), Live(t1, j),
             t1[i].list = t1[j].list
      PROVE  Before(t1, i, j) <=> Before(u1, i, j)
  <2>1. /\ Live(t, i) /\ Live(t, j) /\ Live(u, i) /\ Live(u, j)
        /\ t[i].list = t1[i].list /\ t[j].list = t1[j].list
    BY <1>1, <1>2, <1>4, <1>5 DEF Card
  <2>2. i \in LiveOn(t, m.list) <=> j \in LiveOn(t, m.list)
    BY <1>5, <2>1 DEF LiveOn, On, Live
  <2>3. CASE i \in LiveOn(t, m.list) /\ m # NoMove
    <3>1. /\ t1[i].sort_order = m.order[i] /\ t1[j].sort_order = m.order[j]
          /\ u1[i].sort_order = m.order[i] /\ u1[j].sort_order = m.order[j]
      BY <1>1, <1>2, <1>3, <2>2, <2>3
    <3> QED
      BY <3>1 DEF Before
  <2>4. CASE i \notin LiveOn(t, m.list) \/ m = NoMove
    <3>1. t1[i].sort_order = t[i].sort_order /\ t1[j].sort_order = t[j].sort_order
      BY <1>1, <2>1, <2>2, <2>4
    <3>2. u1[i].sort_order = u[i].sort_order /\ u1[j].sort_order = u[j].sort_order
      BY <1>2, <1>3, <2>1, <2>2, <2>4
    <3>3. Before(t, i, j) <=> Before(u, i, j)
      BY <1>5, <2>1 DEF Alike
    <3> QED
      BY <3>1, <3>2, <3>3 DEF Before
  <2> QED
    BY <2>3, <2>4
<1> QED
  BY <1>1, <1>4, <1>5 DEF Alike

\* What a claim does to a table: the owner sees nothing of it.
Claimed(t, i, c) == [t EXCEPT ![i].claimed = c]

LEMMA ClaimUnseen ==
    ASSUME NEW t, TableOK(t), NEW i \in DOMAIN t, NEW c \in Nat, c <= t[i].quantity,
           NEW t1, t1 = Claimed(t, i, c)
    PROVE  /\ TableOK(t1) /\ DOMAIN t1 = DOMAIN t
           /\ SameToOwner(t1, t) /\ SameToOwner(t, t1) /\ SameToOwner(t, t)
<1> DEFINE row == [t[i] EXCEPT !.claimed = c]
<1>1. t[i] \in ItemRow /\ RowOK(t[i])
  BY Fields
<1>2. t1 = Written(t, i, row)
  BY DEF Claimed, Written
<1>3. /\ row.sort_order = t[i].sort_order /\ row.claimed = c /\ row.list = t[i].list
      /\ row.quantity = t[i].quantity /\ row.deleted = t[i].deleted
      /\ row.picture = t[i].picture /\ row \in ItemRow
  BY <1>1 DEF ItemRow
<1> HIDE DEF row
<1>4. RowOK(row)
  BY <1>1, <1>3 DEF RowOK
<1>5. /\ TableOK(t1) /\ DOMAIN t1 = DOMAIN t /\ t1[i] = row
      /\ \A j \in ItemIds \ {i} : /\ Live(t1, j) <=> Live(t, j)
                                  /\ Live(t, j) => t1[j] = t[j]
  BY <1>2, <1>4, RowWritten
<1>6. \A j \in ItemIds :
          /\ Live(t1, j) <=> Live(t, j)
          /\ Live(t1, j) => Card(t1, j) = Card(t, j) /\ t1[j].sort_order = t[j].sort_order
  <2> SUFFICES ASSUME NEW j \in ItemIds
               PROVE  /\ Live(t1, j) <=> Live(t, j)
                      /\ Live(t1, j) => /\ Card(t1, j) = Card(t, j)
                                        /\ t1[j].sort_order = t[j].sort_order
    OBVIOUS
  <2>1. CASE j = i
    BY <1>3, <1>5, <2>1 DEF Card, Live
  <2>2. CASE j # i
    BY <1>5, <2>2 DEF Card
  <2> QED
    BY <2>1, <2>2
<1> QED
  BY <1>5, <1>6 DEF SameToOwner

LEMMA MoveStands ==
    ASSUME NEW t, TableOK(t), NEW t1, TableOK(t1), SameToOwner(t1, t), NEW m, MoveOK(m, t)
    PROVE  MoveOK(m, t1)
<1>1. LiveOn(t1, m.list) = LiveOn(t, m.list)
  BY SameListsLive
<1> QED
  BY <1>1 DEF MoveOK

\* What MoveItem is about to write.
Fits(t, i, up) ==
    IF up THEN Rank(t, t[i].list, i) > 1
          ELSE Rank(t, t[i].list, i) < Cardinality(LiveOn(t, t[i].list))

Planned(t, i, up) ==
    IF Live(t, i) /\ Fits(t, i, up)
    THEN [list |-> t[i].list, order |-> Swapped(t, t[i].list, i, up)]
    ELSE NoMove

LEMMA SwapOnPage ==
    ASSUME NEW t, TableOK(t), NEW i, Live(t, i), NEW up \in BOOLEAN, Fits(t, i, up),
           NEW l, l = t[i].list
    PROVE  /\ DOMAIN Swapped(t, l, i, up) = LiveOn(t, l)
           /\ \A j \in LiveOn(t, l) :
                 Swapped(t, l, i, up)[j] \in 1..Cardinality(LiveOn(t, l))
<1> DEFINE c == Cardinality(LiveOn(t, l))
           k == Rank(t, l, i)
           n == IF up THEN k - 1 ELSE k + 1
<1>1. i \in LiveOn(t, l)
  BY DEF Live, LiveOn, On
<1>2. c \in Nat
  BY PageFinite
<1>3. k \in 1..c
  BY <1>1, RankOnPage
<1>4. \A j \in LiveOn(t, l) : Rank(t, l, j) \in 1..c
  BY RankOnPage
<1>5. up => k > 1
  BY DEF Fits
<1>6. ~up => k < c
  BY DEF Fits
<1>7. Swapped(t, l, i, up) =
          [j \in LiveOn(t, l) |-> CASE Rank(t, l, j) = k -> n
                                   [] Rank(t, l, j) = n -> k
                                   [] OTHER -> Rank(t, l, j)]
  BY DEF Swapped
<1> HIDE DEF c, k
<1>8. n \in 1..c
  BY <1>2, <1>3, <1>5, <1>6
<1> HIDE DEF n
<1>9. ASSUME NEW j \in LiveOn(t, l)
      PROVE  Swapped(t, l, i, up)[j] \in 1..c
  <2>1. CASE Rank(t, l, j) = k
    BY <1>7, <1>8, <2>1
  <2>2. CASE Rank(t, l, j) # k /\ Rank(t, l, j) = n
    BY <1>3, <1>7, <2>2
  <2>3. CASE Rank(t, l, j) # k /\ Rank(t, l, j) # n
    BY <1>4, <1>7, <2>3
  <2> QED
    BY <2>1, <2>2, <2>3
<1> QED
  BY <1>7, <1>9 DEF c

LEMMA SameSwap ==
    ASSUME NEW t, NEW u, TableOK(t), TableOK(u), Alike(t, u), NEW i, Live(t, i),
           NEW up \in BOOLEAN, NEW l, l = t[i].list
    PROVE  /\ Live(u, i) /\ u[i].list = l
           /\ Swapped(t, l, i, up) = Swapped(u, l, i, up)
           /\ Fits(t, i, up) <=> Fits(u, i, up)
<1>1. i \in ItemIds
  BY DEF Live, TableOK
<1>2. Live(u, i) /\ u[i].list = l
  BY <1>1 DEF Alike, Card
<1>3. LiveOn(t, l) = LiveOn(u, l) /\ \A j \in LiveOn(t, l) : Rank(t, l, j) = Rank(u, l, j)
  BY AlikePages
<1>4. Rank(t, l, i) = Rank(u, l, i)
  BY <1>3 DEF Live, LiveOn, On
<1>5. Fits(t, i, up) <=> Fits(u, i, up)
  BY <1>2, <1>3, <1>4 DEF Fits
<1>6. Swapped(t, l, i, up) = Swapped(u, l, i, up)
  BY <1>3, <1>4 DEF Swapped
<1> QED
  BY <1>2, <1>5, <1>6

LEMMA PlannedAlike ==
    ASSUME NEW t, NEW u, TableOK(t), TableOK(u), Alike(t, u), NEW i \in ItemIds,
           NEW up \in BOOLEAN
    PROVE  MoveOK(Planned(t, i, up), t) /\ Planned(t, i, up) = Planned(u, i, up)
<1>1. CASE ~Live(t, i)
  BY <1>1 DEF Planned, MoveOK, Alike
<1>2. CASE Live(t, i)
  <2> DEFINE l == t[i].list
  <2>1. /\ Live(u, i) /\ u[i].list = l
        /\ Swapped(t, l, i, up) = Swapped(u, l, i, up)
        /\ Fits(t, i, up) <=> Fits(u, i, up)
    BY <1>2, SameSwap
  <2>2. Planned(t, i, up) = Planned(u, i, up)
    BY <1>2, <2>1 DEF Planned
  <2>3. CASE ~Fits(t, i, up)
    BY <2>2, <2>3 DEF Planned, MoveOK
  <2>4. CASE Fits(t, i, up)
    <3>1. /\ DOMAIN Swapped(t, l, i, up) = LiveOn(t, l)
          /\ \A j \in LiveOn(t, l) :
                Swapped(t, l, i, up)[j] \in 1..Cardinality(LiveOn(t, l))
      BY <1>2, <2>4, SwapOnPage
    <3>2. Planned(t, i, up) = [list |-> l, order |-> Swapped(t, l, i, up)]
      BY <1>2, <2>4 DEF Planned
    <3>3. l \in ListIds
      BY <1>2, Fields DEF Live
    <3> QED
      BY <2>2, <3>1, <3>2, <3>3 DEF MoveOK
  <2> QED
    BY <2>2, <2>3, <2>4
<1> QED
  BY <1>1, <1>2

-----------------------------------------------------------------------------
(* Every step keeps the invariant.                                         *)

LEMMA InvInit ==
    ASSUME Init
    PROVE  Inv
<1>1. \A w \in Worlds : DOMAIN items[w] = {} /\ moving[w] = NoMove /\ reply[w] = "none"
  BY DEF Init, EmptyTable
<1>2. \A v, w \in Worlds : Alike(items[v], items[w])
  BY <1>1 DEF Alike, Live
<1> QED
  BY <1>1, <1>2, OwnerBlindAssumption
     DEF Init, Inv, WorldOK, TableOK, MoveOK, Replies

\* What is left to show of a step, when no move is under way before or after it.
LEMMA QuietStep ==
    ASSUME Inv, created' \in created..MaxItems, DOMAIN items' = Worlds,
           \A w \in Worlds : moving[w] = NoMove, UNCHANGED moving,
           \A w \in Worlds : /\ TableOK(items'[w]) /\ DOMAIN items'[w] \subseteq 1..created'
                              /\ reply'[w] \in Replies,
           DOMAIN reply' = Worlds, reply' = [w \in Worlds |-> reply'[w]],
           \A v, w \in Worlds : Alike(items'[v], items'[w]) /\ reply'[v] = reply'[w]
    PROVE  Inv'
  BY OwnerBlindAssumption DEF Inv, WorldOK, MoveOK

LEMMA CreateStep ==
    ASSUME Inv, ~Overlapping, NEW l \in ListIds, NEW q \in 1..MaxQuantity,
           NEW p \in Pictures, CreateItem(l, q, p)
    PROVE  Inv'
<1>1. /\ \A w \in Worlds : moving[w] = NoMove
      /\ created \in 0..MaxItems /\ created < MaxItems /\ created' = created + 1
      /\ UNCHANGED moving /\ reply' = [w \in Worlds |-> "ok"]
  BY DEF Inv, CreateItem, Free
<1>2. created' \in ItemIds /\ created' \in created..MaxItems
  BY <1>1, OwnerBlindAssumption DEF ItemIds
<1>3. items' = [w \in Worlds |-> Added(items[w], created', l, q, p)]
  BY DEF CreateItem, Added, NewRow
<1>4. \A w \in Worlds : items'[w] = Added(items[w], created', l, q, p)
  BY <1>3
<1>5. \A w \in Worlds : /\ TableOK(items[w]) /\ created' \notin DOMAIN items[w]
                         /\ DOMAIN items[w] \subseteq 1..created
                         /\ NextPosition(items[w], l) <= MaxPosition
  BY <1>1 DEF Inv, WorldOK, CreateItem
<1>6. ASSUME NEW v \in Worlds, NEW w \in Worlds
      PROVE  /\ TableOK(items'[v]) /\ Alike(items'[v], items'[w])
             /\ \A i \in DOMAIN items'[v] : i \in DOMAIN items[v] \/ i = created'
  <2>1. Alike(items[v], items[w])
    BY DEF Inv
  <2> QED
    BY <1>2, <1>4, <1>5, <2>1, CreateKeeps
<1>7. \A w \in Worlds : DOMAIN items'[w] \subseteq 1..created'
  BY <1>1, <1>5, <1>6
<1>8. \A w \in Worlds : reply'[w] = "ok" /\ reply'[w] \in Replies
  BY <1>1 DEF Replies
<1>9. DOMAIN items' = Worlds
  BY <1>3
<1> QED
  BY <1>1, <1>2, <1>6, <1>7, <1>8, <1>9, QuietStep

LEMMA UpdateStep ==
    ASSUME Inv, ~Overlapping, NEW i \in ItemIds, NEW q \in 1..MaxQuantity,
           NEW p \in Pictures, UpdateItem(i, q, p)
    PROVE  Inv'
<1>1. /\ \A w \in Worlds : moving[w] = NoMove
      /\ created' = created /\ UNCHANGED moving
      /\ items' = [w \in Worlds |-> Edited(items[w], i, q, p)]
  BY DEF Inv, UpdateItem, Free, Edited, Rewritten
<1>2. created' \in created..MaxItems
  BY <1>1, OwnerBlindAssumption DEF Inv
<1>3. \A w \in Worlds : items'[w] = Edited(items[w], i, q, p)
  BY <1>1
<1> DEFINE answer(w) == IF ~Live(items[w], i) THEN "not_found"
                        ELSE IF q >= items[w][i].claimed THEN "ok" ELSE "conflict"
<1>4. reply' = [w \in Worlds |-> answer(w)] /\ \A v, w \in Worlds : answer(v) = answer(w)
  BY DEF UpdateItem
<1>5. \A w \in Worlds : answer(w) = "ok" <=> Live(items[w], i) /\ q >= items[w][i].claimed
  OBVIOUS
<1>6. \A w \in Worlds : answer(w) \in Replies
  BY DEF Replies
<1> HIDE DEF answer
<1>7. p \in BOOLEAN
  BY OwnerBlindAssumption
<1>8. ASSUME NEW v \in Worlds, NEW w \in Worlds
      PROVE  TableOK(items'[v]) /\ DOMAIN items'[v] = DOMAIN items[v] /\ Alike(items'[v], items'[w])
  <2>1. TableOK(items[v]) /\ TableOK(items[w]) /\ Alike(items[v], items[w])
    BY DEF Inv, WorldOK
  <2>2. Live(items[v], i) /\ q >= items[v][i].claimed
            <=> Live(items[w], i) /\ q >= items[w][i].claimed
    BY <1>4, <1>5
  <2> QED
    BY <1>3, <1>7, <2>1, <2>2, EditKeeps
<1>9. \A w \in Worlds : DOMAIN items'[w] \subseteq 1..created'
  BY <1>1, <1>8 DEF Inv, WorldOK
<1>10. DOMAIN items' = Worlds
  BY <1>1
<1> QED
  BY <1>1, <1>2, <1>4, <1>6, <1>8, <1>9, <1>10, QuietStep

LEMMA DeleteStep ==
    ASSUME Inv, ~Overlapping, NEW i \in ItemIds, DeleteItem(i)
    PROVE  Inv'
<1>1. /\ \A w \in Worlds : moving[w] = NoMove
      /\ created' = created /\ UNCHANGED moving
      /\ items' = [w \in Worlds |-> Removed(items[w], i)]
  BY DEF Inv, DeleteItem, Free, Removed
<1>2. created' \in created..MaxItems
  BY <1>1, OwnerBlindAssumption DEF Inv
<1>3. \A w \in Worlds : items'[w] = Removed(items[w], i)
  BY <1>1
<1>4. /\ reply' = [w \in Worlds |-> IF Live(items[w], i) THEN "ok" ELSE "not_found"]
      /\ \A v, w \in Worlds : Live(items[v], i) <=> Live(items[w], i)
  BY DEF DeleteItem, Inv, Alike
<1>5. /\ DOMAIN reply' = Worlds /\ \A w \in Worlds : reply'[w] \in Replies
      /\ \A v, w \in Worlds : reply'[v] = reply'[w]
  BY <1>4 DEF Replies
<1>6. ASSUME NEW v \in Worlds, NEW w \in Worlds
      PROVE  TableOK(items'[v]) /\ DOMAIN items'[v] \subseteq DOMAIN items[v] /\ Alike(items'[v], items'[w])
  <2>1. TableOK(items[v]) /\ TableOK(items[w]) /\ Alike(items[v], items[w])
    BY DEF Inv, WorldOK
  <2> QED
    BY <1>3, <2>1, RemovalKeeps
<1>7. \A w \in Worlds : DOMAIN items'[w] \subseteq 1..created'
  BY <1>1, <1>6 DEF Inv, WorldOK
<1>8. DOMAIN items' = Worlds /\ reply' = [w \in Worlds |-> reply'[w]]
  BY <1>1, <1>4
<1> QED
  BY <1>1, <1>2, <1>5, <1>6, <1>7, <1>8, QuietStep

LEMMA RelistStep ==
    ASSUME Inv, ~Overlapping, NEW i \in ItemIds, NEW dest \in ListIds,
           MoveItemToList(i, dest)
    PROVE  Inv'
<1>1. /\ \A w \in Worlds : moving[w] = NoMove
      /\ created' = created /\ UNCHANGED moving
      /\ items' = [w \in Worlds |-> Relisted(items[w], i, dest)]
  BY DEF Inv, MoveItemToList, Free, Relisted, Moved
<1>2. created' \in created..MaxItems
  BY <1>1, OwnerBlindAssumption DEF Inv
<1>3. \A w \in Worlds : items'[w] = Relisted(items[w], i, dest)
  BY <1>1
<1>4. /\ reply' = [w \in Worlds |-> IF Live(items[w], i) THEN "ok" ELSE "not_found"]
      /\ \A v, w \in Worlds : Live(items[v], i) <=> Live(items[w], i)
  BY DEF MoveItemToList, Inv, Alike
<1>5. /\ DOMAIN reply' = Worlds /\ \A w \in Worlds : reply'[w] \in Replies
      /\ \A v, w \in Worlds : reply'[v] = reply'[w]
  BY <1>4 DEF Replies
<1>6. ASSUME NEW v \in Worlds, NEW w \in Worlds
      PROVE  TableOK(items'[v]) /\ DOMAIN items'[v] = DOMAIN items[v] /\ Alike(items'[v], items'[w])
  <2>1. TableOK(items[v]) /\ TableOK(items[w]) /\ Alike(items[v], items[w])
    BY DEF Inv, WorldOK
  <2>2. NextPosition(items[v], dest) <= MaxPosition /\ NextPosition(items[w], dest) <= MaxPosition
    BY DEF MoveItemToList
  <2> QED
    BY <1>3, <2>1, <2>2, RelistKeeps
<1>7. \A w \in Worlds : DOMAIN items'[w] \subseteq 1..created'
  BY <1>1, <1>6 DEF Inv, WorldOK
<1>8. DOMAIN items' = Worlds /\ reply' = [w \in Worlds |-> reply'[w]]
  BY <1>1, <1>4
<1> QED
  BY <1>1, <1>2, <1>5, <1>6, <1>7, <1>8, QuietStep

LEMMA MoveStep ==
    ASSUME Inv, NEW i \in ItemIds, NEW up \in BOOLEAN, MoveItem(i, up)
    PROVE  Inv'
<1>1. /\ UNCHANGED <<created, items>>
      /\ moving' = [w \in Worlds |-> Planned(items[w], i, up)]
      /\ reply' = [w \in Worlds |-> IF Live(items[w], i) THEN "ok" ELSE "not_found"]
  BY DEF MoveItem, Planned, Fits
<1>2. \A v, w \in Worlds : TableOK(items[v]) /\ Alike(items[v], items[w])
  BY DEF Inv, WorldOK
<1>3. \A v, w \in Worlds : Live(items[v], i) <=> Live(items[w], i)
  BY <1>2 DEF Alike
<1>4. /\ reply' \in [Worlds -> Replies]
      /\ \A v, w \in Worlds : reply'[v] = reply'[w]
  BY <1>1, <1>3 DEF Replies
<1>5. \A w \in Worlds : moving'[w] = Planned(items[w], i, up)
  BY <1>1
<1>6. ASSUME NEW v \in Worlds, NEW w \in Worlds
      PROVE  MoveOK(moving'[v], items[v]) /\ moving'[v] = moving'[w]
  BY <1>2, <1>5, PlannedAlike
<1>7. DOMAIN moving' = Worlds
  BY <1>1
<1> QED
  BY <1>1, <1>4, <1>6, <1>7 DEF Inv, WorldOK

LEMMA ReorderStep ==
    ASSUME Inv, ReorderItems
    PROVE  Inv'
<1>1. /\ UNCHANGED <<created, reply>>
      /\ items' = [w \in Worlds |-> Reordered(items[w], moving[w])]
      /\ moving' = [w \in Worlds |-> NoMove]
  BY DEF ReorderItems, Reordered
<1>2. \A w \in Worlds : items'[w] = Reordered(items[w], moving[w]) /\ moving'[w] = NoMove
  BY <1>1
<1>3. ASSUME NEW v \in Worlds, NEW w \in Worlds
      PROVE  TableOK(items'[v]) /\ DOMAIN items'[v] = DOMAIN items[v] /\ Alike(items'[v], items'[w])
  <2>1. /\ TableOK(items[v]) /\ TableOK(items[w]) /\ Alike(items[v], items[w])
        /\ MoveOK(moving[v], items[v]) /\ MoveOK(moving[v], items[w])
        /\ moving[v] = moving[w]
    BY DEF Inv, WorldOK
  <2>2. items'[v] = Reordered(items[v], moving[v]) /\ items'[w] = Reordered(items[w], moving[v])
    BY <1>2, <2>1
  <2> QED
    BY <2>1, <2>2, ReorderKeeps
<1>4. \A w \in Worlds : MoveOK(moving'[w], items'[w])
  BY <1>2 DEF MoveOK
<1>5. \A w \in Worlds : DOMAIN items'[w] \subseteq 1..created'
  BY <1>1, <1>3 DEF Inv, WorldOK
<1>6. DOMAIN items' = Worlds /\ DOMAIN moving' = Worlds
  BY <1>1
<1> QED
  BY <1>1, <1>2, <1>3, <1>4, <1>5, <1>6 DEF Inv, WorldOK

\* A claim or a release changes claimed in one row of one world.
LEMMA ClaimStep ==
    ASSUME Inv, NEW x \in Worlds, NEW i \in DOMAIN items[x], NEW c \in Nat,
           c <= items[x][i].quantity,
           items' = [items EXCEPT ![x] = Claimed(items[x], i, c)],
           UNCHANGED <<created, moving, reply>>
    PROVE  Inv'
<1>1. /\ DOMAIN items' = Worlds /\ items'[x] = Claimed(items[x], i, c)
      /\ \A w \in Worlds \ {x} : items'[w] = items[w]
  BY DEF Inv
<1>2. \A w \in Worlds : TableOK(items[w]) /\ MoveOK(moving[w], items[w])
  BY DEF Inv, WorldOK
<1>3. \A w \in Worlds : SameToOwner(items[w], items[w])
  BY DEF SameToOwner
<1>4. /\ TableOK(items'[x]) /\ DOMAIN items'[x] = DOMAIN items[x]
      /\ SameToOwner(items'[x], items[x])
  BY <1>1, <1>2, ClaimUnseen
<1>5. \A w \in Worlds : /\ TableOK(items'[w]) /\ DOMAIN items'[w] = DOMAIN items[w]
                         /\ SameToOwner(items'[w], items[w])
  BY <1>1, <1>2, <1>3, <1>4
<1>6. \A v, w \in Worlds : Alike(items[v], items[w])
  BY DEF Inv
<1>7. \A v, w \in Worlds : Alike(items'[v], items'[w])
  BY <1>5, <1>6, SameKeepsAlike
<1>8. \A w \in Worlds : MoveOK(moving[w], items'[w])
  BY <1>2, <1>5, MoveStands
<1> QED
  BY <1>1, <1>5, <1>7, <1>8 DEF Inv, WorldOK

LEMMA CreateClaimStep ==
    ASSUME Inv, NEW w \in Worlds, NEW i \in ItemIds, CreateClaim(w, i)
    PROVE  Inv'
<1> DEFINE c == items[w][i].claimed + 1
<1>1. i \in DOMAIN items[w] /\ TableOK(items[w]) /\ w \in DOMAIN items
  BY DEF CreateClaim, Live, Inv, WorldOK
<1>2. /\ items[w][i].claimed \in Nat /\ items[w][i].quantity \in 1..MaxQuantity
      /\ items[w][i].claimed < items[w][i].quantity
  BY <1>1, Fields DEF CreateClaim
<1>3. c \in Nat /\ c <= items[w][i].quantity
  BY <1>2, OwnerBlindAssumption
<1>4. items' = [items EXCEPT ![w] = Claimed(items[w], i, c)]
  BY <1>1 DEF CreateClaim, Claimed
<1> HIDE DEF c
<1> QED
  BY <1>1, <1>3, <1>4, ClaimStep DEF CreateClaim

LEMMA ReleaseClaimStep ==
    ASSUME Inv, NEW w \in Worlds, NEW i \in ItemIds, ReleaseClaim(w, i)
    PROVE  Inv'
<1> DEFINE c == items[w][i].claimed - 1
<1>1. i \in DOMAIN items[w] /\ TableOK(items[w]) /\ w \in DOMAIN items
  BY DEF ReleaseClaim, Inv, WorldOK
<1>2. /\ items[w][i].claimed \in Nat /\ items[w][i].quantity \in 1..MaxQuantity
      /\ items[w][i].claimed > 0 /\ items[w][i].claimed <= items[w][i].quantity
  BY <1>1, Fields DEF ReleaseClaim
<1>3. c \in Nat /\ c <= items[w][i].quantity
  BY <1>2, OwnerBlindAssumption
<1>4. items' = [items EXCEPT ![w] = Claimed(items[w], i, c)]
  BY <1>1 DEF ReleaseClaim, Claimed
<1> HIDE DEF c
<1> QED
  BY <1>1, <1>3, <1>4, ClaimStep DEF ReleaseClaim

LEMMA InvNext ==
    ASSUME Inv, ~Overlapping, [Next]_vars
    PROVE  Inv'
<1>1. ASSUME NEW l \in ListIds, NEW q \in 1..MaxQuantity, NEW p \in Pictures,
             CreateItem(l, q, p)
      PROVE  Inv'
  BY <1>1, CreateStep
<1>2. ASSUME NEW i \in ItemIds, NEW q \in 1..MaxQuantity, NEW p \in Pictures,
             UpdateItem(i, q, p)
      PROVE  Inv'
  BY <1>2, UpdateStep
<1>3. ASSUME NEW i \in ItemIds, DeleteItem(i)
      PROVE  Inv'
  BY <1>3, DeleteStep
<1>4. ASSUME NEW i \in ItemIds, NEW dest \in ListIds, MoveItemToList(i, dest)
      PROVE  Inv'
  BY <1>4, RelistStep
<1>5. ASSUME NEW i \in ItemIds, NEW up \in BOOLEAN, MoveItem(i, up)
      PROVE  Inv'
  BY <1>5, MoveStep
<1>6. CASE ReorderItems
  BY <1>6, ReorderStep
<1>7. ASSUME NEW w \in Worlds, NEW i \in ItemIds, CreateClaim(w, i) \/ ReleaseClaim(w, i)
      PROVE  Inv'
  BY <1>7, CreateClaimStep, ReleaseClaimStep
<1>8. CASE UNCHANGED vars
  BY <1>8 DEF vars, Inv, WorldOK
<1> QED
  BY <1>1, <1>2, <1>3, <1>4, <1>5, <1>6, <1>7, <1>8 DEF Next

-----------------------------------------------------------------------------
(* What the invariant says.                                                *)

LEMMA AlikeShowsTheSame ==
    ASSUME NEW t, NEW u, TableOK(t), TableOK(u), Alike(t, u)
    PROVE  /\ \A l \in ListIds : Page(t, l) = Page(u, l)
           /\ \A i \in ItemIds : Live(t, i) => Card(t, i) = Card(u, i)
<1>1. ASSUME NEW l \in ListIds
      PROVE  Page(t, l) = Page(u, l)
  <2>1. LiveOn(t, l) = LiveOn(u, l)
    BY AlikePages
  <2>2. \A i, j \in LiveOn(t, l) : Before(t, i, j) <=> Before(u, i, j)
    BY DEF Alike, LiveOn, On, Live, TableOK
  <2>3. \A p \in LiveOn(t, l) \X LiveOn(t, l) : Before(t, p[1], p[2]) <=> Before(u, p[1], p[2])
    BY <2>2
  <2> QED
    BY <2>1, <2>3 DEF Page
<1> QED
  BY <1>1 DEF Alike

LEMMA InvImpliesTypeOK ==
    ASSUME Inv
    PROVE  TypeOK
<1>1. ASSUME NEW w \in Worlds
      PROVE  /\ DOMAIN items[w] \subseteq 1..created
             /\ \A i \in DOMAIN items[w] :
                   items[w][i] \in ItemRow /\ items[w][i].claimed <= items[w][i].quantity
             /\ moving[w] = NoMove \/ moving[w].list \in ListIds
             /\ \A i \in DOMAIN moving[w].order :
                   moving[w].order[i] \in 1..Cardinality(DOMAIN moving[w].order)
  <2>1. /\ TableOK(items[w]) /\ DOMAIN items[w] \subseteq 1..created
        /\ MoveOK(moving[w], items[w])
    BY DEF Inv, WorldOK
  <2>2. \A i \in DOMAIN items[w] :
            items[w][i] \in ItemRow /\ items[w][i].claimed <= items[w][i].quantity
    BY <2>1, Fields
  <2>3. CASE moving[w] = NoMove
    <3>1. DOMAIN moving[w].order = {}
      BY <2>3 DEF NoMove, EmptyTable
    <3> QED
      BY <2>1, <2>2, <2>3, <3>1
  <2>4. CASE moving[w] # NoMove
    BY <2>1, <2>2, <2>4 DEF MoveOK
  <2> QED
    BY <2>3, <2>4
<1> QED
  BY <1>1 DEF Inv, TypeOK

LEMMA InvImpliesBlind ==
    ASSUME Inv
    PROVE  BlindToClaims
<1>1. \A v, w \in Worlds :
          TableOK(items[v]) /\ Alike(items[v], items[w]) /\ reply[v] = reply[w]
  BY DEF Inv, WorldOK
<1>2. 1..created \subseteq ItemIds
  BY OwnerBlindAssumption DEF Inv, ItemIds
<1>3. PagesAgree
  BY <1>1, <1>2, AlikeShowsTheSame DEF PagesAgree
<1> QED
  BY <1>1, <1>3 DEF BlindToClaims, RepliesAgree

LEMMA SpecKeepsInv ==
    ASSUME ~Overlapping
    PROVE  Spec => []Inv
<1>1. Init => Inv
  BY InvInit
<1>2. Inv /\ [Next]_vars => Inv'
  BY InvNext
<1> QED
  BY <1>1, <1>2, PTL DEF Spec

\* Rows stay well formed, none claims more than it wants, and a move in flight
\* writes places that its page has, when the owner sends one request at a time.
THEOREM TypesHold ==
    ASSUME ~Overlapping
    PROVE  Spec => []TypeOK
  BY SpecKeepsInv, InvImpliesTypeOK, PTL

\* The owner never learns of a claim: whatever the owner asks for and whatever
\* the claimers do in either world, every list page shows the same items in the
\* same order with the same cards, and every request was answered the same, when
\* the owner sends one request at a time and the refusal to set a quantity below
\* what is claimed is left aside.
THEOREM OwnerStaysBlind ==
    ASSUME ~Overlapping
    PROVE  Spec => []BlindToClaims
  BY SpecKeepsInv, InvImpliesBlind, PTL

=============================================================================
