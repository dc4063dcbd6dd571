--------------------------- MODULE WishStoreProofs ---------------------------
(***************************************************************************)
(* Proofs about WishStore for every set of users, lists, items and claims  *)
(* and every MaxQuantity, and about Pages for any number of writes.        *)
(***************************************************************************)
EXTENDS Pages, FiniteSetTheorems, TLAPS

\* An action is its guard and its assignments.
USE DEF CanUpdateItem, CanDeleteItem, CanMoveItem, CanCreateClaim, OwnsClaim

-----------------------------------------------------------------------------
(* Counting the units of a table of claims.  A sum over the rows would     *)
(* need induction; as the size of a set it follows from the library's      *)
(* theorems about unions, differences and products of finite sets.         *)

Units(t, i) == UNION {{k} \X (1..t[k].qty) : k \in {m \in DOMAIN t : t[m].item = i}}

\* A pair is a unit of i exactly when its claim is on i and large enough.
LEMMA UnitsMember ==
    ASSUME NEW t, NEW i, NEW x
    PROVE  x \in Units(t, i) <=>
             \E k \in DOMAIN t : t[k].item = i /\ x \in {k} \X (1..t[k].qty)
BY DEF Units

\* n units of one claim are n pairs.
LEMMA UnitsOfOne ==
    ASSUME NEW k, NEW n \in Nat
    PROVE  /\ IsFiniteSet({k} \X (1..n))
           /\ Cardinality({k} \X (1..n)) = n
<1>1. IsFiniteSet({k}) /\ Cardinality({k}) = 1
  BY FS_Singleton
<1>2. IsFiniteSet(1..n) /\ Cardinality(1..n) = n
  BY FS_Interval
<1>3. /\ IsFiniteSet({k} \X (1..n))
      /\ Cardinality({k} \X (1..n)) = Cardinality({k}) * Cardinality(1..n)
  BY <1>1, <1>2, FS_Product
<1> QED
  BY <1>1, <1>2, <1>3

\* Finitely many claims hold finitely many units.
LEMMA UnitsFinite ==
    ASSUME NEW t, NEW i, IsFiniteSet(DOMAIN t), \A k \in DOMAIN t : t[k].qty \in Nat
    PROVE  IsFiniteSet(Units(t, i)) /\ Cardinality(Units(t, i)) \in Nat
<1> DEFINE D == {m \in DOMAIN t : t[m].item = i}
           F == {{k} \X (1..t[k].qty) : k \in D}
<1>1. IsFiniteSet(D)
  BY FS_Subset
<1>2. IsFiniteSet(F)
  <2> DEFINE f == [k \in D |-> {k} \X (1..t[k].qty)]
  <2>1. f \in Surjection(D, F)
    BY DEF Surjection
  <2> QED
    BY <1>1, <2>1, FS_Surjection
<1>3. \A T \in F : IsFiniteSet(T)
  <2> SUFFICES ASSUME NEW k \in D
               PROVE  IsFiniteSet({k} \X (1..t[k].qty))
    OBVIOUS
  <2>1. t[k].qty \in Nat
    OBVIOUS
  <2> QED
    BY <2>1, UnitsOfOne
<1>4. IsFiniteSet(UNION F)
  BY <1>2, <1>3, FS_UNION
<1>5. Units(t, i) = UNION F
  BY DEF Units
<1> QED
  BY <1>4, <1>5, FS_CardinalityType

\* A new claim adds its units to its item and nothing to any other.
LEMMA UnitsPut ==
    ASSUME NEW t, NEW k, NEW row, NEW i,
           IsFiniteSet(DOMAIN t), \A m \in DOMAIN t : t[m].qty \in Nat,
           k \notin DOMAIN t, row.qty \in Nat
    PROVE  Cardinality(Units(Put(t, k, row), i)) =
             IF row.item = i THEN Cardinality(Units(t, i)) + row.qty
                             ELSE Cardinality(Units(t, i))
<1> DEFINE p == Put(t, k, row)
           N == {k} \X (1..row.qty)
<1>1. /\ DOMAIN p = DOMAIN t \cup {k}
      /\ p[k] = row
      /\ \A m \in DOMAIN t : p[m] = t[m]
  BY DEF Put
<1>2. IsFiniteSet(Units(t, i)) /\ Cardinality(Units(t, i)) \in Nat
  BY UnitsFinite
<1>3. IsFiniteSet(N) /\ Cardinality(N) = row.qty
  BY UnitsOfOne
<1>4. Units(t, i) \cap N = {}
  <2> SUFFICES ASSUME NEW x \in Units(t, i), x \in N
               PROVE  FALSE
    OBVIOUS
  <2>1. PICK m \in DOMAIN t : x \in {m} \X (1..t[m].qty)
    BY UnitsMember
  <2> QED
    BY <2>1
<1>5. CASE row.item = i
  <2>1. Units(p, i) = Units(t, i) \cup N
    <3> SUFFICES ASSUME NEW x
                 PROVE  x \in Units(p, i) <=> x \in Units(t, i) \/ x \in N
      OBVIOUS
    <3>1. x \in Units(p, i) <=>
            \E m \in DOMAIN p : p[m].item = i /\ x \in {m} \X (1..p[m].qty)
      BY UnitsMember
    <3>2. x \in Units(t, i) <=>
            \E m \in DOMAIN t : t[m].item = i /\ x \in {m} \X (1..t[m].qty)
      BY UnitsMember
    <3> HIDE DEF p
    <3> QED
      BY <1>1, <1>5, <3>1, <3>2
  <2>2. Cardinality(Units(t, i) \cup N) =
          Cardinality(Units(t, i)) + Cardinality(N) - Cardinality(Units(t, i) \cap N)
    BY <1>2, <1>3, FS_Union
  <2>3. Cardinality(Units(t, i) \cap N) = 0
    BY <1>4, FS_EmptySet
  <2> HIDE DEF p, N
  <2>4. Cardinality(Units(p, i)) = Cardinality(Units(t, i)) + row.qty
    BY <1>2, <1>3, <2>1, <2>2, <2>3
  <2> QED
    BY <1>5, <2>4 DEF p
<1>6. CASE row.item # i
  <2>1. Units(p, i) = Units(t, i)
    <3> SUFFICES ASSUME NEW x
                 PROVE  x \in Units(p, i) <=> x \in Units(t, i)
      OBVIOUS
    <3>1. x \in Units(p, i) <=>
            \E m \in DOMAIN p : p[m].item = i /\ x \in {m} \X (1..p[m].qty)
      BY UnitsMember
    <3>2. x \in Units(t, i) <=>
            \E m \in DOMAIN t : t[m].item = i /\ x \in {m} \X (1..t[m].qty)
      BY UnitsMember
    <3> HIDE DEF p
    <3> QED
      BY <1>1, <1>6, <3>1, <3>2
  <2> QED
    BY <1>6, <2>1
<1> QED
  BY <1>5, <1>6

\* Two tables with the same claims on i, of the same sizes, have the same units.
LEMMA UnitsSame ==
    ASSUME NEW t, NEW s, NEW i,
           \A k : (k \in DOMAIN t /\ t[k].item = i) <=> (k \in DOMAIN s /\ s[k].item = i),
           \A k : k \in DOMAIN t /\ t[k].item = i => t[k].qty = s[k].qty
    PROVE  Units(t, i) = Units(s, i)
<1> SUFFICES ASSUME NEW x
             PROVE  x \in Units(t, i) <=> x \in Units(s, i)
  OBVIOUS
<1>1. x \in Units(t, i) <=>
        \E m \in DOMAIN t : t[m].item = i /\ x \in {m} \X (1..t[m].qty)
  BY UnitsMember
<1>2. x \in Units(s, i) <=>
        \E m \in DOMAIN s : s[m].item = i /\ x \in {m} \X (1..s[m].qty)
  BY UnitsMember
<1> QED
  BY <1>1, <1>2

\* A released claim takes exactly its own units away.
LEMMA UnitsDrop ==
    ASSUME NEW t, NEW k \in DOMAIN t, NEW i,
           IsFiniteSet(DOMAIN t), \A m \in DOMAIN t : t[m].qty \in Nat
    PROVE  Cardinality(Units(t, i)) =
             IF t[k].item = i THEN Cardinality(Units(Drop(t, {k}), i)) + t[k].qty
                              ELSE Cardinality(Units(Drop(t, {k}), i))
<1> DEFINE d == Drop(t, {k})
           p == Put(d, k, t[k])
<1>1. /\ DOMAIN d = DOMAIN t \ {k}
      /\ \A m \in DOMAIN d : d[m] = t[m]
  BY DEF Drop, Restrict
<1>2. IsFiniteSet(DOMAIN d)
  BY <1>1, FS_Subset
<1>3. Cardinality(Units(p, i)) =
        IF t[k].item = i THEN Cardinality(Units(d, i)) + t[k].qty
                         ELSE Cardinality(Units(d, i))
  <2> HIDE DEF d
  <2> QED
    BY <1>1, <1>2, UnitsPut
<1>4. /\ DOMAIN p = DOMAIN t
      /\ \A m \in DOMAIN t : p[m] = t[m]
  <2> HIDE DEF d
  <2> QED
    BY <1>1 DEF Put
<1>5. Units(p, i) = Units(t, i)
  <2> HIDE DEF p
  <2> QED
    BY <1>4, UnitsSame
<1> QED
  BY <1>3, <1>5

\* Nothing is held on an item exactly when it has no claims.
LEMMA UnitsNone ==
    ASSUME NEW t, NEW i, IsFiniteSet(DOMAIN t),
           \A m \in DOMAIN t : t[m].qty \in Nat \ {0}
    PROVE  Cardinality(Units(t, i)) = 0 <=> {m \in DOMAIN t : t[m].item = i} = {}
<1>1. IsFiniteSet(Units(t, i))
  BY UnitsFinite
<1>2. Cardinality(Units(t, i)) = 0 <=> Units(t, i) = {}
  BY <1>1, FS_EmptySet
<1>3. ASSUME NEW m \in DOMAIN t, t[m].item = i
      PROVE  <<m, 1>> \in Units(t, i)
  <2>1. <<m, 1>> \in {m} \X (1..t[m].qty)
    OBVIOUS
  <2> QED
    BY <1>3, <2>1, UnitsMember
<1>4. ASSUME NEW x \in Units(t, i)
      PROVE  \E m \in DOMAIN t : t[m].item = i
  BY UnitsMember
<1> QED
  BY <1>2, <1>3, <1>4

-----------------------------------------------------------------------------
(* Tables.                                                                 *)

\* Deleting rows keeps a table well typed and the other rows as they are.
LEMMA DropRows ==
    ASSUME NEW t, NEW Keys, NEW Rows, DOMAIN t \subseteq Keys, t \in [DOMAIN t -> Rows],
           NEW K
    PROVE  /\ DOMAIN Drop(t, K) = DOMAIN t \ K
           /\ DOMAIN Drop(t, K) \subseteq Keys
           /\ Drop(t, K) \in [DOMAIN Drop(t, K) -> Rows]
           /\ \A m \in DOMAIN t \ K : Drop(t, K)[m] = t[m]
BY DEF Drop, Restrict

-----------------------------------------------------------------------------
(* The inductive invariant.  Types alone are not inductive: that a release *)
(* leaves claimed_qty a natural number needs the counter to match, and     *)
(* that the counter of an item the database no longer holds does not       *)
(* matter needs the references.                                            *)

Counted == \A i \in DOMAIN items : items[i].claimed_qty = Cardinality(Units(claims, i))

FiniteClaims == IsFiniteSet(DOMAIN claims)

IInv ==
    /\ TypeOK
    /\ References
    /\ Counted
    /\ OwnerNeverClaims
    /\ FiniteClaims

\* Counted is CounterMatchesClaims, with the units of a table named.
LEMMA CountedIsCounter == Counted <=> CounterMatchesClaims
BY DEF Counted, CounterMatchesClaims, ClaimUnits, Units, ClaimsOn

LEMMA InitIInv == Init => IInv
<1> SUFFICES ASSUME Init PROVE IInv
  OBVIOUS
<1>1. DOMAIN lists = {} /\ DOMAIN items = {} /\ DOMAIN claims = {} /\ shares = {}
  BY DEF Init, EmptyTable
<1>2. TypeOK
  BY <1>1 DEF Init, EmptyTable, TypeOK
<1>3. FiniteClaims
  BY <1>1, FS_EmptySet DEF FiniteClaims
<1> QED
  BY <1>1, <1>2, <1>3 DEF IInv, References, Counted, OwnerNeverClaims

\* The owner's writes to lists and shares touch no item and no claim.
LEMMA ListWritesIInv ==
    ASSUME IInv, NEW u \in Users, NEW l \in ListIds,
           \/ \E v \in Visibilities : CreateList(u, l, v) \/ UpdateList(u, l, v)
           \/ \E chosen \in SUBSET Users : ReplaceShares(u, l, chosen)
    PROVE  IInv'
<1> USE DEF IInv
<1>1. ASSUME NEW v \in Visibilities, CreateList(u, l, v)
      PROVE  IInv'
  <2> DEFINE row == [owner |-> u, visibility |-> v]
  <2>1. row \in ListRow
    BY DEF ListRow
  <2>2. /\ lists' = Put(lists, l, row) /\ l \notin DOMAIN lists
        /\ UNCHANGED <<shares, items, claims>>
    BY <1>1 DEF CreateList
  <2>3. /\ DOMAIN lists' = DOMAIN lists \cup {l}
        /\ DOMAIN lists' \subseteq ListIds
        /\ lists' \in [DOMAIN lists' -> ListRow]
        /\ \A m \in DOMAIN lists : lists'[m] = lists[m]
    BY <2>1, <2>2 DEF TypeOK, Put
  <2>4. TypeOK'
    BY <2>2, <2>3 DEF TypeOK
  <2>5. References'
    BY <2>2, <2>3 DEF References
  <2>6. OwnerNeverClaims'
    BY <2>2, <2>3 DEF OwnerNeverClaims, OwnerOf, References
  <2> QED
    BY <2>2, <2>4, <2>5, <2>6 DEF Counted, FiniteClaims
<1>2. ASSUME NEW v \in Visibilities, UpdateList(u, l, v)
      PROVE  IInv'
  <2>1. /\ l \in DOMAIN lists
        /\ lists' = [lists EXCEPT ![l].visibility = v]
        /\ UNCHANGED <<shares, items, claims>>
    BY <1>2 DEF UpdateList, Owns
  <2>2. /\ DOMAIN lists' = DOMAIN lists
        /\ \A m \in DOMAIN lists : lists'[m].owner = lists[m].owner
    BY <2>1 DEF TypeOK, ListRow
  <2>3. TypeOK'
    BY <2>1 DEF TypeOK, ListRow
  <2>4. References'
    BY <2>1, <2>2 DEF References
  <2>5. OwnerNeverClaims'
    BY <2>1, <2>2 DEF OwnerNeverClaims, OwnerOf, References
  <2> QED
    BY <2>1, <2>3, <2>4, <2>5 DEF Counted, FiniteClaims
<1>3. ASSUME NEW chosen \in SUBSET Users, ReplaceShares(u, l, chosen)
      PROVE  IInv'
  <2>1. /\ l \in DOMAIN lists
        /\ shares' = {s \in shares : s[1] # l} \cup ({l} \X (chosen \ {u}))
        /\ UNCHANGED <<lists, items, claims>>
    BY <1>3 DEF ReplaceShares, Owns
  <2>2. TypeOK'
    BY <2>1 DEF TypeOK
  <2>3. References'
    BY <2>1 DEF References
  <2> QED
    BY <2>1, <2>2, <2>3 DEF Counted, FiniteClaims, OwnerNeverClaims, OwnerOf
<1> QED
  BY <1>1, <1>2, <1>3

\* The cascades of DeleteList leave exactly the rows of the other lists.
LEMMA DeleteListIInv ==
    ASSUME IInv, NEW u \in Users, NEW l \in ListIds, DeleteList(u, l)
    PROVE  IInv'
<1> USE DEF IInv
<1> DEFINE gone == UNION {ClaimsOn(i) : i \in ItemsOn(l)}
<1>1. /\ lists'  = Drop(lists, {l})
      /\ shares' = {s \in shares : s[1] # l}
      /\ items'  = Drop(items, ItemsOn(l))
      /\ claims' = Drop(claims, gone)
  BY DEF DeleteList
<1>2. /\ DOMAIN lists' = DOMAIN lists \ {l}
      /\ DOMAIN lists' \subseteq ListIds
      /\ lists' \in [DOMAIN lists' -> ListRow]
      /\ \A m \in DOMAIN lists' : lists'[m] = lists[m]
  <2>1. DOMAIN lists \subseteq ListIds /\ lists \in [DOMAIN lists -> ListRow]
    BY DEF TypeOK
  <2>2. /\ DOMAIN Drop(lists, {l}) = DOMAIN lists \ {l}
        /\ DOMAIN Drop(lists, {l}) \subseteq ListIds
        /\ Drop(lists, {l}) \in [DOMAIN Drop(lists, {l}) -> ListRow]
        /\ \A m \in DOMAIN lists \ {l} : Drop(lists, {l})[m] = lists[m]
    BY <2>1, DropRows
  <2> QED
    BY <1>1, <2>2
<1>3. /\ DOMAIN items' = DOMAIN items \ ItemsOn(l)
      /\ DOMAIN items' \subseteq ItemIds
      /\ items' \in [DOMAIN items' -> ItemRow]
      /\ \A m \in DOMAIN items' : items'[m] = items[m]
  <2>1. DOMAIN items \subseteq ItemIds /\ items \in [DOMAIN items -> ItemRow]
    BY DEF TypeOK
  <2>2. /\ DOMAIN Drop(items, ItemsOn(l)) = DOMAIN items \ ItemsOn(l)
        /\ DOMAIN Drop(items, ItemsOn(l)) \subseteq ItemIds
        /\ Drop(items, ItemsOn(l)) \in [DOMAIN Drop(items, ItemsOn(l)) -> ItemRow]
        /\ \A m \in DOMAIN items \ ItemsOn(l) : Drop(items, ItemsOn(l))[m] = items[m]
    BY <2>1, DropRows
  <2> QED
    BY <1>1, <2>2
<1>4. /\ DOMAIN claims' = DOMAIN claims \ gone
      /\ DOMAIN claims' \subseteq ClaimIds
      /\ claims' \in [DOMAIN claims' -> ClaimRow]
      /\ \A m \in DOMAIN claims' : claims'[m] = claims[m]
  <2> HIDE DEF gone
  <2>1. DOMAIN claims \subseteq ClaimIds /\ claims \in [DOMAIN claims -> ClaimRow]
    BY DEF TypeOK
  <2>2. /\ DOMAIN Drop(claims, gone) = DOMAIN claims \ gone
        /\ DOMAIN Drop(claims, gone) \subseteq ClaimIds
        /\ Drop(claims, gone) \in [DOMAIN Drop(claims, gone) -> ClaimRow]
        /\ \A m \in DOMAIN claims \ gone : Drop(claims, gone)[m] = claims[m]
    BY <2>1, DropRows
  <2> QED
    BY <1>1, <2>2
<1>5. \A c \in DOMAIN claims : c \in gone <=> claims[c].item \in ItemsOn(l)
  BY DEF ClaimsOn
<1> HIDE DEF gone
<1>6. TypeOK'
  BY <1>1, <1>2, <1>3, <1>4 DEF TypeOK
<1>7. References'
  BY <1>1, <1>2, <1>3, <1>4, <1>5 DEF References, ItemsOn, TypeOK
<1>8. Counted'
  <2> SUFFICES ASSUME NEW i \in DOMAIN items'
               PROVE  Units(claims', i) = Units(claims, i)
    BY <1>3 DEF Counted
  <2> QED
    BY <1>3, <1>4, <1>5, UnitsSame
<1>9. OwnerNeverClaims'
  BY <1>2, <1>3, <1>4, <1>7 DEF OwnerNeverClaims, OwnerOf, References
<1>10. FiniteClaims'
  BY <1>4, FS_Subset DEF FiniteClaims
<1> QED
  BY <1>6, <1>7, <1>8, <1>9, <1>10

\* The owner's writes to one item leave every claim alone, and every one of
\* them keeps claimed_qty within the quantity and the item with its owner.
LEMMA ItemWritesIInv ==
    ASSUME IInv, NEW u \in Users, NEW i \in ItemIds, ItemStep(u, i)
    PROVE  IInv'
<1> USE DEF IInv
<1>1. ASSUME NEW l \in ListIds, NEW q \in Quantities, CreateItem(u, l, i, q)
      PROVE  IInv'
  <2> DEFINE row == [list |-> l, quantity |-> q, claimed_qty |-> 0, deleted |-> FALSE]
  <2>1. /\ l \in DOMAIN lists /\ lists[l].owner = u
        /\ i \notin DOMAIN items
        /\ items' = Put(items, i, row)
        /\ UNCHANGED <<lists, shares, claims>>
    BY <1>1 DEF CreateItem, Owns
  <2>2. row \in ItemRow /\ row.claimed_qty <= row.quantity
    BY DEF ItemRow, Quantities
  <2>3. /\ DOMAIN items' = DOMAIN items \cup {i}
        /\ items' \in [DOMAIN items' -> ItemRow]
        /\ items'[i] = row
        /\ \A m \in DOMAIN items : items'[m] = items[m]
    BY <2>1, <2>2 DEF TypeOK, Put
  <2>4. row.list = l /\ row.claimed_qty = 0
    OBVIOUS
  <2> HIDE DEF row
  <2>5. TypeOK' /\ References'
    BY <2>1, <2>2, <2>3, <2>4 DEF TypeOK, References
  <2>6. Counted'
    <3>1. {m \in DOMAIN claims : claims[m].item = i} = {}
      BY <2>1 DEF References
    <3>2. \A m \in DOMAIN claims : claims[m].qty \in Nat \ {0}
      BY DEF TypeOK, ClaimRow, Quantities
    <3>3. Cardinality(Units(claims, i)) = 0
      BY <3>1, <3>2, UnitsNone DEF FiniteClaims
    <3> QED
      BY <2>1, <2>3, <2>4, <3>3 DEF Counted
  <2>7. OwnerNeverClaims'
    BY <2>1, <2>3 DEF OwnerNeverClaims, OwnerOf, References
  <2> QED
    BY <2>1, <2>5, <2>6, <2>7 DEF FiniteClaims
<1>2. ASSUME NEW q \in Quantities, UpdateItem(u, i, q)
      PROVE  IInv'
  <2>1. /\ i \in DOMAIN items
        /\ items[i].claimed_qty <= q
        /\ items' = [items EXCEPT ![i].quantity = q]
        /\ UNCHANGED <<lists, shares, claims>>
    BY <1>2 DEF UpdateItem, Live
  <2>2. /\ DOMAIN items' = DOMAIN items
        /\ \A m \in DOMAIN items : /\ items'[m].list = items[m].list
                                   /\ items'[m].claimed_qty = items[m].claimed_qty
    BY <2>1 DEF TypeOK, ItemRow
  <2>3. TypeOK'
    BY <2>1 DEF TypeOK, ItemRow, Quantities
  <2>4. References'
    BY <2>1, <2>2 DEF References
  <2>5. Counted'
    BY <2>1, <2>2 DEF Counted
  <2>6. OwnerNeverClaims'
    BY <2>1, <2>2 DEF OwnerNeverClaims, OwnerOf, References
  <2> QED
    BY <2>1, <2>3, <2>4, <2>5, <2>6 DEF FiniteClaims
<1>3. ASSUME DeleteItem(u, i), items[i].claimed_qty = 0
      PROVE  IInv'
  <2>1. /\ i \in DOMAIN items
        /\ items' = Drop(items, {i})
        /\ UNCHANGED <<lists, shares, claims>>
    BY <1>3 DEF DeleteItem
  <2>2. /\ DOMAIN items' = DOMAIN items \ {i}
        /\ items' \in [DOMAIN items' -> ItemRow]
        /\ \A m \in DOMAIN items' : items'[m] = items[m]
    BY <2>1 DEF TypeOK, Drop, Restrict
  <2>3. ClaimsOn(i) = {}
    <3>1. \A m \in DOMAIN claims : claims[m].qty \in Nat \ {0}
      BY DEF TypeOK, ClaimRow, Quantities
    <3>2. Cardinality(Units(claims, i)) = 0
      BY <1>3, <2>1 DEF Counted
    <3>3. Cardinality(Units(claims, i)) = 0
            <=> {m \in DOMAIN claims : claims[m].item = i} = {}
      BY <3>1, UnitsNone DEF FiniteClaims
    <3> QED
      BY <3>2, <3>3 DEF ClaimsOn
  <2>4. TypeOK'
    BY <2>1, <2>2 DEF TypeOK
  <2>5. References'
    BY <2>1, <2>2, <2>3 DEF References, ClaimsOn
  <2>6. Counted'
    BY <2>1, <2>2 DEF Counted
  <2>7. OwnerNeverClaims'
    BY <2>1, <2>2, <2>5 DEF OwnerNeverClaims, OwnerOf, References
  <2> QED
    BY <2>1, <2>4, <2>5, <2>6, <2>7 DEF FiniteClaims
<1>4. ASSUME DeleteItem(u, i), items[i].claimed_qty # 0
      PROVE  IInv'
  <2>1. /\ i \in DOMAIN items
        /\ items' = [items EXCEPT ![i].deleted = TRUE]
        /\ UNCHANGED <<lists, shares, claims>>
    BY <1>4 DEF DeleteItem
  <2>2. /\ DOMAIN items' = DOMAIN items
        /\ \A m \in DOMAIN items : /\ items'[m].list = items[m].list
                                   /\ items'[m].claimed_qty = items[m].claimed_qty
                                   /\ items'[m].quantity = items[m].quantity
    BY <2>1 DEF TypeOK, ItemRow
  <2>3. TypeOK'
    <3>1. items' \in [DOMAIN items' -> ItemRow]
      BY <2>1 DEF TypeOK, ItemRow
    <3>2. \A m \in DOMAIN items' : items'[m].claimed_qty <= items'[m].quantity
      BY <2>2 DEF TypeOK
    <3> QED
      BY <2>1, <2>2, <3>1, <3>2 DEF TypeOK
  <2>4. References'
    BY <2>1, <2>2 DEF References
  <2>5. Counted'
    BY <2>1, <2>2 DEF Counted
  <2>6. OwnerNeverClaims'
    BY <2>1, <2>2 DEF OwnerNeverClaims, OwnerOf, References
  <2> QED
    BY <2>1, <2>3, <2>4, <2>5, <2>6 DEF FiniteClaims
<1>5. ASSUME NEW dest \in ListIds, MoveItemToList(u, i, dest)
      PROVE  IInv'
  <2>1. /\ i \in DOMAIN items /\ lists[items[i].list].owner = u
        /\ dest \in DOMAIN lists /\ lists[dest].owner = u
        /\ items' = [items EXCEPT ![i].list = dest]
        /\ UNCHANGED <<lists, shares, claims>>
    BY <1>5 DEF MoveItemToList, Live, Owns, OwnerOf
  <2>2. /\ DOMAIN items' = DOMAIN items
        /\ items'[i].list = dest
        /\ \A m \in DOMAIN items \ {i} : items'[m].list = items[m].list
        /\ \A m \in DOMAIN items : /\ items'[m].claimed_qty = items[m].claimed_qty
                                   /\ items'[m].quantity = items[m].quantity
    BY <2>1 DEF TypeOK, ItemRow
  <2>3. TypeOK'
    <3>1. items' \in [DOMAIN items' -> ItemRow]
      BY <2>1 DEF TypeOK, ItemRow
    <3>2. \A m \in DOMAIN items' : items'[m].claimed_qty <= items'[m].quantity
      BY <2>2 DEF TypeOK
    <3> QED
      BY <2>1, <2>2, <3>1, <3>2 DEF TypeOK
  <2>4. References'
    BY <2>1, <2>2 DEF References
  <2>5. Counted'
    BY <2>1, <2>2 DEF Counted
  <2>6. OwnerNeverClaims'
    BY <2>1, <2>2 DEF OwnerNeverClaims, OwnerOf, References
  <2> QED
    BY <2>1, <2>3, <2>4, <2>5, <2>6 DEF FiniteClaims
<1> QED
  BY <1>1, <1>2, <1>3, <1>4, <1>5 DEF ItemStep

\* The claimers' writes move claimed_qty and the claims rows together.
LEMMA ClaimWritesIInv ==
    ASSUME IInv, NEW u \in Users, NEW c \in ClaimIds, ClaimStep(u, c)
    PROVE  IInv'
<1> USE DEF IInv
<1>0. \A m \in DOMAIN claims : claims[m].qty \in Nat
  BY DEF TypeOK, ClaimRow, Quantities
<1>1. ASSUME NEW i \in ItemIds, NEW n \in Quantities, CreateClaim(u, i, n, c)
      PROVE  IInv'
  <2> DEFINE row == [item |-> i, claimer |-> u, qty |-> n, state |-> "claimed"]
  <2>1. /\ i \in DOMAIN items /\ lists[items[i].list].owner # u
        /\ items[i].claimed_qty + n <= items[i].quantity
        /\ c \notin DOMAIN claims
        /\ items' = [items EXCEPT ![i].claimed_qty = @ + n]
        /\ claims' = Put(claims, c, row)
        /\ UNCHANGED <<lists, shares>>
    BY <1>1 DEF CreateClaim, Live, CanClaim
  <2>2. row \in ClaimRow /\ n \in Nat
    BY DEF ClaimRow, ClaimStates, Quantities
  <2>3. /\ DOMAIN items' = DOMAIN items
        /\ items'[i].claimed_qty = items[i].claimed_qty + n
        /\ \A m \in DOMAIN items \ {i} : items'[m] = items[m]
        /\ \A m \in DOMAIN items : /\ items'[m].list = items[m].list
                                   /\ items'[m].quantity = items[m].quantity
    BY <2>1 DEF TypeOK, ItemRow
  <2>4. /\ DOMAIN claims' = DOMAIN claims \cup {c}
        /\ claims' \in [DOMAIN claims' -> ClaimRow]
        /\ claims'[c] = row
        /\ \A m \in DOMAIN claims : claims'[m] = claims[m]
    BY <2>1, <2>2 DEF TypeOK, Put
  <2>5. TypeOK'
    <3>1. items' \in [DOMAIN items' -> ItemRow]
      BY <2>1, <2>2 DEF TypeOK, ItemRow
    <3>2. \A m \in DOMAIN items' : items'[m].claimed_qty <= items'[m].quantity
      BY <2>1, <2>3 DEF TypeOK
    <3> QED
      BY <2>1, <2>3, <2>4, <3>1, <3>2 DEF TypeOK
  <2>6. References'
    BY <2>1, <2>3, <2>4 DEF References
  <2>7. Counted'
    <3> SUFFICES ASSUME NEW j \in DOMAIN items'
                 PROVE  items'[j].claimed_qty = Cardinality(Units(claims', j))
      BY DEF Counted
    <3> HIDE DEF row
    <3>0. row.item = i /\ row.qty = n
      BY DEF row
    <3>1. Cardinality(Units(Put(claims, c, row), j)) =
            IF row.item = j THEN Cardinality(Units(claims, j)) + row.qty
                            ELSE Cardinality(Units(claims, j))
      BY <1>0, <2>1, <2>2, <3>0, UnitsPut DEF FiniteClaims
    <3>2. items[j].claimed_qty = Cardinality(Units(claims, j))
      BY <2>3 DEF Counted
    <3> QED
      BY <2>1, <2>3, <3>0, <3>1, <3>2
  <2>8. OwnerNeverClaims'
    BY <2>1, <2>3, <2>4 DEF OwnerNeverClaims, OwnerOf, References
  <2>9. FiniteClaims'
    BY <2>4, FS_AddElement DEF FiniteClaims
  <2> QED
    BY <2>5, <2>6, <2>7, <2>8, <2>9
<1>2. ASSUME ReleaseClaim(u, c)
      PROVE  IInv'
  <2> DEFINE i == claims[c].item
  <2>1. /\ c \in DOMAIN claims
        /\ claims' = Drop(claims, {c})
        /\ items' = [items EXCEPT ![i].claimed_qty = @ - claims[c].qty]
        /\ UNCHANGED <<lists, shares>>
    BY <1>2 DEF ReleaseClaim
  <2>2. i \in DOMAIN items
    BY <2>1 DEF References
  <2>3. /\ DOMAIN claims' = DOMAIN claims \ {c}
        /\ claims' \in [DOMAIN claims' -> ClaimRow]
        /\ \A m \in DOMAIN claims' : claims'[m] = claims[m]
    BY <2>1 DEF TypeOK, Drop, Restrict
  <2>4. IsFiniteSet(DOMAIN claims')
    BY <2>3, FS_Subset DEF FiniteClaims
  <2>5. \A j \in DOMAIN items :
          items[j].claimed_qty = IF i = j
                                 THEN Cardinality(Units(claims', j)) + claims[c].qty
                                 ELSE Cardinality(Units(claims', j))
    <3> SUFFICES ASSUME NEW j \in DOMAIN items
                 PROVE  items[j].claimed_qty =
                          IF i = j THEN Cardinality(Units(claims', j)) + claims[c].qty
                                   ELSE Cardinality(Units(claims', j))
      OBVIOUS
    <3>1. Cardinality(Units(claims, j)) =
            IF i = j THEN Cardinality(Units(Drop(claims, {c}), j)) + claims[c].qty
                     ELSE Cardinality(Units(Drop(claims, {c}), j))
      BY <1>0, <2>1, UnitsDrop DEF FiniteClaims
    <3> QED
      BY <2>1, <3>1 DEF Counted
  <2>6. Cardinality(Units(claims', i)) \in Nat
    BY <1>0, <2>3, <2>4, UnitsFinite
  <2>7. claims[c].qty \in Nat
    BY <1>0, <2>1
  <2>8. items[i].claimed_qty - claims[c].qty = Cardinality(Units(claims', i))
    BY <2>2, <2>5, <2>6, <2>7
  <2> HIDE DEF i
  <2>9. /\ DOMAIN items' = DOMAIN items
        /\ items'[i].claimed_qty = Cardinality(Units(claims', i))
        /\ \A m \in DOMAIN items \ {i} : items'[m] = items[m]
        /\ \A m \in DOMAIN items : /\ items'[m].list = items[m].list
                                   /\ items'[m].quantity = items[m].quantity
    BY <2>1, <2>2, <2>8 DEF TypeOK, ItemRow
  <2>10. items[i].claimed_qty \in Nat /\ items[i].claimed_qty <= items[i].quantity
         /\ items[i].quantity \in Nat
    BY <2>2 DEF TypeOK, ItemRow, Quantities
  <2>11. TypeOK'
    <3>1. items' \in [DOMAIN items' -> ItemRow]
      BY <2>1, <2>2, <2>6, <2>8 DEF TypeOK, ItemRow
    <3>2. items'[i].claimed_qty <= items'[i].quantity
      BY <2>2, <2>6, <2>7, <2>8, <2>9, <2>10
    <3>3. \A m \in DOMAIN items' : items'[m].claimed_qty <= items'[m].quantity
      BY <2>9, <3>2 DEF TypeOK
    <3> QED
      BY <2>1, <2>3, <2>9, <3>1, <3>3 DEF TypeOK
  <2>12. References'
    BY <2>1, <2>3, <2>9 DEF References
  <2>13. Counted'
    <3> SUFFICES ASSUME NEW j \in DOMAIN items
                 PROVE  items'[j].claimed_qty = Cardinality(Units(claims', j))
      BY <2>9 DEF Counted
    <3>1. CASE j = i
      BY <2>9, <3>1
    <3>2. CASE j # i
      BY <2>5, <2>9, <3>2
    <3> QED
      BY <3>1, <3>2
  <2>14. OwnerNeverClaims'
    <3> SUFFICES ASSUME NEW m \in DOMAIN claims'
                 PROVE  OwnerOf(claims[m].item)' # claims[m].claimer
      BY <2>3 DEF OwnerNeverClaims
    <3>1. m \in DOMAIN claims /\ claims[m].item \in DOMAIN items
      BY <2>3 DEF References
    <3>2. OwnerOf(claims[m].item) # claims[m].claimer
      BY <3>1 DEF OwnerNeverClaims
    <3>3. lists' = lists /\ items'[claims[m].item].list = items[claims[m].item].list
      BY <2>1, <2>9, <3>1
    <3>4. claims'[m].item = claims[m].item
      BY <2>3
    <3> QED
      BY <3>2, <3>3, <3>4 DEF OwnerOf
  <2> QED
    BY <2>4, <2>11, <2>12, <2>13, <2>14 DEF FiniteClaims
<1>3. ASSUME NEW s \in ClaimStates, SetClaimState(u, c, s)
      PROVE  IInv'
  <2>1. /\ c \in DOMAIN claims
        /\ claims' = [claims EXCEPT ![c].state = s]
        /\ UNCHANGED <<lists, shares, items>>
    BY <1>3 DEF SetClaimState
  <2>2. /\ DOMAIN claims' = DOMAIN claims
        /\ \A m \in DOMAIN claims : /\ claims'[m].item = claims[m].item
                                    /\ claims'[m].claimer = claims[m].claimer
                                    /\ claims'[m].qty = claims[m].qty
    BY <2>1 DEF TypeOK, ClaimRow
  <2>3. TypeOK'
    BY <2>1 DEF TypeOK, ClaimRow
  <2>4. References'
    BY <2>1, <2>2 DEF References
  <2>5. Counted'
    <3>1. \A j : Units(claims', j) = Units(claims, j)
      BY <2>2, UnitsSame
    <3> QED
      BY <2>1, <3>1 DEF Counted
  <2>6. OwnerNeverClaims'
    BY <2>1, <2>2 DEF OwnerNeverClaims, OwnerOf
  <2> QED
    BY <2>2, <2>3, <2>4, <2>5, <2>6 DEF FiniteClaims
<1> QED
  BY <1>1, <1>2, <1>3 DEF ClaimStep

LEMMA NextIInv == IInv /\ [Next]_vars => IInv'
<1> SUFFICES ASSUME IInv, [Next]_vars PROVE IInv'
  OBVIOUS
<1>1. ASSUME NEW u \in Users, NEW l \in ListIds, ListStep(u, l)
      PROVE  IInv'
  BY <1>1, ListWritesIInv, DeleteListIInv DEF ListStep
<1>2. ASSUME NEW u \in Users, NEW i \in ItemIds, ItemStep(u, i)
      PROVE  IInv'
  BY <1>2, ItemWritesIInv
<1>3. ASSUME NEW u \in Users, NEW c \in ClaimIds, ClaimStep(u, c)
      PROVE  IInv'
  BY <1>3, ClaimWritesIInv
<1>4. CASE UNCHANGED vars
  BY <1>4 DEF vars, IInv, TypeOK, References, Counted, OwnerNeverClaims, OwnerOf,
              FiniteClaims
<1> QED
  BY <1>1, <1>2, <1>3, <1>4 DEF Next

\* The inductive invariant holds in every reachable state.
THEOREM Inductive == Spec => []IInv
<1>1. Init => IInv
  BY InitIInv
<1>2. IInv /\ [Next]_vars => IInv'
  BY NextIInv
<1> QED
  BY <1>1, <1>2, PTL DEF Spec

-----------------------------------------------------------------------------
(* The safety properties of WishStore.                                     *)

\* Every reachable row satisfies the schema: the CHECK constraints on
\* claimed_qty never have to stop a statement.
THEOREM TypeCorrect == Spec => []TypeOK
<1>1. IInv => TypeOK
  BY DEF IInv
<1> QED
  BY <1>1, Inductive, PTL

\* The cascades and guards leave no dangling reference.
THEOREM ReferencesHold == Spec => []References
<1>1. IInv => References
  BY DEF IInv
<1> QED
  BY <1>1, Inductive, PTL

\* Both together: no statement has to be refused for the schema's sake.
THEOREM SchemaKept == Spec => []SchemaHolds
BY TypeCorrect, ReferencesHold, PTL DEF SchemaHolds

\* The claimed_qty column is the sum of the claims in every reachable state.
THEOREM CounterCorrect == Spec => []CounterMatchesClaims
<1>1. IInv => CounterMatchesClaims
  BY CountedIsCounter DEF IInv
<1> QED
  BY <1>1, Inductive, PTL

\* No item is ever claimed for more units than it asks for.
THEOREM NeverOverclaimed == Spec => []NoOverclaim
<1>1. IInv => NoOverclaim
  BY CountedIsCounter DEF IInv, CounterMatchesClaims, TypeOK, NoOverclaim
<1> QED
  BY <1>1, Inductive, PTL

\* No owner ever holds a claim on their own list.
THEOREM OwnerHoldsNoClaim == Spec => []OwnerNeverClaims
<1>1. IInv => OwnerNeverClaims
  BY DEF IInv
<1> QED
  BY <1>1, Inductive, PTL

-----------------------------------------------------------------------------
(* The action properties.  Each step changes the claims in one of four     *)
(* ways, which is all the properties need to know about it.                *)

\* What a step may do to the claims and the rows they hang off.
StepShape ==
    \/ claims' = claims
    \/ \E i \in ItemIds, c \in ClaimIds, u \in Users, n \in Quantities :
          CreateClaim(u, i, n, c)
    \/ \E c \in ClaimIds, u \in Users : ReleaseClaim(u, c)
    \/ \E c \in ClaimIds, u \in Users, s \in ClaimStates : SetClaimState(u, c, s)
    \/ \E u \in Users, l \in ListIds : DeleteList(u, l)

LEMMA NextShape == ASSUME [Next]_vars PROVE StepShape
BY DEF Next, ListStep, ItemStep, ClaimStep, StepShape, vars, CreateList, UpdateList,
       ReplaceShares, CreateItem, UpdateItem, DeleteItem, MoveItemToList

\* Claims are made only by people who can see the item and do not own it.
THEOREM ClaimsVisible == Spec => ClaimsAreVisible
<1>1. IInv /\ [Next]_vars => [ClaimIsVisible]_vars
  <2> SUFFICES ASSUME IInv, [Next]_vars, NEW c \in DOMAIN claims' \ DOMAIN claims
               PROVE  /\ Live(claims'[c].item)
                      /\ CanView(claims'[c].claimer, items[claims'[c].item].list)
                      /\ OwnerOf(claims'[c].item) # claims'[c].claimer
    BY DEF ClaimIsVisible
  <2>1. StepShape
    BY NextShape
  <2>2. PICK i \in ItemIds, d \in ClaimIds, u \in Users, n \in Quantities :
          CreateClaim(u, i, n, d)
    <3>1. ASSUME NEW d \in ClaimIds, NEW u \in Users, ReleaseClaim(u, d)
          PROVE  FALSE
      BY <3>1 DEF ReleaseClaim, Drop, Restrict
    <3>2. ASSUME NEW d \in ClaimIds, NEW u \in Users, NEW s \in ClaimStates,
                 SetClaimState(u, d, s)
          PROVE  FALSE
      BY <3>2 DEF SetClaimState
    <3>3. ASSUME NEW u \in Users, NEW l \in ListIds, DeleteList(u, l)
          PROVE  FALSE
      BY <3>3 DEF DeleteList, Drop, Restrict
    <3> QED
      BY <2>1, <3>1, <3>2, <3>3 DEF StepShape
  <2>3. claims'[c].item = i /\ claims'[c].claimer = u
    BY <2>2 DEF CreateClaim, Put
  <2>4. Live(i) /\ CanClaim(u, items[i].list)
    BY <2>2 DEF CreateClaim
  <2>5. lists[items[i].list].visibility \in Visibilities
    BY <2>4 DEF IInv, References, TypeOK, ListRow, Live
  <2> QED
    BY <2>3, <2>4, <2>5 DEF CanView, CanClaim, OwnerOf, Visibilities
<1> QED
  BY <1>1, Inductive, PTL DEF Spec, ClaimsAreVisible

\* A claim ends only by its own release or with its list.
THEOREM ClaimsEndOnlyByRelease == Spec => ClaimsEndByRelease
<1>1. IInv /\ [Next]_vars => [ClaimEndsByRelease]_vars
  <2> SUFFICES ASSUME IInv, [Next]_vars, NEW c \in DOMAIN claims \ DOMAIN claims'
               PROVE  \/ items[claims[c].item].list \notin DOMAIN lists'
                      \/ /\ claims[c].item \in DOMAIN items'
                         /\ items'[claims[c].item].claimed_qty =
                              items[claims[c].item].claimed_qty - claims[c].qty
    BY DEF ClaimEndsByRelease
  <2>1. claims[c].item \in DOMAIN items
    BY DEF IInv, References
  <2>2. ASSUME NEW d \in ClaimIds, NEW u \in Users, ReleaseClaim(u, d)
        PROVE  /\ claims[c].item \in DOMAIN items'
               /\ items'[claims[c].item].claimed_qty =
                    items[claims[c].item].claimed_qty - claims[c].qty
    <3>1. c = d
      BY <2>2 DEF ReleaseClaim, Drop, Restrict
    <3>2. items[claims[c].item] \in ItemRow
      BY <2>1 DEF IInv, TypeOK
    <3> QED
      BY <2>1, <2>2, <3>1, <3>2 DEF ReleaseClaim, ItemRow
  <2>3. ASSUME NEW u \in Users, NEW l \in ListIds, DeleteList(u, l)
        PROVE  items[claims[c].item].list \notin DOMAIN lists'
    BY <2>3 DEF DeleteList, Drop, Restrict, ItemsOn, ClaimsOn
  <2>4. ASSUME NEW d \in ClaimIds, NEW u \in Users, NEW i \in ItemIds,
               NEW n \in Quantities, CreateClaim(u, i, n, d)
        PROVE  FALSE
    BY <2>4 DEF CreateClaim, Put
  <2>5. ASSUME NEW d \in ClaimIds, NEW u \in Users, NEW s \in ClaimStates,
               SetClaimState(u, d, s)
        PROVE  FALSE
    BY <2>5 DEF SetClaimState
  <2>6. StepShape
    BY NextShape
  <2> QED
    BY <2>2, <2>3, <2>4, <2>5, <2>6 DEF StepShape
<1> QED
  BY <1>1, Inductive, PTL DEF Spec, ClaimsEndByRelease

\* Only an unclaimed item's row, or a row of a deleted list, is ever deleted.
THEOREM ClaimedItemsKept == Spec => ClaimedItemsAreKept
<1>1. IInv /\ [Next]_vars => [ClaimedItemIsKept]_vars
  <2> SUFFICES ASSUME IInv, [Next]_vars, NEW i \in DOMAIN items \ DOMAIN items'
               PROVE  ClaimsOn(i) = {} \/ items[i].list \notin DOMAIN lists'
    BY DEF ClaimedItemIsKept
  <2>1. ASSUME NEW u \in Users, NEW l \in ListIds, ListStep(u, l)
        PROVE  items[i].list \notin DOMAIN lists'
    <3>1. DeleteList(u, l)
      BY <2>1 DEF ListStep, CreateList, UpdateList, ReplaceShares
    <3>2. i \in ItemsOn(l)
      BY <3>1 DEF DeleteList, Drop, Restrict
    <3> QED
      BY <3>1, <3>2 DEF DeleteList, Drop, Restrict, ItemsOn
  <2>2. ASSUME NEW u \in Users, NEW j \in ItemIds, ItemStep(u, j)
        PROVE  ClaimsOn(i) = {}
    <3>1. DeleteItem(u, j)
      BY <2>2 DEF ItemStep, CreateItem, UpdateItem, MoveItemToList, Put
    <3>2. j = i /\ items[i].claimed_qty = 0
      BY <3>1 DEF DeleteItem, Drop, Restrict
    <3>3. Cardinality(Units(claims, i)) = 0
      BY <3>2 DEF IInv, Counted
    <3>4. \A m \in DOMAIN claims : claims[m].qty \in Nat \ {0}
      BY DEF IInv, TypeOK, ClaimRow, Quantities
    <3>5. {m \in DOMAIN claims : claims[m].item = i} = {}
      BY <3>3, <3>4, UnitsNone DEF IInv, FiniteClaims
    <3> QED
      BY <3>5 DEF ClaimsOn
  <2>3. ASSUME NEW u \in Users, NEW c \in ClaimIds, ClaimStep(u, c)
        PROVE  FALSE
    BY <2>3 DEF ClaimStep, CreateClaim, ReleaseClaim, SetClaimState
  <2>4. CASE UNCHANGED vars
    BY <2>4 DEF vars
  <2> QED
    BY <2>1, <2>2, <2>3, <2>4 DEF Next
<1> QED
  BY <1>1, Inductive, PTL DEF Spec, ClaimedItemsAreKept

LEMMA RemovedStaysRemoved == IInv /\ [Next]_vars => [RemovedItemIsFrozen]_vars
<1> SUFFICES ASSUME IInv, [Next]_vars,
                    NEW i \in DOMAIN items \cap DOMAIN items', items[i].deleted
             PROVE  /\ items'[i].deleted
                    /\ items'[i].list = items[i].list
                    /\ items'[i].quantity = items[i].quantity
                    /\ ClaimsOn(i)' \subseteq ClaimsOn(i)
  BY DEF RemovedItemIsFrozen
<1>0. items \in [DOMAIN items -> ItemRow] /\ claims \in [DOMAIN claims -> ClaimRow]
  BY DEF IInv, TypeOK
<1>1. ASSUME NEW u \in Users, NEW l \in ListIds, ListStep(u, l)
      PROVE  items'[i] = items[i] /\ ClaimsOn(i)' \subseteq ClaimsOn(i)
  BY <1>1 DEF ListStep, CreateList, UpdateList, ReplaceShares, DeleteList,
              Drop, Restrict, ClaimsOn
<1>2. ASSUME NEW u \in Users, NEW j \in ItemIds, ItemStep(u, j)
      PROVE  /\ items'[i].deleted
             /\ items'[i].list = items[i].list
             /\ items'[i].quantity = items[i].quantity
             /\ claims' = claims
  BY <1>0, <1>2 DEF ItemStep, CreateItem, UpdateItem, DeleteItem, MoveItemToList,
              Put, Drop, Restrict, Live, ItemRow
<1>3. ASSUME NEW u \in Users, NEW c \in ClaimIds, ClaimStep(u, c)
      PROVE  /\ items'[i].deleted
             /\ items'[i].list = items[i].list
             /\ items'[i].quantity = items[i].quantity
             /\ ClaimsOn(i)' \subseteq ClaimsOn(i)
  <2>1. ASSUME NEW j \in ItemIds, NEW n \in Quantities, CreateClaim(u, j, n, c)
        PROVE  items'[i] = items[i] /\ ClaimsOn(i)' \subseteq ClaimsOn(i)
    BY <2>1 DEF CreateClaim, Live, Put, ClaimsOn
  <2>2. CASE ReleaseClaim(u, c)
    BY <1>0, <2>2 DEF ReleaseClaim, Drop, Restrict, ClaimsOn, ItemRow
  <2>3. ASSUME NEW s \in ClaimStates, SetClaimState(u, c, s)
        PROVE  items'[i] = items[i] /\ ClaimsOn(i)' \subseteq ClaimsOn(i)
    BY <1>0, <2>3 DEF SetClaimState, ClaimsOn, ClaimRow
  <2> QED
    BY <1>3, <2>1, <2>2, <2>3 DEF ClaimStep
<1>4. CASE UNCHANGED vars
  BY <1>4 DEF vars, ClaimsOn
<1> QED
  BY <1>1, <1>2, <1>3, <1>4 DEF Next, ClaimsOn

\* A removed item only ever loses claims.
THEOREM RemovalFinal == Spec => RemovalIsFinal
BY RemovedStaysRemoved, Inductive, PTL DEF Spec, RemovalIsFinal

-----------------------------------------------------------------------------
(* Refinement: every step of the tables is a step of the ledger or leaves  *)
(* it unchanged.  The guards of the tables test claimed_qty and those of   *)
(* the ledger count the units, so each step needs Counted.                 *)

\* The ledger's view of the two tables.
OfferedView == [i \in DOMAIN items |->
                  [wanted |-> items[i].quantity, open |-> ~items[i].deleted]]
TakenView == [c \in DOMAIN claims |->
                [item |-> claims[c].item, by |-> claims[c].claimer,
                 qty |-> claims[c].qty]]

LEMMA HeldIsCounted ==
    ASSUME IInv, NEW i \in DOMAIN items
    PROVE  Ledger!Held(i) = items[i].claimed_qty
<1>1. Ledger!Held(i) = Cardinality(Units(TakenView, i))
  <2>1. Ledger!TakenFrom(i) = {c \in DOMAIN TakenView : TakenView[c].item = i}
    BY DEF Ledger!TakenFrom, TakenView
  <2>2. Ledger!UnitsTaken(i) = Units(TakenView, i)
    BY <2>1, Zenon DEF Ledger!UnitsTaken, Units, TakenView
  <2> QED
    BY <2>2, Zenon DEF Ledger!Held, Ledger!Cardinality, Cardinality
<1>2. Units(TakenView, i) = Units(claims, i)
  <2>1. /\ DOMAIN TakenView = DOMAIN claims
        /\ \A m \in DOMAIN claims : /\ TakenView[m].item = claims[m].item
                                    /\ TakenView[m].qty = claims[m].qty
    BY DEF TakenView
  <2> QED
    BY <2>1, UnitsSame
<1> QED
  BY <1>1, <1>2 DEF IInv, Counted

LEMMA TakenFromIsClaimsOn ==
    ASSUME NEW i
    PROVE  Ledger!TakenFrom(i) = ClaimsOn(i)
BY DEF Ledger!TakenFrom, ClaimsOn

LEMMA InitLedger == Init => Ledger!Init
BY DEF Init, Ledger!Init, EmptyTable, Ledger!EmptyTable

\* Adding an item offers it.
LEMMA CreateItemOffers ==
    ASSUME NEW u, NEW l, NEW i, NEW q, CreateItem(u, l, i, q)
    PROVE  Ledger!Offer(i, q)
<1>1. OfferedView' = Ledger!Put(OfferedView, i, [wanted |-> q, open |-> TRUE])
  BY DEF CreateItem, Put, Ledger!Put, OfferedView
<1>2. claims' = claims /\ i \notin DOMAIN OfferedView
  BY DEF CreateItem, OfferedView
<1> QED
  BY <1>1, <1>2 DEF Ledger!Offer, OfferedView, TakenView

\* The claimed_qty guard of UpdateItem is the ledger's count of the units.
LEMMA UpdateItemAmends ==
    ASSUME IInv, NEW u, NEW i, NEW q \in Quantities, UpdateItem(u, i, q)
    PROVE  Ledger!Amend(i, q)
<1>1. i \in DOMAIN items /\ ~items[i].deleted /\ items[i] \in ItemRow
  BY DEF UpdateItem, Live, IInv, TypeOK
<1>2. Ledger!Held(i) <= q
  BY <1>1, HeldIsCounted DEF UpdateItem
<1>3. OfferedView' = [OfferedView EXCEPT ![i].wanted = q]
  BY <1>1 DEF UpdateItem, OfferedView, ItemRow
<1>4. claims' = claims
  BY DEF UpdateItem
<1> QED
  BY <1>1, <1>2, <1>3, <1>4 DEF Ledger!Amend, OfferedView, TakenView

\* Removing an item forgets it when nothing is claimed and closes it otherwise.
LEMMA DeleteItemCloses ==
    ASSUME IInv, NEW u, NEW i, DeleteItem(u, i)
    PROVE  Ledger!Close(i) \/ Ledger!Forget(i)
<1>1. i \in DOMAIN items /\ items[i] \in ItemRow /\ claims' = claims
  BY DEF DeleteItem, IInv, TypeOK
<1>2. Ledger!TakenFrom(i) = ClaimsOn(i)
  BY TakenFromIsClaimsOn
<1>3. CASE items[i].claimed_qty = 0
  <2>1. ClaimsOn(i) = {}
    <3>1. Cardinality(Units(claims, i)) = 0
      BY <1>1, <1>3 DEF IInv, Counted
    <3>2. \A m \in DOMAIN claims : claims[m].qty \in Nat \ {0}
      BY DEF IInv, TypeOK, ClaimRow, Quantities
    <3> QED
      BY <3>1, <3>2, UnitsNone DEF IInv, FiniteClaims, ClaimsOn
  <2>2. OfferedView' = Ledger!Drop(OfferedView, {i})
    BY <1>1, <1>3 DEF DeleteItem, Drop, Restrict, Ledger!Drop, Ledger!Restrict, OfferedView
  <2> QED
    BY <1>1, <1>2, <2>1, <2>2 DEF Ledger!Forget, OfferedView, TakenView
<1>4. CASE items[i].claimed_qty # 0
  <2>1. ClaimsOn(i) # {}
    <3>1. SUFFICES ASSUME ClaimsOn(i) = {} PROVE items[i].claimed_qty = 0
      BY <1>4
    <3>2. Units(claims, i) = {}
      BY <3>1 DEF Units, ClaimsOn
    <3> QED
      BY <1>1, <3>2, FS_EmptySet DEF IInv, Counted
  <2>2. OfferedView' = [OfferedView EXCEPT ![i].open = FALSE]
    BY <1>1, <1>4 DEF DeleteItem, OfferedView, ItemRow
  <2> QED
    BY <1>1, <1>2, <2>1, <2>2 DEF Ledger!Close, OfferedView, TakenView
<1> QED
  BY <1>3, <1>4

\* The claimed_qty guard of CreateClaim is the ledger's count of the units.
LEMMA CreateClaimTakes ==
    ASSUME IInv, NEW u, NEW i, NEW n, NEW c, CreateClaim(u, i, n, c)
    PROVE  Ledger!Take(c, u, i, n)
<1>1. i \in DOMAIN items /\ ~items[i].deleted /\ items[i] \in ItemRow
  BY DEF CreateClaim, Live, IInv, TypeOK
<1>2. Ledger!Held(i) + n <= items[i].quantity
  BY <1>1, HeldIsCounted DEF CreateClaim
<1>3. TakenView' = Ledger!Put(TakenView, c, [item |-> i, by |-> u, qty |-> n])
  BY DEF CreateClaim, Put, Ledger!Put, TakenView
<1>4. OfferedView' = OfferedView
  BY <1>1 DEF CreateClaim, OfferedView, ItemRow
<1>5. c \notin DOMAIN TakenView
  BY DEF CreateClaim, TakenView
<1> QED
  BY <1>1, <1>2, <1>3, <1>4, <1>5 DEF Ledger!Take, OfferedView, TakenView

\* Releasing a claim gives its units back.
LEMMA ReleaseClaimGivesBack ==
    ASSUME IInv, NEW u, NEW c, ReleaseClaim(u, c)
    PROVE  Ledger!GiveBack(c)
<1>1. c \in DOMAIN claims /\ claims' = Drop(claims, {c})
  BY DEF ReleaseClaim
<1>2. TakenView' = Ledger!Drop(TakenView, {c})
  BY <1>1 DEF Drop, Restrict, Ledger!Drop, Ledger!Restrict, TakenView
<1>3. OfferedView' = OfferedView
  BY DEF ReleaseClaim, OfferedView, IInv, TypeOK, ItemRow
<1> QED
  BY <1>1, <1>2, <1>3 DEF Ledger!GiveBack, OfferedView, TakenView

\* Deleting a list erases its items with their claims.
LEMMA DeleteListErases ==
    ASSUME NEW u, NEW l, NEW S, S = ItemsOn(l), DeleteList(u, l)
    PROVE  Ledger!Erase(S)
<1>1. OfferedView' = Ledger!Drop(OfferedView, ItemsOn(l))
  BY DEF DeleteList, Drop, Restrict, Ledger!Drop, Ledger!Restrict, OfferedView
<1>2. UNION {ClaimsOn(i) : i \in ItemsOn(l)}
        = {c \in DOMAIN TakenView : TakenView[c].item \in ItemsOn(l)}
  BY DEF ClaimsOn, TakenView
<1>3. TakenView' = Ledger!Drop(TakenView,
          {c \in DOMAIN TakenView : TakenView[c].item \in ItemsOn(l)})
  <2> DEFINE gone == UNION {ClaimsOn(i) : i \in ItemsOn(l)}
  <2>1. claims' = Drop(claims, gone)
    BY DEF DeleteList
  <2> HIDE DEF gone
  <2>2. TakenView' = Ledger!Drop(TakenView, gone)
    BY <2>1 DEF Drop, Restrict, Ledger!Drop, Ledger!Restrict, TakenView
  <2> QED
    BY <1>2, <2>2 DEF gone
<1> QED
  BY <1>1, <1>3 DEF Ledger!Erase, OfferedView, TakenView

\* Every step of the tables is a step of the ledger or changes nothing in it.
LEMMA NextLedger == IInv /\ [Next]_vars => [Ledger!Next]_(Ledger!ledgerVars)
<1> SUFFICES ASSUME IInv, [Next]_vars
             PROVE  Ledger!Next \/ UNCHANGED Ledger!ledgerVars
  OBVIOUS
<1> USE DEF Ledger!ledgerVars
<1>1. ASSUME NEW u \in Users, NEW l \in ListIds, ListStep(u, l)
      PROVE  Ledger!Next \/ UNCHANGED Ledger!ledgerVars
  <2>1. CASE DeleteList(u, l)
    <3>1. PICK S \in SUBSET ItemIds : S = ItemsOn(l)
      BY DEF IInv, TypeOK, ItemsOn
    <3>2. Ledger!Erase(S)
      BY <2>1, <3>1, DeleteListErases
    <3> QED
      BY <3>2 DEF Ledger!Next
  <2>2. CASE ~DeleteList(u, l)
    BY <1>1, <2>2 DEF ListStep, CreateList, UpdateList, ReplaceShares
  <2> QED
    BY <2>1, <2>2
<1>2. ASSUME NEW u \in Users, NEW i \in ItemIds, ItemStep(u, i)
      PROVE  Ledger!Next \/ UNCHANGED Ledger!ledgerVars
  <2>1. ASSUME NEW l \in ListIds, NEW q \in Quantities, CreateItem(u, l, i, q)
        PROVE  Ledger!Next
    BY <2>1, CreateItemOffers DEF Ledger!Next, Quantities
  <2>2. ASSUME NEW q \in Quantities, UpdateItem(u, i, q)
        PROVE  Ledger!Next
    BY <2>2, UpdateItemAmends DEF Ledger!Next, Quantities
  <2>3. CASE DeleteItem(u, i)
    BY <2>3, DeleteItemCloses DEF Ledger!Next
  <2>4. ASSUME NEW dest \in ListIds, MoveItemToList(u, i, dest)
        PROVE  UNCHANGED Ledger!ledgerVars
    <3>1. OfferedView' = OfferedView
      BY <2>4 DEF MoveItemToList, OfferedView, Live, IInv, TypeOK, ItemRow
    <3> QED
      BY <2>4, <3>1 DEF MoveItemToList, OfferedView
  <2> QED
    BY <1>2, <2>1, <2>2, <2>3, <2>4 DEF ItemStep
<1>3. ASSUME NEW u \in Users, NEW c \in ClaimIds, ClaimStep(u, c)
      PROVE  Ledger!Next \/ UNCHANGED Ledger!ledgerVars
  <2>1. ASSUME NEW i \in ItemIds, NEW n \in Quantities, CreateClaim(u, i, n, c)
        PROVE  Ledger!Next
    BY <2>1, CreateClaimTakes DEF Ledger!Next, Quantities
  <2>2. CASE ReleaseClaim(u, c)
    BY <2>2, ReleaseClaimGivesBack DEF Ledger!Next
  <2>3. ASSUME NEW s \in ClaimStates, SetClaimState(u, c, s)
        PROVE  UNCHANGED Ledger!ledgerVars
    <3>1. TakenView' = TakenView
      BY <2>3 DEF SetClaimState, TakenView, IInv, TypeOK, ClaimRow
    <3> QED
      BY <2>3, <3>1 DEF SetClaimState, TakenView
  <2> QED
    BY <1>3, <2>1, <2>2, <2>3 DEF ClaimStep
<1>4. CASE UNCHANGED vars
  BY <1>4 DEF vars
<1> QED
  BY <1>1, <1>2, <1>3, <1>4 DEF Next

\* The tables, with their counter column, implement the ledger that counts the
\* units themselves.
THEOREM LedgerImplemented == Spec => ImplementsLedger
<1>1. Init => Ledger!Init
  BY InitLedger
<1>2. IInv /\ [Next]_vars => [Ledger!Next]_(Ledger!ledgerVars)
  BY NextLedger
<1> QED
  BY <1>1, <1>2, Inductive, PTL DEF Spec, ImplementsLedger, Ledger!Spec

-----------------------------------------------------------------------------
(* The pages.  Every step of theirs is a step of the store or leaves the   *)
(* tables alone, so that all that was proved holds while pages are built.  *)

LEMMA PagesStepIsStoreStep == [PagesNext]_pageVars => [Next]_vars
BY DEF PagesNext, pageVars, vars, Write, StartPage, ReadItems, ReadClaims, ReadRemoved, SendPage

\* A run of the pages is a run of the store.
THEOREM PagesRunTheStore == PagesSpec => Spec
BY PagesStepIsStoreStep, PTL DEF PagesSpec, PagesInit, Spec

\* What a write between two queries cannot take from a claim that stays: the
\* item and the claimer it has, the item's row, and that the item is removed.
LEMMA ClaimStays ==
    ASSUME IInv, [Next]_vars, NEW c, c \in DOMAIN claims, c \in DOMAIN claims'
    PROVE  /\ claims'[c].item = claims[c].item /\ claims'[c].claimer = claims[c].claimer
           /\ claims[c].item \in DOMAIN items /\ claims[c].item \in DOMAIN items'
           /\ items[claims[c].item].deleted => items'[claims[c].item].deleted
<1>1. claims'[c].item = claims[c].item /\ claims'[c].claimer = claims[c].claimer
  <2>1. StepShape
    BY NextShape
  <2>2. claims \in [DOMAIN claims -> ClaimRow]
    BY DEF IInv, TypeOK
  <2>3. ASSUME NEW i \in ItemIds, NEW d \in ClaimIds, NEW u \in Users, NEW n \in Quantities,
               CreateClaim(u, i, n, d)
        PROVE  claims'[c] = claims[c]
    BY <2>3 DEF CreateClaim, Put
  <2>4. ASSUME NEW d \in ClaimIds, NEW u \in Users, ReleaseClaim(u, d)
        PROVE  claims'[c] = claims[c]
    BY <2>4 DEF ReleaseClaim, Drop, Restrict
  <2>5. ASSUME NEW d \in ClaimIds, NEW u \in Users, NEW s \in ClaimStates, SetClaimState(u, d, s)
        PROVE  claims'[c].item = claims[c].item /\ claims'[c].claimer = claims[c].claimer
    BY <2>2, <2>5 DEF SetClaimState, ClaimRow
  <2>6. ASSUME NEW u \in Users, NEW l \in ListIds, DeleteList(u, l)
        PROVE  claims'[c] = claims[c]
    BY <2>6 DEF DeleteList, Drop, Restrict
  <2> QED
    BY <2>1, <2>3, <2>4, <2>5, <2>6 DEF StepShape
<1>2. claims[c].item \in DOMAIN items
  BY DEF IInv, References
<1>3. claims'[c].item \in DOMAIN items'
  <2>1. IInv'
    BY NextIInv
  <2> QED
    BY <2>1 DEF IInv, References
<1>4. items[claims[c].item].deleted => items'[claims[c].item].deleted
  <2>1. [RemovedItemIsFrozen]_vars
    BY RemovedStaysRemoved
  <2> QED
    BY <1>1, <1>2, <1>3, <2>1 DEF RemovedItemIsFrozen, vars
<1> QED
  BY <1>1, <1>2, <1>3, <1>4

\* The page under way has everything its reader holds that its queries could have
\* seen so far.  An item the first query did not find live is removed, and stays so
\* until the last query looks for removed ones.
HeldOK ==
    /\ building.held \subseteq HeldOn(building.list, building.viewer)
    /\ building.step \in {"claims", "removed", "shown"} =>
          \A c \in building.held :
              claims[c].item \in DOMAIN building.live \/ items[claims[c].item].deleted
    /\ building.step \in {"removed", "shown"} =>
          \A c \in building.held :
              c \in DOMAIN building.rows /\ building.rows[c].item = claims[c].item
    /\ building.step = "shown" =>
          \A c \in building.held :
              claims[c].item \in DOMAIN building.live \cup DOMAIN building.gone

BuildingOK ==
    /\ DOMAIN building = DOMAIN NoPage
    /\ building.step \in {"none", "items", "claims", "removed", "shown"}
    /\ building.step # "none" => HeldOK

LEMMA NoPageIsOK == building = NoPage => BuildingOK
BY DEF NoPage, BuildingOK

LEMMA BuildingNext == IInv /\ BuildingOK /\ [PagesNext]_pageVars => BuildingOK'
<1> SUFFICES ASSUME IInv, BuildingOK, [PagesNext]_pageVars PROVE BuildingOK'
  OBVIOUS
<1>0. DOMAIN building = {"step", "writes", "viewer", "list", "live", "rows", "gone", "held"}
  BY DEF BuildingOK, NoPage
<1>1. CASE Write
  <2>1. [Next]_vars
    BY <1>1 DEF Write
  <2>2. CASE building.step = "none"
    BY <1>1, <2>2 DEF Write, BuildingOK
  <2>3. CASE building.step # "none"
    <3>1. building' = [building EXCEPT !.writes = @ + 1, !.held =
              {c \in @ \cap DOMAIN claims' : items'[claims'[c].item].list = building.list}]
      BY <1>1, <2>3 DEF Write
    <3>2. /\ DOMAIN building' = DOMAIN building
          /\ building'.step = building.step /\ building'.list = building.list
          /\ building'.viewer = building.viewer /\ building'.live = building.live
          /\ building'.rows = building.rows /\ building'.gone = building.gone
          /\ building'.held = {c \in building.held \cap DOMAIN claims' :
                                  items'[claims'[c].item].list = building.list}
      BY <1>0, <3>1
    <3>3. ASSUME NEW c \in building'.held
          PROVE  /\ c \in building.held /\ c \in DOMAIN claims'
                 /\ claims'[c].item = claims[c].item
                 /\ claims'[c].claimer = building.viewer
                 /\ items'[claims'[c].item].list = building.list
                 /\ items[claims[c].item].deleted => items'[claims[c].item].deleted
      <4>1. /\ c \in building.held /\ c \in DOMAIN claims'
            /\ items'[claims'[c].item].list = building.list
        BY <3>2
      <4>2. c \in DOMAIN claims /\ claims[c].claimer = building.viewer
        BY <2>3, <4>1 DEF BuildingOK, HeldOK, HeldOn
      <4>3. /\ claims'[c].item = claims[c].item /\ claims'[c].claimer = claims[c].claimer
            /\ items[claims[c].item].deleted => items'[claims[c].item].deleted
        BY <2>1, <4>1, <4>2, ClaimStays
      <4> QED
        BY <4>1, <4>2, <4>3
    <3>4. HeldOK
      BY <2>3 DEF BuildingOK
    <3>5. building'.held \subseteq HeldOn(building.list, building.viewer)'
      BY <3>2, <3>3 DEF HeldOn
    <3>6. HeldOK'
      BY <3>2, <3>3, <3>4, <3>5 DEF HeldOK, HeldOn
    <3> QED
      BY <3>2, <3>6 DEF BuildingOK
  <2> QED
    BY <2>2, <2>3
<1>2. ASSUME NEW u \in Users, NEW l \in ListIds, StartPage(u, l) PROVE BuildingOK'
  <2>1. /\ building' = [NoPage EXCEPT !.step = "items", !.viewer = u, !.list = l,
                                      !.held = HeldOn(l, u)]
        /\ claims' = claims /\ items' = items
    BY <1>2 DEF StartPage, Order, vars
  <2>2. /\ DOMAIN building' = DOMAIN NoPage /\ building'.step = "items" /\ building'.viewer = u
        /\ building'.list = l /\ building'.held = HeldOn(l, u)
    BY <2>1 DEF NoPage
  <2>3. HeldOn(l, u)' = HeldOn(l, u)
    BY <2>1 DEF HeldOn
  <2> QED
    BY <2>2, <2>3 DEF BuildingOK, HeldOK, HeldOn
<1>3. CASE ReadItems
  <2>1. /\ building.step = "items" /\ claims' = claims /\ items' = items
        /\ building' = [building EXCEPT !.step = "claims", !.live = LiveItems(building.list)]
    BY <1>3 DEF ReadItems, Order, vars
  <2>2. /\ DOMAIN building' = DOMAIN building /\ building'.step = "claims"
        /\ building'.viewer = building.viewer /\ building'.list = building.list
        /\ building'.held = building.held /\ building'.live = LiveItems(building.list)
    BY <1>0, <2>1
  <2>3. \A c \in building.held :
           /\ claims[c].item \in DOMAIN items /\ items[claims[c].item].list = building.list
           /\ c \in HeldOn(building.list, building.viewer)
    BY <2>1 DEF BuildingOK, HeldOK, HeldOn, IInv, References
  <2>4. \A c \in building.held :
           claims[c].item \in DOMAIN LiveItems(building.list) \/ items[claims[c].item].deleted
    BY <2>3 DEF LiveItems, ItemsOn
  <2> QED
    BY <2>1, <2>2, <2>3, <2>4 DEF BuildingOK, HeldOK, HeldOn
<1>4. CASE ReadClaims
  <2>1. CASE building.list \in DOMAIN lists
    <3>1. /\ building.step = "claims" /\ claims' = claims /\ items' = items
          /\ building' = [building EXCEPT !.step = "removed",
                                          !.rows = ClaimsForList(building.list)]
      BY <1>4, <2>1 DEF ReadClaims, Order, vars
    <3>2. /\ DOMAIN building' = DOMAIN building /\ building'.step = "removed"
          /\ building'.viewer = building.viewer /\ building'.list = building.list
          /\ building'.held = building.held /\ building'.live = building.live
          /\ building'.rows = ClaimsForList(building.list)
      BY <1>0, <3>1
    <3>3. ASSUME NEW c \in building.held
          PROVE  /\ c \in DOMAIN ClaimsForList(building.list)
                 /\ ClaimsForList(building.list)[c].item = claims[c].item
      <4>1. /\ c \in DOMAIN claims /\ claims[c].item \in DOMAIN items
            /\ items[claims[c].item].list = building.list
        BY <3>1 DEF BuildingOK, HeldOK, HeldOn, IInv, References
      <4>2. claims[c].item \in ItemsOn(building.list) /\ c \in ClaimsOn(claims[c].item)
        BY <4>1 DEF ItemsOn, ClaimsOn
      <4>3. c \in UNION {ClaimsOn(i) : i \in ItemsOn(building.list)}
        BY <4>2
      <4> QED
        BY <4>1, <4>3 DEF ClaimsForList, Restrict
    <3>4. HeldOK
      BY <3>1 DEF BuildingOK
    <3> QED
      BY <3>1, <3>2, <3>3, <3>4 DEF BuildingOK, HeldOK, HeldOn
  <2>2. CASE building.list \notin DOMAIN lists
    <3>1. building' = NoPage
      BY <1>4, <2>2 DEF ReadClaims
    <3> QED
      BY <3>1 DEF BuildingOK, NoPage
  <2> QED
    BY <2>1, <2>2
<1>5. CASE ReadRemoved
  <2> DEFINE gone == RemovedClaimedItems(building.list, building.viewer)
  <2>1. /\ building.step = "removed" /\ claims' = claims /\ items' = items
        /\ building' = [building EXCEPT !.step = "shown", !.gone = gone]
    BY <1>5 DEF ReadRemoved, Order, vars
  <2>2. /\ DOMAIN building' = DOMAIN building /\ building'.step = "shown"
        /\ building'.viewer = building.viewer /\ building'.list = building.list
        /\ building'.held = building.held /\ building'.live = building.live
        /\ building'.rows = building.rows /\ building'.gone = gone
    BY <1>0, <2>1
  <2>3. HeldOK
    BY <2>1 DEF BuildingOK
  <2>4. ASSUME NEW c \in building.held
        PROVE  claims[c].item \in DOMAIN building.live \cup DOMAIN gone
    <3>1. /\ c \in DOMAIN claims /\ claims[c].item \in DOMAIN items
          /\ claims[c].claimer = building.viewer
          /\ items[claims[c].item].list = building.list
      BY <2>3 DEF HeldOK, HeldOn, IInv, References
    <3>2. CASE items[claims[c].item].deleted
      <4>1. claims[c].item \in ItemsOn(building.list) /\ c \in ClaimsOn(claims[c].item)
        BY <3>1 DEF ItemsOn, ClaimsOn
      <4> QED
        BY <3>1, <3>2, <4>1 DEF RemovedClaimedItems
    <3>3. CASE ~ items[claims[c].item].deleted
      BY <2>1, <2>3, <3>3 DEF HeldOK
    <3> QED
      BY <3>2, <3>3
  <2> HIDE DEF gone
  <2> QED
    BY <2>1, <2>2, <2>3, <2>4 DEF BuildingOK, HeldOK, HeldOn
<1>6. CASE SendPage
  <2>1. building' = NoPage
    BY <1>6 DEF SendPage
  <2> QED
    BY <2>1 DEF BuildingOK, NoPage
<1>7. CASE UNCHANGED pageVars
  BY <1>7 DEF pageVars, BuildingOK, HeldOK, HeldOn
<1> QED
  BY <1>1, <1>2, <1>3, <1>4, <1>5, <1>6, <1>7 DEF PagesNext

\* A list page is three queries with anybody's writes between them, and still what
\* its reader holds from the first to the last is on it: the removed items are
\* asked for last, and removal is final.
THEOREM PageShowsWhatIsHeld == PagesSpec => []HeldClaimsAreShown
<1>1. PagesInit => BuildingOK
  BY NoPageIsOK DEF PagesInit
<1>2. PagesSpec => []IInv
  BY PagesRunTheStore, Inductive, PTL
<1>3. BuildingOK => HeldClaimsAreShown
  <2> SUFFICES ASSUME BuildingOK, building.step = "shown", NEW c \in building.held
               PROVE  c \in UNION {v.claims : v \in ViewerItems(building.live, building.rows,
                                                                 building.gone)}
    BY DEF HeldClaimsAreShown
  <2>1. PICK i : i = claims[c].item
    OBVIOUS
  <2>2. /\ c \in DOMAIN building.rows /\ building.rows[c].item = i
        /\ i \in DOMAIN building.live \cup DOMAIN building.gone
    BY <2>1 DEF BuildingOK, HeldOK
  <2>3. \A n, b : c \in ViewerItem(i, n, building.rows, b).claims
    BY <2>2 DEF ViewerItem
  <2>4. \E v \in ViewerItems(building.live, building.rows, building.gone) : c \in v.claims
    BY <2>2, <2>3 DEF ViewerItems
  <2> QED
    BY <2>4
<1> QED
  BY <1>1, <1>2, <1>3, BuildingNext, PTL DEF PagesSpec

\* Only finitely many items are ever there to be counted.
FiniteItems == IsFiniteSet(DOMAIN items)

LEMMA FiniteItemsNext == FiniteItems /\ [Next]_vars => FiniteItems'
<1> SUFFICES ASSUME FiniteItems, [Next]_vars PROVE FiniteItems'
  OBVIOUS
<1>1. \E i : DOMAIN items' \subseteq DOMAIN items \cup {i}
  <2>1. ASSUME NEW u \in Users, NEW l \in ListIds, ListStep(u, l)
        PROVE  DOMAIN items' \subseteq DOMAIN items
    BY <2>1 DEF ListStep, CreateList, UpdateList, ReplaceShares, DeleteList, Drop, Restrict
  <2>2. ASSUME NEW u \in Users, NEW i \in ItemIds, ItemStep(u, i)
        PROVE  DOMAIN items' \subseteq DOMAIN items \cup {i}
    BY <2>2 DEF ItemStep, CreateItem, UpdateItem, DeleteItem, MoveItemToList, Put, Drop, Restrict
  <2>3. ASSUME NEW u \in Users, NEW c \in ClaimIds, ClaimStep(u, c)
        PROVE  DOMAIN items' \subseteq DOMAIN items
    BY <2>3 DEF ClaimStep, CreateClaim, ReleaseClaim, SetClaimState
  <2>4. CASE UNCHANGED vars
    BY <2>4 DEF vars
  <2>5. (\E i : DOMAIN items' \subseteq DOMAIN items \cup {i}) \/ DOMAIN items' \subseteq DOMAIN items
    BY <2>1, <2>2, <2>3, <2>4 DEF Next
  <2> QED
    BY <2>5
<1>2. PICK i : DOMAIN items' \subseteq DOMAIN items \cup {i}
  BY <1>1
<1>3. IsFiniteSet(DOMAIN items \cup {i})
  BY FS_AddElement DEF FiniteItems
<1> QED
  BY <1>2, <1>3, FS_Subset DEF FiniteItems

\* The claims a list page reads add up to the counter on the item's row.
LEMMA PageCountsRight ==
    ASSUME IInv, NEW l, NEW i, i \in ItemsOn(l)
    PROVE  UnitsIn(ClaimsForList(l), i) = items[i].claimed_qty
<1> DEFINE t == ClaimsForList(l)
<1>1. i \in DOMAIN items
  BY DEF ItemsOn
<1>2. /\ DOMAIN t = UNION {ClaimsOn(j) : j \in ItemsOn(l)}
      /\ \A c \in DOMAIN t : t[c] = claims[c]
  BY DEF ClaimsForList, Restrict
<1> HIDE DEF t
<1>3. {d \in DOMAIN t : t[d].item = i} = {d \in DOMAIN claims : claims[d].item = i}
  <2>1. \A d \in DOMAIN claims : claims[d].item = i => d \in DOMAIN t
    BY <1>2 DEF ClaimsOn
  <2>2. DOMAIN t \subseteq DOMAIN claims
    BY <1>2 DEF ClaimsOn
  <2> QED
    BY <1>2, <2>1, <2>2
<1>4. {{c} \X (1..t[c].qty) : c \in {d \in DOMAIN t : t[d].item = i}}
         = {{c} \X (1..claims[c].qty) : c \in {d \in DOMAIN claims : claims[d].item = i}}
  <2> DEFINE D == {d \in DOMAIN t : t[d].item = i}
             E == {d \in DOMAIN claims : claims[d].item = i}
  <2>1. D = E
    BY <1>3
  <2>2. \A c \in D : t[c] = claims[c]
    BY <1>2
  <2> HIDE DEF D, E
  <2>3. {{c} \X (1..t[c].qty) : c \in D} = {{c} \X (1..claims[c].qty) : c \in D}
    BY <2>2
  <2>4. {{c} \X (1..t[c].qty) : c \in D} = {{c} \X (1..claims[c].qty) : c \in E}
    BY <2>1, <2>3
  <2> QED
    BY <2>4 DEF D, E
<1>5. UnitsIn(t, i) = Cardinality(Units(claims, i))
  BY <1>4 DEF UnitsIn, Units
<1> QED
  BY <1>1, <1>5 DEF t, IInv, Counted

LEMMA SameNumber ==
    ASSUME NEW S, NEW T, IsFiniteSet(S), NEW f, f \in [S -> T],
           \A v \in T : \E i \in S : f[i] = v,
           \A i, j \in S : f[i] = f[j] => i = j
    PROVE  Cardinality(S) = Cardinality(T)
<1>1. f \in Bijection(S, T)
  BY DEF Bijection, Injection, Surjection, IsInjective
<1> QED
  BY <1>1, FS_Bijection DEF ExistsBijection

LEMMA BarIsTheDashboards ==
    ASSUME IInv, FiniteItems, NEW u, NEW l
    PROVE  Progress(PageItems(u, l)) = ProgressForList(l)
<1> DEFINE rows == ClaimsForList(l)
           L == DOMAIN LiveItems(l)
           F == {i \in L : items[i].claimed_qty >= items[i].quantity}
           Card(i) == ViewerItem(i, items[i].quantity, rows, FALSE)
           V == {v \in PageItems(u, l) : ~v.removed}
           W == {v \in V : v.full}
           f == [i \in L |-> Card(i)]
           g == [i \in F |-> Card(i)]
<1>1. L = {j \in ItemsOn(l) : ~items[j].deleted} /\ \A i \in L : LiveItems(l)[i] = items[i].quantity
  BY DEF LiveItems
<1>2. IsFiniteSet(L) /\ IsFiniteSet(F)
  <2>1. L \subseteq DOMAIN items /\ F \subseteq DOMAIN items
    BY <1>1 DEF ItemsOn
  <2> QED
    BY <2>1, FS_Subset DEF FiniteItems
<1>3. \A i : /\ Card(i).item = i /\ Card(i).removed = FALSE
             /\ Card(i).full = (UnitsIn(rows, i) >= items[i].quantity)
  BY DEF ViewerItem
<1>4. \A i \in L : UnitsIn(rows, i) = items[i].claimed_qty
  BY <1>1, PageCountsRight
<1>5. V = {Card(i) : i \in L}
  <2>1. \A i, n : ViewerItem(i, n, rows, TRUE).removed = TRUE
    BY DEF ViewerItem
  <2>2. PageItems(u, l) = {ViewerItem(i, LiveItems(l)[i], rows, FALSE) : i \in L}
            \cup {ViewerItem(i, RemovedClaimedItems(l, u)[i], rows, TRUE) :
                     i \in DOMAIN RemovedClaimedItems(l, u)}
    BY DEF PageItems, ViewerItems
  <2>3. {ViewerItem(i, LiveItems(l)[i], rows, FALSE) : i \in L} = {Card(i) : i \in L}
    BY <1>1
  <2> HIDE DEF L, rows, Card
  <2> QED
    BY <1>3, <2>1, <2>2, <2>3
<1> HIDE DEF L, rows, Card
<1>6. Cardinality(L) = Cardinality(V)
  <2>1. f \in [L -> V] /\ \A i \in L : f[i] = Card(i)
    BY <1>5
  <2>2. \A v \in V : \E i \in L : f[i] = v
    BY <1>5
  <2>3. \A i, j \in L : f[i] = f[j] => i = j
    <3>1. \A i \in L : f[i].item = i
      BY <1>3, <2>1
    <3> HIDE DEF f
    <3> QED
      BY <3>1
  <2> HIDE DEF f, V
  <2> QED
    BY <1>2, <2>1, <2>2, <2>3, SameNumber
<1>7. W = {Card(i) : i \in F}
  <2>1. \A i \in L : Card(i).full <=> i \in F
    BY <1>3, <1>4
  <2> HIDE DEF V, F
  <2>2. F \subseteq L
    BY DEF F
  <2> QED
    BY <1>5, <2>1, <2>2
<1>8. Cardinality(F) = Cardinality(W)
  <2>1. g \in [F -> W] /\ \A i \in F : g[i] = Card(i)
    BY <1>7
  <2>2. \A v \in W : \E i \in F : g[i] = v
    BY <1>7
  <2>3. \A i, j \in F : g[i] = g[j] => i = j
    <3>1. \A i \in F : g[i].item = i
      BY <1>3, <2>1
    <3> HIDE DEF g
    <3> QED
      BY <3>1
  <2> HIDE DEF g, W, F
  <2> QED
    BY <1>2, <2>1, <2>2, <2>3, SameNumber
<1>9. Progress(PageItems(u, l)) = [items |-> Cardinality(V), claimed |-> Cardinality(W)]
  BY DEF Progress
<1>10. ProgressForList(l) = [items |-> Cardinality(L), claimed |-> Cardinality(F)]
  BY DEF ProgressForList, L
<1> QED
  BY <1>6, <1>8, <1>9, <1>10

\* The bar counted from the cards, the one counted from the stored counters, and
\* the report on removed items too: three countings of the same claims.
THEOREM ThreeCountsAgree == PagesSpec => []BarsAgree
<1>1. PagesSpec => []IInv
  BY PagesRunTheStore, Inductive, PTL
<1>2. PagesSpec => []FiniteItems
  <2>1. PagesInit => FiniteItems
    BY FS_EmptySet DEF PagesInit, Init, EmptyTable, FiniteItems
  <2>2. FiniteItems /\ [PagesNext]_pageVars => FiniteItems'
    BY FiniteItemsNext, PagesStepIsStoreStep
  <2> QED
    BY <2>1, <2>2, PTL DEF PagesSpec
<1>3. IInv /\ FiniteItems => BarsAgree
  <2> SUFFICES ASSUME IInv, FiniteItems PROVE BarsAgree
    OBVIOUS
  <2>1. \A u, l : Progress(PageItems(u, l)) = ProgressForList(l)
    BY BarIsTheDashboards
  <2>2. \A l : Drift(l) = {}
    <3>1. \A l, i : i \in ItemsOn(l) =>
             UnitsIn(AuditClaimsForList(l), i) = items[i].claimed_qty
      BY PageCountsRight DEF AuditClaimsForList, AuditItemsForList, ClaimsForList
    <3> QED
      BY <3>1 DEF Drift, AuditItemsForList
  <2> QED
    BY <2>1, <2>2 DEF BarsAgree
<1> QED
  BY <1>1, <1>2, <1>3, PTL

-----------------------------------------------------------------------------
(* What the pages offer is what the server takes.                          *)

\* Every card for a live item has the units left that the store would give.
ShowsLeft(v, i) ==
    /\ v.item = i /\ v.removed = FALSE
    /\ v.left = items[i].quantity - items[i].claimed_qty

LEMMA CardsLeft ==
    ASSUME IInv, NEW l, NEW i, i \in ItemsOn(l),
           NEW v, v = ViewerItem(i, items[i].quantity, ClaimsForList(l), FALSE)
    PROVE  ShowsLeft(v, i)
<1>1. UnitsIn(ClaimsForList(l), i) = items[i].claimed_qty
  BY PageCountsRight
<1>2. items[i].claimed_qty \in Nat /\ items[i].quantity \in Nat
      /\ items[i].claimed_qty <= items[i].quantity
  BY DEF IInv, TypeOK, ItemRow, ItemsOn, Quantities
<1>3. v.item = i /\ v.removed = FALSE
      /\ v.left = IF items[i].claimed_qty > items[i].quantity THEN 0
                  ELSE items[i].quantity - items[i].claimed_qty
  BY <1>1 DEF ViewerItem
<1>4. v.left = items[i].quantity - items[i].claimed_qty
  BY ONLY <1>2, <1>3
<1> QED
  BY <1>3, <1>4 DEF ShowsLeft

\* Whose cards a page has.
LEMMA CardsOf ==
    ASSUME NEW u, NEW l
    PROVE  PageItems(u, l) =
             {ViewerItem(i, items[i].quantity, ClaimsForList(l), FALSE) :
                i \in {j \in ItemsOn(l) : ~items[j].deleted}}
             \cup {ViewerItem(i, items[i].quantity, ClaimsForList(l), TRUE) :
                i \in {j \in ItemsOn(l) : items[j].deleted
                                          /\ \E c \in ClaimsOn(j) : claims[c].claimer = u}}
<1> DEFINE own == {j \in ItemsOn(l) : ~items[j].deleted}
           mine == {j \in ItemsOn(l) : items[j].deleted
                                       /\ \E c \in ClaimsOn(j) : claims[c].claimer = u}
<1>1. LiveItems(l) = [i \in own |-> items[i].quantity]
  BY DEF LiveItems
<1>2. RemovedClaimedItems(l, u) = [i \in mine |-> items[i].quantity]
  BY DEF RemovedClaimedItems
<1> HIDE DEF own, mine
<1>3. DOMAIN LiveItems(l) = own /\ \A i \in own : LiveItems(l)[i] = items[i].quantity
  BY <1>1
<1>4. /\ DOMAIN RemovedClaimedItems(l, u) = mine
      /\ \A i \in mine : RemovedClaimedItems(l, u)[i] = items[i].quantity
  BY <1>2
<1>5. {ViewerItem(i, LiveItems(l)[i], ClaimsForList(l), FALSE) : i \in DOMAIN LiveItems(l)}
        = {ViewerItem(i, items[i].quantity, ClaimsForList(l), FALSE) : i \in own}
  BY <1>3
<1>6. {ViewerItem(i, RemovedClaimedItems(l, u)[i], ClaimsForList(l), TRUE) :
           i \in DOMAIN RemovedClaimedItems(l, u)}
        = {ViewerItem(i, items[i].quantity, ClaimsForList(l), TRUE) : i \in mine}
  BY <1>4
<1> QED
  BY <1>5, <1>6 DEF PageItems, ViewerItems, own, mine

\* Somebody who can see a list that is not theirs may claim on it.
LEMMA SeeingIsClaiming ==
    ASSUME NEW u, NEW l, lists[l].owner # u
    PROVE  CanView(u, l) => CanClaim(u, l)
BY DEF CanView, CanClaim

\* And the other way, where visibility is one of the three.
LEMMA ClaimingIsSeeing ==
    ASSUME IInv, NEW u, NEW l \in DOMAIN lists, CanClaim(u, l)
    PROVE  l \in ListsVisibleTo(u)
<1>1. lists[l].visibility \in Visibilities
  BY DEF IInv, TypeOK, ListRow
<1>2. \/ lists[l].visibility = "private" \/ lists[l].visibility = "all_users"
      \/ lists[l].visibility = "selected"
  BY <1>1 DEF Visibilities
<1> QED
  BY <1>2 DEF CanClaim, CanView, ListsVisibleTo, ListsOwnedBy

\* What the server makes of each control.
LEMMA AcceptedIs ==
    ASSUME NEW u, NEW c
    PROVE  /\ c.op \in {"home", "claims", "account", "help", "logout", "new list",
                        "include own", "person"} => Accepted(u, c)
           /\ c.op = "report" => Accepted(u, c) <=> Reported(u, c.list, c.own)
           /\ c.op = "open list" => Accepted(u, c) <=> Visible(u, c.list)
           /\ c.op = "sort" => Accepted(u, c) <=> Visible(u, c.list)
           /\ c.op \in {"add item", "create item", "save settings", "delete list"} =>
                 Accepted(u, c) <=> Owns(u, c.list)
           /\ c.op = "edit" \/ c.op = "reorder" => Accepted(u, c) <=> OwnedItem(u, c.item)
           /\ c.op = "remove" =>
                 Accepted(u, c) <=> (OwnedItem(u, c.item) /\ CanDeleteItem(u, c.item))
           /\ c.op = "move to" =>
                 Accepted(u, c) <=> (OwnedItem(u, c.item) /\ CanMoveItem(u, c.item, c.dest))
           /\ c.op = "save item" =>
                 Accepted(u, c) <=> (OwnedItem(u, c.item) /\ CanUpdateItem(u, c.item, c.qty))
           /\ c.op = "picture" =>
                 Accepted(u, c) <=> (\E l \in DOMAIN lists : c.item \in ItemsOn(l) /\ CanView(u, l))
           /\ c.op = "claim" =>
                 Accepted(u, c) <=> (ClaimableItem(u, c.item) /\ ClaimSucceeds(u, c.item, c.qty))
           /\ c.op \in {"release", "note", "set state"} => Accepted(u, c) <=> OwnsClaim(u, c.claim)
BY DEF Accepted


\* u can use all of these controls.
Takes(u, controls) == \A c \in controls : Accepted(u, c)

LEMMA TakesBoth ==
    ASSUME NEW u, NEW S, NEW T, Takes(u, S), Takes(u, T)
    PROVE  Takes(u, S \cup T)
BY DEF Takes

LEMMA TakesAll ==
    ASSUME NEW u, NEW F, \A S \in F : Takes(u, S)
    PROVE  Takes(u, UNION F)
BY DEF Takes

\* The header, and links to lists one can see.
LEMMA NavTaken == ASSUME NEW u PROVE Takes(u, Nav) /\ Takes(u, NewList)
<1>1. Takes(u, Nav)
  <2> SUFFICES ASSUME NEW o \in {"home", "claims", "account", "help", "logout"}
               PROVE  Accepted(u, [op |-> o])
    BY DEF Takes, Nav
  <2>1. PICK c : c = [op |-> o]
    OBVIOUS
  <2>2. c.op \in {"home", "claims", "account", "help", "logout", "new list", "include own", "person"}
    BY <2>1
  <2>3. Accepted(u, c)
    BY <2>2, AcceptedIs
  <2> QED
    BY <2>1, <2>3
<1>2. Takes(u, NewList)
  <2> SUFFICES ASSUME NEW v \in Visibilities
               PROVE  Accepted(u, [op |-> "new list", visibility |-> v])
    BY DEF Takes, NewList
  <2>1. PICK c : c = [op |-> "new list", visibility |-> v]
    OBVIOUS
  <2>2. Accepted(u, c)
    BY <2>1, AcceptedIs
  <2> QED
    BY <2>1, <2>2
<1> QED
  BY <1>1, <1>2

LEMMA LinksTaken ==
    ASSUME NEW u, NEW ls, \A l \in ls : Visible(u, l)
    PROVE  Takes(u, OpenList(ls))
<1> SUFFICES ASSUME NEW l \in ls PROVE Accepted(u, [op |-> "open list", list |-> l])
  BY DEF Takes, OpenList
<1>1. PICK c : c = [op |-> "open list", list |-> l]
  OBVIOUS
<1>2. Accepted(u, c)
  BY <1>1, AcceptedIs
<1> QED
  BY <1>1, <1>2

\* One's own lists and the others on the dashboard can be seen.
LEMMA ListedIsVisible ==
    ASSUME NEW u
    PROVE  /\ \A l \in ListsOwnedBy(u) : Owns(u, l) /\ Visible(u, l)
           /\ \A l \in ListsVisibleTo(u) : Visible(u, l) /\ l \in DOMAIN lists /\ lists[l].owner # u
BY DEF ListsOwnedBy, ListsVisibleTo, Owns, Visible, CanView

LEMMA DashboardTaken == ASSUME NEW u PROVE Takes(u, Dashboard(u))
<1>1. Takes(u, MyListLinks(u)) /\ Takes(u, FamilyListLinks(u))
  BY ListedIsVisible, LinksTaken DEF MyListLinks, FamilyListLinks
<1> QED
  BY <1>1, NavTaken, TakesBoth DEF Dashboard

LEMMA SortBarTaken ==
    ASSUME NEW u, NEW l, NEW n, Visible(u, l)
    PROVE  Takes(u, SortBar(l, n))
<1> SUFFICES ASSUME NEW s PROVE Accepted(u, [op |-> "sort", list |-> l, sort |-> s])
  BY DEF Takes, SortBar
<1>1. PICK c : c = [op |-> "sort", list |-> l, sort |-> s]
  OBVIOUS
<1>2. Accepted(u, c)
  BY <1>1, AcceptedIs
<1> QED
  BY <1>1, <1>2

LEMMA PictureTaken ==
    ASSUME NEW u, NEW l, NEW i, Visible(u, l), i \in ItemsOn(l)
    PROVE  Takes(u, Picture(i))
<1> SUFFICES Accepted(u, [op |-> "picture", item |-> i])
  BY DEF Takes, Picture
<1>1. PICK c : c = [op |-> "picture", item |-> i]
  OBVIOUS
<1>2. \E k \in DOMAIN lists : c.item \in ItemsOn(k) /\ CanView(u, k)
  BY <1>1 DEF Visible
<1>3. Accepted(u, c)
  BY <1>1, <1>2, AcceptedIs
<1> QED
  BY <1>1, <1>3

\* All that the owner's page has for one item.
LEMMA OwnerCardTaken ==
    ASSUME NEW u, NEW l, NEW i, NEW sort, Owns(u, l), i \in DOMAIN LiveItems(l)
    PROVE  Takes(u, OwnerItemCard(u, l, i, sort))
<1>1. /\ i \in ItemsOn(l) /\ i \in DOMAIN items /\ items[i].list = l /\ ~ items[i].deleted
      /\ OwnedItem(u, i) /\ CanDeleteItem(u, i) /\ Visible(u, l)
  BY DEF LiveItems, ItemsOn, OwnedItem, Live, OwnerOf, Owns, Visible, CanView
<1>2. Takes(u, Picture(i))
  BY <1>1, PictureTaken
<1>3. Takes(u, {[op |-> "edit", item |-> i], [op |-> "remove", item |-> i]})
  <2>1. ASSUME NEW c, c = [op |-> "edit", item |-> i] PROVE Accepted(u, c)
    BY <1>1, <2>1, AcceptedIs
  <2>2. ASSUME NEW c, c = [op |-> "remove", item |-> i] PROVE Accepted(u, c)
    BY <1>1, <2>2, AcceptedIs
  <2> QED
    BY <2>1, <2>2 DEF Takes
<1>4. Takes(u, ReorderForms(i, sort))
  <2>1. ASSUME NEW c, NEW d, c = [op |-> "reorder", item |-> i, dir |-> d] PROVE Accepted(u, c)
    BY <1>1, <2>1, AcceptedIs
  <2> QED
    BY <2>1 DEF Takes, ReorderForms
<1>5. Takes(u, MoveToList(u, l, i))
  <2>1. ASSUME NEW c, NEW d \in MoveTargets(u, l), c = [op |-> "move to", item |-> i, dest |-> d]
        PROVE  Accepted(u, c)
    <3>1. Live(i) /\ OwnerOf(i) = u /\ Owns(u, d)
      BY <1>1 DEF OwnedItem, MoveTargets, ListsOwnedBy, Owns
    <3>2. c.op = "move to" /\ c.item = i /\ c.dest = d
      BY <2>1
    <3> QED
      BY <1>1, <3>1, <3>2, AcceptedIs
  <2> QED
    BY <2>1 DEF Takes, MoveToList
<1> QED
  BY <1>2, <1>3, <1>4, <1>5, TakesBoth DEF OwnerItemCard

\* Settings, a new item, and what is saved as it came.
LEMMA OwnersFormsTaken ==
    ASSUME NEW u, NEW l, Owns(u, l)
    PROVE  /\ Takes(u, ListSettings(l))
           /\ Takes(u, {[op |-> "add item", list |-> l]})
           /\ Takes(u, NewItemForm(l))
<1>1. ASSUME NEW c, c.list = l,
             \/ c.op = "add item" \/ c.op = "create item"
             \/ c.op = "save settings" \/ c.op = "delete list"
      PROVE  Accepted(u, c)
  BY <1>1, AcceptedIs
<1>2. Takes(u, ListSettings(l))
  <2>1. ASSUME NEW c \in [op: {"save settings"}, list: {l}, visibility: Visibilities,
                          share: {TickedBoxes(l), ShareBoxes(l)}]
        PROVE  Accepted(u, c)
    <3>1. c.op = "save settings" /\ c.list = l
      OBVIOUS
    <3> QED
      BY <1>1, <3>1
  <2>2. ASSUME NEW c, c = [op |-> "delete list", list |-> l] PROVE Accepted(u, c)
    <3>1. c.op = "delete list" /\ c.list = l
      BY <2>2
    <3> QED
      BY <1>1, <3>1
  <2> QED
    BY <2>1, <2>2 DEF Takes, ListSettings
<1>3. Takes(u, {[op |-> "add item", list |-> l]}) /\ Takes(u, {[op |-> "create item", list |-> l]})
  <2>1. ASSUME NEW c, c = [op |-> "add item", list |-> l] PROVE Accepted(u, c)
    <3>1. c.op = "add item" /\ c.list = l
      BY <2>1
    <3> QED
      BY <1>1, <3>1
  <2>2. ASSUME NEW c, c = [op |-> "create item", list |-> l] PROVE Accepted(u, c)
    <3>1. c.op = "create item" /\ c.list = l
      BY <2>2
    <3> QED
      BY <1>1, <3>1
  <2> QED
    BY <2>1, <2>2 DEF Takes
<1>4. Takes(u, OpenList({l}))
  <2>1. \A k \in {l} : Visible(u, k)
    BY DEF Visible, Owns, CanView
  <2> QED
    BY <2>1, LinksTaken
<1> QED
  BY <1>2, <1>3, <1>4, NavTaken, TakesBoth DEF NewItemForm

LEMMA EditFormTaken ==
    ASSUME IInv, NEW u, NEW l, NEW i, Owns(u, l), i \in DOMAIN LiveItems(l)
    PROVE  Takes(u, EditItemForm(i))
<1>1. /\ i \in ItemsOn(l) /\ i \in DOMAIN items /\ items[i].list = l /\ ~ items[i].deleted
      /\ OwnedItem(u, i) /\ Visible(u, l)
  BY DEF LiveItems, ItemsOn, OwnedItem, Live, OwnerOf, Owns, Visible, CanView
<1>2. CanUpdateItem(u, i, items[i].quantity)
  BY <1>1 DEF OwnedItem, Live, OwnerOf, Owns, IInv, TypeOK
<1>3. Takes(u, {[op |-> "save item", item |-> i, qty |-> items[i].quantity]})
  <2>1. ASSUME NEW c, c = [op |-> "save item", item |-> i, qty |-> items[i].quantity]
        PROVE  Accepted(u, c)
    BY <1>1, <1>2, <2>1, AcceptedIs
  <2> QED
    BY <2>1 DEF Takes
<1>4. Takes(u, OpenList({items[i].list})) /\ Takes(u, Picture(i))
  <2>1. \A k \in {items[i].list} : Visible(u, k)
    BY <1>1
  <2> QED
    BY <1>1, <2>1, LinksTaken, PictureTaken
<1> QED
  BY <1>3, <1>4, NavTaken, TakesBoth DEF EditItemForm


\* The owner's whole page: the cards are for the live items of the list.
LEMMA OwnerPageTaken ==
    ASSUME NEW u, NEW l, NEW sort, Owns(u, l)
    PROVE  Takes(u, OwnerListView(u, l, sort))
<1> DEFINE own   == DOMAIN LiveItems(l)
           cards == {OwnerItemCard(u, l, i, sort) : i \in own}
<1>1. \A S \in cards : Takes(u, S)
  BY OwnerCardTaken
<1>2. Takes(u, UNION cards)
  BY <1>1, TakesAll
<1>3. Takes(u, SortBar(l, Cardinality(own)))
  <2>1. Visible(u, l)
    BY DEF Visible, Owns, CanView
  <2> QED
    BY <2>1, SortBarTaken
<1>4. OwnerListView(u, l, sort) =
        Nav \cup {[op |-> "add item", list |-> l]} \cup ListSettings(l)
            \cup SortBar(l, Cardinality(own)) \cup UNION cards
  BY DEF OwnerListView
<1> HIDE DEF own, cards
<1> QED
  BY <1>2, <1>3, <1>4, NavTaken, OwnersFormsTaken DEF Takes

\* One's own claims, wherever they are shown.
LEMMA ClaimControlsTaken ==
    ASSUME NEW u, NEW c, OwnsClaim(u, c)
    PROVE  Takes(u, ClaimStateForm(c)) /\ Takes(u, Release(c)) /\ Takes(u, ClaimRowForms(c))
<1>1. ASSUME NEW d, d.claim = c, d.op = "release" \/ d.op = "note" \/ d.op = "set state"
      PROVE  Accepted(u, d)
  BY <1>1, AcceptedIs
<1>2. ASSUME NEW d, NEW s, d = [op |-> "set state", claim |-> c, state |-> s]
      PROVE  Accepted(u, d)
  <2>1. d.op = "set state" /\ d.claim = c
    BY <1>2
  <2> QED
    BY <1>1, <2>1
<1>3. ASSUME NEW d, d = [op |-> "release", claim |-> c] PROVE Accepted(u, d)
  <2>1. d.op = "release" /\ d.claim = c
    BY <1>3
  <2> QED
    BY <1>1, <2>1
<1>4. ASSUME NEW d, d = [op |-> "note", claim |-> c] PROVE Accepted(u, d)
  <2>1. d.op = "note" /\ d.claim = c
    BY <1>4
  <2> QED
    BY <1>1, <2>1
<1>5. Takes(u, ClaimStateForm(c))
  BY <1>2 DEF Takes, ClaimStateForm
<1>6. Takes(u, Release(c)) /\ Takes(u, {[op |-> "note", claim |-> c]})
  BY <1>3, <1>4 DEF Takes, Release
<1> QED
  BY <1>5, <1>6, TakesBoth DEF ClaimRowForms

\* A number the form offers fits what the counter on the row leaves.
LEMMA ClaimFormTaken ==
    ASSUME IInv, NEW u, NEW l \in ListsVisibleTo(u), NEW i, i \in ItemsOn(l), ~ items[i].deleted
    PROVE  Takes(u, ClaimForm(ViewerItem(i, items[i].quantity, ClaimsForList(l), FALSE)))
<1>1. PICK v : v = ViewerItem(i, items[i].quantity, ClaimsForList(l), FALSE)
  OBVIOUS
<1>2. v.item = i /\ v.removed = FALSE /\ v.left = items[i].quantity - items[i].claimed_qty
  <2>1. ShowsLeft(v, i)
    BY <1>1, CardsLeft
  <2> QED
    BY <2>1 DEF ShowsLeft
<1>3. /\ i \in DOMAIN items /\ items[i].list = l /\ Live(i) /\ OwnerOf(i) # u
      /\ Visible(u, l) /\ CanClaim(u, l)
  BY ListedIsVisible, SeeingIsClaiming DEF ItemsOn, Live, OwnerOf, Visible
<1>4. items[i].quantity \in Nat /\ items[i].claimed_qty \in Nat
  BY <1>3 DEF IInv, TypeOK, ItemRow, Quantities
<1>5. ASSUME NEW n \in 1..v.left PROVE Accepted(u, [op |-> "claim", item |-> i, qty |-> n])
  <2>1. items[i].claimed_qty + n <= items[i].quantity
    BY <1>2, <1>4
  <2>2. ClaimSucceeds(u, i, n)
    BY <1>3, <2>1 DEF ClaimSucceeds
  <2>3. ClaimableItem(u, i)
    BY <1>3 DEF ClaimableItem
  <2>4. PICK c : c = [op |-> "claim", item |-> i, qty |-> n]
    OBVIOUS
  <2>5. c.op = "claim" /\ c.item = i /\ c.qty = n
    BY <2>4
  <2>6. Accepted(u, c)
    BY <2>2, <2>3, <2>5, AcceptedIs
  <2> QED
    BY <2>4, <2>6
<1>6. ClaimForm(v) = {[op |-> "claim", item |-> i, qty |-> n] : n \in 1..v.left}
  BY <1>2 DEF ClaimForm
<1>7. ASSUME NEW d \in ClaimForm(v) PROVE Accepted(u, d)
  BY ONLY <1>5, <1>6, <1>7
<1> QED
  BY <1>1, <1>7 DEF Takes

\* A removed card has no claim form.
LEMMA NoFormWhenRemoved ==
    ASSUME NEW i, NEW n, NEW rows
    PROVE  ClaimForm(ViewerItem(i, n, rows, TRUE)) = {}
BY DEF ClaimForm, ViewerItem

\* The claims on a card are claims of the tables, on its item.
LEMMA CardClaimsTaken ==
    ASSUME NEW u, NEW l, NEW i, NEW n, NEW removed
    PROVE  Takes(u, CardClaims(u, ViewerItem(i, n, ClaimsForList(l), removed)))
<1> DEFINE v == ViewerItem(i, n, ClaimsForList(l), removed)
           mine == {d \in v.claims : claims[d].claimer = u}
<1>1. DOMAIN ClaimsForList(l) \subseteq DOMAIN claims
  BY DEF ClaimsForList, Restrict, ClaimsOn
<1>2. v.claims \subseteq DOMAIN claims
  BY <1>1 DEF ViewerItem
<1>3. \A c \in mine : OwnsClaim(u, c)
  BY <1>2
<1>4. \A c \in mine : Takes(u, ClaimStateForm(c) \cup Release(c))
  BY <1>3, ClaimControlsTaken, TakesBoth
<1>5. CardClaims(u, v) = UNION {ClaimStateForm(c) \cup Release(c) : c \in mine}
  BY DEF CardClaims
<1> HIDE DEF mine
<1>6. Takes(u, UNION {ClaimStateForm(c) \cup Release(c) : c \in mine})
  BY <1>4 DEF Takes
<1> QED
  BY <1>5, <1>6

LEMMA ViewerCardTaken ==
    ASSUME IInv, NEW u, NEW l \in ListsVisibleTo(u), NEW v \in PageItems(u, l)
    PROVE  Takes(u, ViewerItemCard(u, v))
<1>1. PICK i \in ItemsOn(l) :
        \/ ~ items[i].deleted /\ v = ViewerItem(i, items[i].quantity, ClaimsForList(l), FALSE)
        \/ v = ViewerItem(i, items[i].quantity, ClaimsForList(l), TRUE)
  BY CardsOf
<1>2. Takes(u, ClaimForm(v))
  <2>1. CASE ~ items[i].deleted
             /\ v = ViewerItem(i, items[i].quantity, ClaimsForList(l), FALSE)
    BY <2>1, ClaimFormTaken
  <2>2. CASE v = ViewerItem(i, items[i].quantity, ClaimsForList(l), TRUE)
    BY <2>2, NoFormWhenRemoved DEF Takes
  <2> QED
    BY <1>1, <2>1, <2>2
<1>3. Takes(u, CardClaims(u, v))
  BY <1>1, CardClaimsTaken
<1>4. v.item = i
  BY <1>1 DEF ViewerItem
<1>5. Takes(u, Picture(v.item))
  BY <1>4, ListedIsVisible, PictureTaken
<1> QED
  BY <1>2, <1>3, <1>5, TakesBoth DEF ViewerItemCard

LEMMA ViewerPageTaken ==
    ASSUME IInv, NEW u, NEW l \in ListsVisibleTo(u)
    PROVE  Takes(u, ViewerListView(u, l))
<1> DEFINE cards == PageItems(u, l)
           forms == {ViewerItemCard(u, v) : v \in cards}
<1>1. \A S \in forms : Takes(u, S)
  BY ViewerCardTaken
<1>2. Takes(u, UNION forms)
  BY <1>1, TakesAll
<1>3. Takes(u, SortBar(l, Cardinality(cards)))
  BY ListedIsVisible, SortBarTaken
<1>4. ViewerListView(u, l) = Nav \cup SortBar(l, Cardinality(cards)) \cup UNION forms
  BY DEF ViewerListView
<1> HIDE DEF forms, cards
<1> QED
  BY <1>2, <1>3, <1>4, NavTaken DEF Takes


LEMMA ListPageTaken ==
    ASSUME IInv, NEW u, NEW l, l \in ListsOwnedBy(u) \cup ListsVisibleTo(u), NEW sort
    PROVE  Takes(u, ListView(u, l, sort))
<1>1. CASE l \in ListsOwnedBy(u)
  BY <1>1, ListedIsVisible, OwnerPageTaken DEF ListView, Owns
<1>2. CASE l \in ListsVisibleTo(u)
  BY <1>2, ListedIsVisible, ViewerPageTaken DEF ListView
<1> QED
  BY <1>1, <1>2

\* Nobody holds a claim on an own item, so nobody's claim is hidden from them.
LEMMA ClaimsPageTaken == ASSUME NEW u PROVE Takes(u, ClaimsPage(u))
<1> DEFINE forms == {ClaimRowForms(c) : c \in ClaimsByUser(u)}
<1>1. \A c \in ClaimsByUser(u) : OwnsClaim(u, c)
  BY DEF ClaimsByUser
<1>2. \A S \in forms : Takes(u, S)
  BY <1>1, ClaimControlsTaken
<1>3. Takes(u, UNION forms)
  BY <1>2, TakesAll
<1> HIDE DEF forms
<1>4. ClaimsPage(u) = Nav \cup UNION forms
  BY DEF ClaimsPage, forms
<1> QED
  BY <1>3, <1>4, NavTaken, TakesBoth

\* The report lists one's own lists behind the switch, where they are reported.
LEMMA ReportsTaken == ASSUME NEW u, NEW on \in BOOLEAN PROVE Takes(u, Reports(u, on))
<1>1. ASSUME NEW c, c.op = "include own" \/ c.op = "person" PROVE Accepted(u, c)
  BY <1>1, AcceptedIs
<1>2. ASSUME NEW b PROVE Takes(u, AuditToggle(b))
  <2>1. ASSUME NEW c, c = [op |-> "include own", on |-> b] PROVE Accepted(u, c)
    <3>1. c.op = "include own"
      BY <2>1
    <3> QED
      BY <1>1, <3>1
  <2> QED
    BY <2>1 DEF Takes, AuditToggle
<1>3. ASSUME NEW l PROVE Takes(u, AuditList(l))
  <2>1. ASSUME NEW c, c = [op |-> "person", person |-> lists[l].owner] PROVE Accepted(u, c)
    <3>1. c.op = "person"
      BY <2>1
    <3> QED
      BY <1>1, <3>1
  <2> QED
    BY <2>1 DEF Takes, AuditList
<1>4. ASSUME NEW person, person = u => on
      PROVE  Takes(u, {[op |-> "report", list |-> l, own |-> on] : l \in ListsOwnedBy(person)})
  <2>1. ASSUME NEW l \in ListsOwnedBy(person), NEW c, c = [op |-> "report", list |-> l, own |-> on]
        PROVE  Accepted(u, c)
    <3>1. c.op = "report" /\ c.list = l /\ c.own = on
      BY <2>1
    <3>2. Reported(u, l, on)
      BY <1>4, <2>1 DEF Reported, ListsOwnedBy, Owns
    <3> QED
      BY <3>1, <3>2, AcceptedIs
  <2> QED
    BY <2>1 DEF Takes
<1>5. ASSUME NEW person PROVE Takes(u, AuditPerson(u, person, on))
  <2>1. CASE person = u /\ ~ on
    BY <1>2, <2>1 DEF AuditPerson
  <2>2. CASE ~ (person = u /\ ~ on)
    <3> DEFINE reports == {[op |-> "report", list |-> l, own |-> on] : l \in ListsOwnedBy(person)}
               toggle  == IF person = u THEN AuditToggle(FALSE) ELSE {}
    <3>1. Takes(u, reports)
      BY <1>4, <2>2
    <3>2. Takes(u, toggle)
      BY <1>2 DEF Takes
    <3>3. AuditPerson(u, person, on) = toggle \cup reports
      BY <2>2 DEF AuditPerson
    <3> HIDE DEF toggle, reports
    <3> QED
      BY <3>1, <3>2, <3>3, TakesBoth
  <2> QED
    BY <2>1, <2>2
<1> DEFINE persons == {AuditPerson(u, v, on) : v \in Users}
           reported == {AuditList(l) : l \in {k \in DOMAIN lists : Reported(u, k, on)}}
<1>6. (\A S \in persons : Takes(u, S)) /\ (\A S \in reported : Takes(u, S))
  BY <1>3, <1>5
<1> HIDE DEF persons, reported
<1>7. Takes(u, UNION persons) /\ Takes(u, UNION reported)
  BY <1>6, TakesAll
<1>8. Reports(u, on) = (UNION persons) \cup (UNION reported)
  BY DEF Reports, persons, reported
<1>9. Takes(u, (UNION persons) \cup UNION reported)
  BY ONLY <1>7, TakesBoth
<1> QED
  BY ONLY <1>8, <1>9

LEMMA ReachTaken == ASSUME IInv, NEW u PROVE Takes(u, InReach(u))
<1> DEFINE listed  == ListsOwnedBy(u) \cup ListsVisibleTo(u)
           Both(l) == UNION {ListView(u, l, s) : s \in Sorts}
           pages   == {Both(l) : l \in listed}
           adds    == {NewItemForm(l) : l \in ListsOwnedBy(u)}
           own     == UNION {DOMAIN LiveItems(l) : l \in ListsOwnedBy(u)}
           edits   == {EditItemForm(i) : i \in own}
           reports == {Reports(u, on) : on \in BOOLEAN}
<1>1. Takes(u, UNION pages)
  <2>1. ASSUME NEW l \in listed PROVE Takes(u, Both(l))
    <3>1. \A S \in {ListView(u, l, s) : s \in Sorts} : Takes(u, S)
      BY <2>1, ListPageTaken
    <3> QED
      BY <3>1, TakesAll
  <2> HIDE DEF Both, listed
  <2>2. \A S \in pages : Takes(u, S)
    BY <2>1
  <2> QED
    BY <2>2, TakesAll
<1>2. Takes(u, UNION adds)
  <2>1. \A S \in adds : Takes(u, S)
    BY ListedIsVisible, OwnersFormsTaken
  <2> QED
    BY <2>1, TakesAll
<1>3. Takes(u, UNION edits)
  <2>1. \A i \in own : Takes(u, EditItemForm(i))
    BY ListedIsVisible, EditFormTaken
  <2> HIDE DEF own
  <2>2. \A S \in edits : Takes(u, S)
    BY <2>1
  <2> QED
    BY <2>2, TakesAll
<1>4. Takes(u, ShareTarget(u))
  <2>1. \A l \in ListsOwnedBy(u) : Takes(u, {[op |-> "add item", list |-> l]})
    BY ListedIsVisible, OwnersFormsTaken
  <2> QED
    BY <2>1 DEF Takes, ShareTarget
<1>5. Takes(u, UNION reports)
  <2>1. \A S \in reports : Takes(u, S)
    BY ReportsTaken
  <2> QED
    BY <2>1, TakesAll
<1>6. InReach(u) = Dashboard(u) \cup (UNION pages) \cup ClaimsPage(u) \cup (UNION adds)
                       \cup (UNION edits) \cup ShareTarget(u) \cup (UNION reports)
  BY DEF InReach
<1> HIDE DEF pages, adds, edits, reports
<1> QED
  <2>1. Takes(u, Dashboard(u)) /\ Takes(u, ClaimsPage(u))
    BY DashboardTaken, ClaimsPageTaken
  <2> HIDE DEF Takes
  <2>2. Takes(u, Dashboard(u) \cup (UNION pages) \cup ClaimsPage(u) \cup UNION adds)
    BY ONLY <1>1, <1>2, <2>1, TakesBoth
  <2>3. Takes(u, Dashboard(u) \cup (UNION pages) \cup ClaimsPage(u) \cup (UNION adds)
                     \cup (UNION edits) \cup ShareTarget(u) \cup UNION reports)
    BY ONLY <1>3, <1>4, <1>5, <2>2, TakesBoth
  <2> QED
    BY ONLY <1>6, <2>3

\* No page offers what the server would refuse: the number box of a card goes up
\* to what the row's counter leaves because the card's own count of the claims is
\* that counter, and the edit form repeats a quantity that covers what is claimed.
THEOREM NothingIsRefused == PagesSpec => []FreshControlsWork
<1>1. PagesSpec => []IInv
  BY PagesRunTheStore, Inductive, PTL
<1>2. IInv => FreshControlsWork
  BY ReachTaken DEF FreshControlsWork, Takes
<1> QED
  BY <1>1, <1>2, PTL


\* The pages that make up what u can come to.
Reaches(u, controls) == controls \subseteq InReach(u)

LEMMA ReachHas ==
    ASSUME NEW u
    PROVE  /\ Reaches(u, ClaimsPage(u))
           /\ \A l \in ListsOwnedBy(u) \cup ListsVisibleTo(u) : Reaches(u, ListView(u, l, "manual"))
           /\ \A on \in BOOLEAN : Reaches(u, Reports(u, on))
<1>1. Reaches(u, ClaimsPage(u))
  BY DEF InReach, Reaches
<1>2. ASSUME NEW l \in ListsOwnedBy(u) \cup ListsVisibleTo(u)
      PROVE  Reaches(u, ListView(u, l, "manual"))
  <2> DEFINE listed  == ListsOwnedBy(u) \cup ListsVisibleTo(u)
             Both(k) == UNION {ListView(u, k, s) : s \in Sorts}
  <2>1. ListView(u, l, "manual") \subseteq Both(l)
    BY DEF Sorts
  <2> HIDE DEF Both
  <2>2. Both(l) \subseteq UNION {Both(k) : k \in listed}
    BY <1>2
  <2>3. (UNION {Both(k) : k \in listed}) \subseteq InReach(u)
    BY DEF InReach, Both
  <2> QED
    BY <2>1, <2>2, <2>3 DEF Reaches
<1>3. ASSUME NEW on \in BOOLEAN PROVE Reaches(u, Reports(u, on))
  <2>1. Reports(u, on) \subseteq UNION {Reports(u, b) : b \in BOOLEAN}
    OBVIOUS
  <2>2. (UNION {Reports(u, b) : b \in BOOLEAN}) \subseteq InReach(u)
    BY DEF InReach
  <2> QED
    BY <2>1, <2>2 DEF Reaches
<1> QED
  BY <1>1, <1>2, <1>3

\* A claim is on its claimer's page wherever its item has gone.
LEMMA ClaimIsInReach ==
    ASSUME IInv, NEW u, NEW c, OwnsClaim(u, c)
    PROVE  Release(c) \cup ClaimStateForm(c) \cup {[op |-> "note", claim |-> c]} \subseteq InReach(u)
<1>1. c \in ClaimsByUser(u)
  BY DEF ClaimsByUser, IInv, OwnerNeverClaims
<1>2. ClaimRowForms(c) \subseteq UNION {ClaimRowForms(d) : d \in ClaimsByUser(u)}
  BY <1>1
<1>3. ClaimRowForms(c) \subseteq ClaimsPage(u)
  BY <1>2 DEF ClaimsPage
<1>4. ClaimsPage(u) \subseteq InReach(u)
  BY ReachHas DEF Reaches
<1> QED
  BY <1>3, <1>4 DEF ClaimRowForms

\* What can be claimed is within the number box of its card.
LEMMA ClaimFormIsInReach ==
    ASSUME IInv, NEW u, NEW i, NEW n \in Quantities, NEW c, CanCreateClaim(u, i, n, c)
    PROVE  [op |-> "claim", item |-> i, qty |-> n] \in InReach(u)
<1>1. PICK l : l = items[i].list
  OBVIOUS
<1>2. /\ i \in DOMAIN items /\ ~ items[i].deleted /\ i \in ItemsOn(l) /\ l \in DOMAIN lists
      /\ CanClaim(u, l) /\ items[i].claimed_qty + n <= items[i].quantity
  BY <1>1 DEF Live, ItemsOn, IInv, References
<1>3. l \in ListsVisibleTo(u) /\ lists[l].owner # u
  BY <1>2, ClaimingIsSeeing DEF CanClaim
<1>4. PICK v : v = ViewerItem(i, items[i].quantity, ClaimsForList(l), FALSE)
  OBVIOUS
<1>5. v \in PageItems(u, l)
  BY <1>2, <1>4, CardsOf
<1>6. v.item = i /\ v.removed = FALSE /\ n \in 1..v.left
  <2>1. ShowsLeft(v, i)
    BY <1>2, <1>4, CardsLeft
  <2>2. items[i].quantity \in Nat /\ items[i].claimed_qty \in Nat /\ n \in Nat /\ 1 <= n
    BY <1>2 DEF IInv, TypeOK, ItemRow, Quantities
  <2> QED
    BY <1>2, <2>1, <2>2 DEF ShowsLeft
<1>7. [op |-> "claim", item |-> i, qty |-> n] \in ViewerItemCard(u, v)
  BY <1>6 DEF ViewerItemCard, ClaimForm
<1>8. ViewerItemCard(u, v) \subseteq UNION {ViewerItemCard(u, w) : w \in PageItems(u, l)}
  BY <1>5
<1>9. ViewerItemCard(u, v) \subseteq ListView(u, l, "manual")
  BY <1>3, <1>8 DEF ListView, ViewerListView
<1>10. ListView(u, l, "manual") \subseteq InReach(u)
  BY <1>3, ReachHas DEF Reaches
<1> QED
  BY <1>7, <1>9, <1>10

\* The owner's card of every live item.
LEMMA OwnerCardIsInReach ==
    ASSUME IInv, NEW u, NEW i, Live(i), OwnerOf(i) = u
    PROVE  Reaches(u, OwnerItemCard(u, items[i].list, i, "manual"))
<1>1. PICK l : l = items[i].list
  OBVIOUS
<1>2. l \in DOMAIN lists /\ lists[l].owner = u /\ i \in ItemsOn(l) /\ l \in ListsOwnedBy(u)
  BY <1>1 DEF Live, OwnerOf, ItemsOn, IInv, References, ListsOwnedBy
<1>3. i \in DOMAIN LiveItems(l)
  BY <1>2 DEF Live, LiveItems
<1>4. OwnerItemCard(u, l, i, "manual")
        \subseteq UNION {OwnerItemCard(u, l, j, "manual") : j \in DOMAIN LiveItems(l)}
  BY <1>3
<1>5. OwnerItemCard(u, l, i, "manual") \subseteq ListView(u, l, "manual")
  BY <1>2, <1>4 DEF ListView, OwnerListView
<1>6. ListView(u, l, "manual") \subseteq InReach(u)
  BY <1>2, ReachHas DEF Reaches
<1> QED
  BY <1>1, <1>5, <1>6 DEF Reaches

LEMMA SettingsAreInReach ==
    ASSUME NEW u, NEW l, Owns(u, l)
    PROVE  ListSettings(l) \subseteq InReach(u)
<1>1. l \in ListsOwnedBy(u) /\ lists[l].owner = u
  BY DEF Owns, ListsOwnedBy
<1>2. ListSettings(l) \subseteq ListView(u, l, "manual")
  BY <1>1 DEF ListView, OwnerListView
<1>3. ListView(u, l, "manual") \subseteq InReach(u)
  BY <1>1, ReachHas DEF Reaches
<1> QED
  BY <1>2, <1>3

LEMMA ReportIsInReach ==
    ASSUME IInv, NEW u, NEW l \in DOMAIN lists, NEW on \in BOOLEAN, Reported(u, l, on)
    PROVE  [op |-> "report", list |-> l, own |-> on] \in InReach(u)
<1>1. PICK person : person = lists[l].owner
  OBVIOUS
<1>2. person \in Users /\ l \in ListsOwnedBy(person) /\ (person = u => on)
  BY <1>1 DEF IInv, TypeOK, ListRow, ListsOwnedBy, Reported, Owns
<1>3. [op |-> "report", list |-> l, own |-> on] \in AuditPerson(u, person, on)
  BY <1>2 DEF AuditPerson
<1>4. AuditPerson(u, person, on) \subseteq UNION {AuditPerson(u, v, on) : v \in Users}
  BY <1>2
<1>5. AuditPerson(u, person, on) \subseteq Reports(u, on)
  BY <1>4 DEF Reports
<1>6. Reports(u, on) \subseteq InReach(u)
  BY ReachHas DEF Reaches
<1> QED
  BY <1>3, <1>5, <1>6

\* And no right is without a page to use it on.
THEOREM EveryRightHasAPage == PagesSpec => []NothingIsOutOfReach
<1>1. PagesSpec => []IInv
  BY PagesRunTheStore, Inductive, PTL
<1>2. IInv => NothingIsOutOfReach
  <2>0. SUFFICES ASSUME IInv PROVE NothingIsOutOfReach
    OBVIOUS
  <2>1. ASSUME NEW u, NEW c, OwnsClaim(u, c)
        PROVE  Release(c) \cup ClaimStateForm(c) \cup {[op |-> "note", claim |-> c]}
                 \subseteq InReach(u)
    BY <2>0, <2>1, ClaimIsInReach
  <2>2. ASSUME NEW u, NEW i, NEW n \in Quantities, ClaimIds \ DOMAIN claims # {},
               ClaimSucceeds(u, i, n)
        PROVE  [op |-> "claim", item |-> i, qty |-> n] \in InReach(u)
    <3>1. PICK c \in ClaimIds : CanCreateClaim(u, i, n, c)
      BY <2>2 DEF ClaimSucceeds
    <3> QED
      BY <2>0, <3>1, ClaimFormIsInReach
  <2>3. ASSUME NEW u, NEW i, Live(i), CanDeleteItem(u, i)
        PROVE  {[op |-> "remove", item |-> i], [op |-> "edit", item |-> i]} \subseteq InReach(u)
    <3>1. Reaches(u, OwnerItemCard(u, items[i].list, i, "manual"))
      BY <2>0, <2>3, OwnerCardIsInReach
    <3> QED
      BY <3>1 DEF Reaches, OwnerItemCard
  <2>4. ASSUME NEW u, NEW i, NEW d, d # items[i].list, CanMoveItem(u, i, d)
        PROVE  [op |-> "move to", item |-> i, dest |-> d] \in InReach(u)
    <3>1. Reaches(u, OwnerItemCard(u, items[i].list, i, "manual"))
      BY <2>0, <2>4, OwnerCardIsInReach
    <3>2. d \in MoveTargets(u, items[i].list)
      BY <2>4 DEF MoveTargets, ListsOwnedBy, Owns
    <3>3. [op |-> "move to", item |-> i, dest |-> d] \in MoveToList(u, items[i].list, i)
      BY <3>2 DEF MoveToList
    <3> QED
      BY <3>1, <3>3 DEF Reaches, OwnerItemCard
  <2>5. ASSUME NEW u, NEW l, Owns(u, l) PROVE ListSettings(l) \subseteq InReach(u)
    BY <2>5, SettingsAreInReach
  <2>6. ASSUME NEW u, NEW l \in DOMAIN lists, NEW on \in BOOLEAN, Reported(u, l, on)
        PROVE  [op |-> "report", list |-> l, own |-> on] \in InReach(u)
    BY <2>0, <2>6, ReportIsInReach
  <2> QED
    BY <2>1, <2>2, <2>3, <2>4, <2>5, <2>6 DEF NothingIsOutOfReach
<1> QED
  BY <1>1, <1>2, PTL

=============================================================================
