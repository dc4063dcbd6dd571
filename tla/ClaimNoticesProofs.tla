------------------------- MODULE ClaimNoticesProofs -------------------------
(***************************************************************************)
(* Proofs about ClaimNotices for every set of items, claims and tabs, any   *)
(* length of time and any wait of a stamped write.                          *)
(***************************************************************************)
EXTENDS ClaimNotices, TLAPS

-----------------------------------------------------------------------------
(* The invariant.                                                          *)

\* The claim's item has changed since w, by the rows stored now.
News(c, w) == ChangedSince(items[claims[c].item], claims[c].created, w)

\* A page is about to arrive that marks the claim.
OnPage(c) ==
    \E t \in Tabs : /\ tabs[t].step = "marked" /\ c \in tabs[t].fresh
                    /\ News(c, tabs[t].before)

\* What a page holds of a claim nothing has happened to is what is stored.
FreshRows(tab) ==
    \A c \in tab.fresh :
        /\ c \in DOMAIN tab.rows /\ c \in DOMAIN claims
        /\ tab.rows[c].item = items[claims[c].item]
        /\ tab.rows[c].created = claims[c].created

\* And nothing of that is later than the visit.
ReadBefore(tab, w) ==
    \A c \in tab.fresh : ~ News(c, w)

TabsOK ==
    \A t \in Tabs :
        /\ FreshRows(tabs[t])
        /\ tabs[t].step = "closed" => tabs[t].fresh = {}
        /\ tabs[t].step = "watermark" => ReadBefore(tabs[t], tabs[t].since)
        /\ tabs[t].step = "marked" => ReadBefore(tabs[t], marked)

\* What is owed is in the number, or on its way ...
Arriving == \A c \in owed : News(c, seen) \/ OnPage(c)

\* ... or will be, once the page is marked that has read it.
Reading ==
    \A t \in Tabs : \A c \in owed \cap tabs[t].fresh :
        tabs[t].step = "watermark" => News(c, tabs[t].before) \/ OnPage(c)

\* What is later than every visit has not been told.
Once == \A c \in DOMAIN claims : News(c, marked) => c \in owed /\ ~ OnPage(c)

Inv == TypeOK /\ TabsOK /\ Arriving /\ Reading /\ Once

-----------------------------------------------------------------------------
(* Times.                                                                  *)

ItemTimes  == [edited: Nat, deleted: Nat]

\* An earlier visit leaves more to tell.
LEMMA ChangedSinceMonotone ==
    ASSUME NEW item \in ItemTimes, NEW created \in Nat, NEW v \in Nat, NEW w \in Nat,
           v <= w, ChangedSince(item, created, w)
    PROVE  ChangedSince(item, created, v)
  BY DEF ChangedSince, LatestOf, ItemTimes

\* The typed parts of the state that the steps below look at.
LEMMA Typed ==
    ASSUME TypeOK
    PROVE  /\ now \in Nat /\ seen \in Nat /\ marked \in Nat /\ seen <= marked
           /\ \A i \in Items : items[i] \in ItemTimes
           /\ \A c \in DOMAIN claims :
                 claims[c].item \in Items /\ claims[c].created \in Nat
           /\ \A t \in Tabs : tabs[t].before \in Nat /\ tabs[t].since \in Nat
<1>1. now \in Nat /\ seen \in Nat /\ marked \in Nat /\ seen <= marked
  BY DEF TypeOK
<1>2. \A i \in Items : items[i] \in ItemTimes
  BY DEF TypeOK, ItemTimes
<1>3. \A c \in DOMAIN claims : claims[c].item \in Items /\ claims[c].created \in Nat
  BY DEF TypeOK
<1>4. \A t \in Tabs : tabs[t].before \in Nat /\ tabs[t].since \in Nat
  BY <1>1 DEF TypeOK
<1> QED
  BY <1>1, <1>2, <1>3, <1>4

LEMMA NewsMonotone ==
    ASSUME TypeOK, NEW c \in DOMAIN claims, NEW v \in Nat, NEW w \in Nat, v <= w, News(c, w)
    PROVE  News(c, v)
<1>1. items[claims[c].item] \in ItemTimes /\ claims[c].created \in Nat
  BY Typed
<1> QED
  BY <1>1, ChangedSinceMonotone DEF News

LEMMA InvInit == Init => Inv
<1> SUFFICES ASSUME Init
             PROVE  Inv
  OBVIOUS
<1>1. now = 1 /\ marked = 0 /\ seen = 0 /\ owed = {} /\ DOMAIN claims = {}
  BY DEF Init, NULL, EmptyTable
<1>2. items \in [Items -> [edited: 0..now, deleted: 0..now]]
  BY <1>1 DEF Init, NULL
<1>3. claims \in [DOMAIN claims -> [item: Items, created: 0..now]]
  BY <1>1 DEF Init, EmptyTable
<1>4. EmptyTable \in Rows
  <2>1. EmptyTable \in [{} -> [item: [edited: Nat, deleted: Nat], created: Nat]]
    BY DEF EmptyTable
  <2> QED
    BY <2>1 DEF Rows
<1>5. ASSUME NEW t \in Tabs
      PROVE  /\ tabs[t].step = "closed" /\ tabs[t].fresh = {}
             /\ tabs[t] \in [step: {"closed", "claims", "watermark", "marked"}, rows: Rows,
                             before: 0..now, since: 0..now, fresh: SUBSET ClaimIds]
  BY <1>1, <1>4 DEF Init, Closed, NULL
<1>6. TypeOK
  BY <1>1, <1>2, <1>3, <1>5 DEF TypeOK, Init
<1>7. TabsOK
  BY <1>5 DEF TabsOK, FreshRows
<1> QED
  BY <1>1, <1>6, <1>7 DEF Inv, Arriving, Reading, Once

-----------------------------------------------------------------------------
(* The owners and the claims.                                              *)

\* What a write to the claims cs, or to their items, leaves of the tabs.
LEMMA OthersKept ==
    ASSUME Inv, NEW cs, Outdates(cs), marked' = marked,
           \A c \in DOMAIN claims \ cs :
               /\ c \in DOMAIN claims' /\ claims'[c] = claims[c]
               /\ items'[claims[c].item] = items[claims[c].item]
    PROVE  /\ TabsOK'
           /\ \A c \in DOMAIN claims \ cs :
                 /\ \A w : News(c, w)' <=> News(c, w)
                 /\ OnPage(c)' <=> OnPage(c)
           /\ \A c \in cs : ~ OnPage(c)'
           /\ \A t \in Tabs : /\ tabs'[t].step = tabs[t].step
                              /\ tabs'[t].before = tabs[t].before
                              /\ tabs'[t].fresh = tabs[t].fresh \ cs
<1>1. \A t \in Tabs : /\ tabs'[t].step = tabs[t].step /\ tabs'[t].rows = tabs[t].rows
                      /\ tabs'[t].before = tabs[t].before /\ tabs'[t].since = tabs[t].since
                      /\ tabs'[t].fresh = tabs[t].fresh \ cs
  BY DEF Outdates, Inv, TypeOK
<1>2. \A c \in DOMAIN claims \ cs : \A w : News(c, w)' <=> News(c, w)
  BY DEF News
<1>3. \A c \in DOMAIN claims \ cs : OnPage(c)' <=> OnPage(c)
  BY <1>1, <1>2 DEF OnPage
<1>4. \A c \in cs : ~ OnPage(c)'
  BY <1>1 DEF OnPage
<1>5. ASSUME NEW t \in Tabs
      PROVE  /\ FreshRows(tabs[t])'
             /\ tabs'[t].step = "closed" => tabs'[t].fresh = {}
             /\ tabs'[t].step = "watermark" => ReadBefore(tabs[t], tabs[t].since)'
             /\ tabs'[t].step = "marked" => ReadBefore(tabs[t], marked)'
  <2>1. /\ FreshRows(tabs[t])
        /\ tabs[t].step = "closed" => tabs[t].fresh = {}
        /\ tabs[t].step = "watermark" => ReadBefore(tabs[t], tabs[t].since)
        /\ tabs[t].step = "marked" => ReadBefore(tabs[t], marked)
    BY DEF Inv, TabsOK
  <2>2. FreshRows(tabs[t])'
    BY <1>1, <2>1 DEF FreshRows
  <2>3. tabs'[t].step = "closed" => tabs'[t].fresh = {}
    BY <1>1, <2>1
  <2>4. \A c \in tabs'[t].fresh : c \in tabs[t].fresh /\ c \in DOMAIN claims \ cs
    BY <1>1, <2>1 DEF FreshRows
  <2>5. tabs'[t].step = "watermark" => ReadBefore(tabs[t], tabs[t].since)'
    BY <1>1, <1>2, <2>1, <2>4 DEF ReadBefore
  <2>6. tabs'[t].step = "marked" => ReadBefore(tabs[t], marked)'
    BY <1>1, <1>2, <2>1, <2>4 DEF ReadBefore
  <2> QED
    BY <2>2, <2>3, <2>5, <2>6
<1>6. TabsOK'
  BY <1>5 DEF TabsOK
<1> QED
  BY <1>1, <1>2, <1>3, <1>4, <1>6

\* What remains to be shown of such a write: only the claims cs matter.
LEMMA WriteKeeps ==
    ASSUME Inv, NEW cs, Outdates(cs), marked' = marked, seen' = seen, TypeOK',
           \A c \in DOMAIN claims \ cs :
               /\ c \in DOMAIN claims' /\ claims'[c] = claims[c]
               /\ items'[claims[c].item] = items[claims[c].item]
               /\ c \in owed' <=> c \in owed,
           DOMAIN claims' \subseteq DOMAIN claims \cup cs,
           \A c \in cs \cap owed' : News(c, seen)',
           \A c \in cs \cap DOMAIN claims' : News(c, marked)' => c \in owed'
    PROVE  Inv'
<1>1. \A c \in owed' : c \in cs \/ (c \in owed /\ c \in DOMAIN claims \ cs)
  BY DEF TypeOK
<1>2. Arriving'
  <2> SUFFICES ASSUME NEW c \in owed'
               PROVE  News(c, seen)' \/ OnPage(c)'
    BY DEF Arriving
  <2>1. CASE c \in cs
    BY <2>1
  <2>2. CASE c \in owed /\ c \in DOMAIN claims \ cs
    BY <2>2, OthersKept DEF Inv, Arriving
  <2> QED
    BY <1>1, <2>1, <2>2
<1>3. Reading'
  <2> SUFFICES ASSUME NEW t \in Tabs, NEW c \in owed', c \in tabs'[t].fresh,
                      tabs'[t].step = "watermark"
               PROVE  News(c, tabs[t].before)' \/ OnPage(c)'
    BY DEF Reading
  <2>1. tabs[t].step = "watermark" /\ c \in tabs[t].fresh \ cs /\ tabs'[t].before = tabs[t].before
    BY OthersKept
  <2>2. c \in owed /\ c \in DOMAIN claims \ cs
    BY <1>1, <2>1
  <2>3. News(c, tabs[t].before) \/ OnPage(c)
    BY <2>1, <2>2 DEF Inv, Reading
  <2> QED
    BY <2>1, <2>2, <2>3, OthersKept
<1>4. Once'
  <2> SUFFICES ASSUME NEW c \in DOMAIN claims', News(c, marked)'
               PROVE  c \in owed' /\ ~ OnPage(c)'
    BY DEF Once
  <2>1. CASE c \in cs
    BY <2>1, OthersKept
  <2>2. CASE c \in DOMAIN claims \ cs
    BY <2>2, OthersKept DEF Inv, Once
  <2> QED
    BY <2>1, <2>2
<1> QED
  BY <1>2, <1>3, <1>4, OthersKept DEF Inv

TabState(n) == [step: {"closed", "claims", "watermark", "marked"}, rows: Rows,
                before: 0..n, since: 0..n, fresh: SUBSET ClaimIds]

LEMMA OutdatesTyped ==
    ASSUME TypeOK, NEW cs, Outdates(cs)
    PROVE  tabs' \in [Tabs -> TabState(now)]
<1>1. \A t \in Tabs : tabs[t] \in TabState(now)
  BY DEF TypeOK, TabState
<1>2. \A t \in Tabs : [tabs[t] EXCEPT !.fresh = @ \ cs] \in TabState(now)
  BY <1>1 DEF TabState
<1> QED
  BY <1>2 DEF Outdates

\* A stamp that is news is later than the claim, and than the last visit.
LEMMA NewsForTells ==
    ASSUME TypeOK, NEW i \in Items, NEW stamp \in Nat, NEW c \in ClaimsOn(i)
    PROVE  c \in NewsFor(i, stamp) <=> stamp > seen /\ stamp > claims[c].created
<1>1. c \in DOMAIN claims /\ claims[c].created \in Nat /\ seen \in Nat
  BY Typed DEF ClaimsOn
<1> QED
  BY <1>1 DEF NewsFor, LatestOf

LEMMA NewsIsLater ==
    ASSUME TypeOK, NEW c \in DOMAIN claims, NEW w \in Nat
    PROVE  /\ News(c, w) <=> \/ /\ items[claims[c].item].edited > w
                                /\ items[claims[c].item].edited > claims[c].created
                             \/ /\ items[claims[c].item].deleted > w
                                /\ items[claims[c].item].deleted > claims[c].created
           /\ items[claims[c].item].edited \in Nat /\ items[claims[c].item].deleted \in Nat
           /\ claims[c].created \in Nat
<1>1. items[claims[c].item] \in ItemTimes /\ claims[c].created \in Nat
  BY Typed
<1> QED
  BY <1>1 DEF News, ChangedSince, LatestOf, ItemTimes

LEMMA EditKeeps ==
    ASSUME Inv, NEW i \in Items, NEW stamp \in Stamps, EditItem(i, stamp)
    PROVE  Inv'
<1>1. stamp \in Nat /\ stamp <= now /\ now \in Nat
  BY Typed, TimesAssumption DEF Stamps, Times, Inv
<1>2. /\ Outdates(ClaimsOn(i)) /\ now' = now /\ claims' = claims /\ seen' = seen /\ marked' = marked
      /\ items' = [items EXCEPT ![i].edited = stamp] /\ items[i].deleted = 0
      /\ owed' = (owed \ ClaimsOn(i)) \cup NewsFor(i, stamp)
  BY DEF EditItem, NULL
<1>3. items' \in [Items -> [edited: 0..now, deleted: 0..now]]
  BY <1>1, <1>2 DEF Inv, TypeOK
<1>4. tabs' \in [Tabs -> TabState(now)]
  BY <1>2, OutdatesTyped DEF Inv
<1>5. owed' \subseteq DOMAIN claims
  BY <1>2 DEF Inv, TypeOK, NewsFor, ClaimsOn
<1>6. TypeOK'
  BY <1>2, <1>3, <1>4, <1>5 DEF Inv, TypeOK, TabState
<1>7. \A j \in Items : j # i => items'[j] = items[j]
  BY <1>2 DEF Inv, TypeOK
<1>8. items'[i].edited = stamp /\ items'[i].deleted = 0
  BY <1>2 DEF Inv, TypeOK
<1>9. ASSUME NEW c \in ClaimsOn(i)
      PROVE  /\ c \in owed' => News(c, seen)'
             /\ News(c, marked)' => c \in owed'
  <2>1. c \in DOMAIN claims /\ claims[c].item = i /\ seen \in Nat /\ marked \in Nat /\ seen <= marked
    BY Typed DEF ClaimsOn, Inv
  <2>2. c \in owed' <=> stamp > seen /\ stamp > claims[c].created
    BY <1>1, <1>2, NewsForTells DEF Inv
  <2>3. claims[c].created \in Nat
    BY <2>1, Typed DEF Inv
  <2>4. /\ News(c, seen)' <=> stamp > seen /\ stamp > claims[c].created
        /\ News(c, marked)' <=> stamp > marked /\ stamp > claims[c].created
    BY <1>1, <1>2, <1>8, <2>1, <2>3 DEF News, ChangedSince, LatestOf
  <2> QED
    BY <1>1, <2>1, <2>2, <2>3, <2>4
<1>10. \A c \in DOMAIN claims \ ClaimsOn(i) :
           /\ claims[c].item # i /\ claims[c].item \in Items
           /\ c \in owed' <=> c \in owed
  BY <1>2, Typed DEF ClaimsOn, NewsFor, Inv
<1> QED
  BY <1>2, <1>6, <1>7, <1>9, <1>10, WriteKeeps

LEMMA DeleteKeeps ==
    ASSUME Inv, NEW i \in Items, NEW stamp \in Stamps, DeleteItem(i, stamp)
    PROVE  Inv'
<1>1. stamp \in Nat /\ stamp <= now /\ now \in Nat
  BY Typed, TimesAssumption DEF Stamps, Times, Inv
<1>2. /\ Outdates(ClaimsOn(i)) /\ now' = now /\ claims' = claims /\ seen' = seen /\ marked' = marked
      /\ items' = [items EXCEPT ![i].deleted = stamp] /\ items[i].deleted = 0
      /\ owed' = (owed \ ClaimsOn(i)) \cup NewsFor(i, stamp)
                    \cup (owed \cap NewsFor(i, items[i].edited))
  BY DEF DeleteItem, NULL
<1>3. items' \in [Items -> [edited: 0..now, deleted: 0..now]]
  BY <1>1, <1>2 DEF Inv, TypeOK
<1>4. tabs' \in [Tabs -> TabState(now)]
  BY <1>2, OutdatesTyped DEF Inv
<1>5. owed' \subseteq DOMAIN claims
  BY <1>2 DEF Inv, TypeOK, NewsFor, ClaimsOn
<1>6. TypeOK'
  BY <1>2, <1>3, <1>4, <1>5 DEF Inv, TypeOK, TabState
<1>7. \A j \in Items : j # i => items'[j] = items[j]
  BY <1>2 DEF Inv, TypeOK
<1>8. /\ items'[i].edited = items[i].edited /\ items'[i].deleted = stamp
      /\ items[i].edited \in Nat
  <2>1. items'[i].edited = items[i].edited /\ items'[i].deleted = stamp
    BY <1>2 DEF Inv, TypeOK
  <2>2. items[i] \in ItemTimes
    BY Typed DEF Inv
  <2> QED
    BY <2>1, <2>2 DEF ItemTimes
<1>9. ASSUME NEW c \in ClaimsOn(i)
      PROVE  /\ c \in owed' => News(c, seen)'
             /\ News(c, marked)' => c \in owed'
  <2> DEFINE Later(t, w) == t > w /\ t > claims[c].created
  <2>1. c \in DOMAIN claims /\ claims[c].item = i /\ seen \in Nat /\ marked \in Nat /\ seen <= marked
    BY Typed DEF ClaimsOn, Inv
  <2>2. claims[c].created \in Nat
    BY <2>1, Typed DEF Inv
  <2>3. c \in owed' <=> Later(stamp, seen) \/ (c \in owed /\ Later(items[i].edited, seen))
    BY <1>1, <1>2, <1>8, NewsForTells DEF Inv
  <2>4. /\ News(c, seen)' <=> Later(items[i].edited, seen) \/ Later(stamp, seen)
        /\ News(c, marked)' <=> Later(items[i].edited, marked) \/ Later(stamp, marked)
    BY <1>1, <1>2, <1>8, <2>1, <2>2 DEF News, ChangedSince, LatestOf
  <2>5. Later(items[i].edited, marked) => c \in owed
    <3>1. Later(items[i].edited, marked) => News(c, marked)
      BY <1>8, <2>1, <2>2, NewsIsLater DEF Inv
    <3> QED
      BY <2>1, <3>1 DEF Inv, Once
  <2>6. \A t \in Nat : Later(t, marked) => Later(t, seen)
    BY <2>1, <2>2
  <2> QED
    BY <1>1, <1>8, <2>3, <2>4, <2>5, <2>6
<1>10. \A c \in DOMAIN claims \ ClaimsOn(i) :
           /\ claims[c].item # i /\ claims[c].item \in Items
           /\ c \in owed' <=> c \in owed
  BY <1>2, Typed DEF ClaimsOn, NewsFor, Inv
<1> QED
  BY <1>2, <1>6, <1>7, <1>9, <1>10, WriteKeeps

LEMMA ReleaseKeeps ==
    ASSUME Inv, NEW d \in ClaimIds, ReleaseClaim(d)
    PROVE  Inv'
<1>1. /\ Outdates({d}) /\ items' = items /\ now' = now /\ seen' = seen /\ marked' = marked
      /\ owed' = owed \ {d} /\ d \in DOMAIN claims /\ claims' = Drop(claims, {d})
  BY DEF ReleaseClaim
<1>2. /\ DOMAIN claims' = DOMAIN claims \ {d}
      /\ \A c \in DOMAIN claims \ {d} : claims'[c] = claims[c]
      /\ claims' = [c \in DOMAIN claims' |-> claims'[c]]
  BY <1>1 DEF Drop, Restrict
<1>3. claims' \in [DOMAIN claims' -> [item: Items, created: 0..now]]
  BY <1>2 DEF Inv, TypeOK
<1>4. tabs' \in [Tabs -> TabState(now)]
  BY <1>1, OutdatesTyped DEF Inv
<1>5. TypeOK'
  BY <1>1, <1>2, <1>3, <1>4 DEF Inv, TypeOK, TabState
<1> QED
  BY <1>1, <1>2, <1>5, WriteKeeps

LEMMA CreateKeeps ==
    ASSUME Inv, NEW d \in ClaimIds, NEW i \in Items, NEW stamp \in Stamps,
           CreateClaim(d, i, stamp)
    PROVE  Inv'
<1>1. stamp \in Nat /\ stamp <= now /\ now \in Nat
  BY Typed, TimesAssumption DEF Stamps, Times, Inv
<1>2. /\ items' = items /\ now' = now /\ seen' = seen /\ marked' = marked /\ tabs' = tabs
      /\ items[i].deleted = 0 /\ d \notin DOMAIN claims
      /\ claims' = Put(claims, d, [item |-> i, created |-> stamp])
      /\ owed' = IF items[i].edited > LatestOf(seen, stamp) THEN owed \cup {d} ELSE owed
      /\ \A t \in Tabs : d \notin DOMAIN tabs[t].rows
  BY DEF CreateClaim, NULL
<1>3. /\ DOMAIN claims' = DOMAIN claims \cup {d}
      /\ \A c \in DOMAIN claims \ {d} : claims'[c] = claims[c]
      /\ claims'[d] = [item |-> i, created |-> stamp]
      /\ claims' = [c \in DOMAIN claims' |-> claims'[c]]
  BY <1>2 DEF Put
<1>4. claims' \in [DOMAIN claims' -> [item: Items, created: 0..now]]
  <2>1. claims'[d] \in [item: Items, created: 0..now]
    BY <1>1, <1>3
  <2>2. \A c \in DOMAIN claims : claims[c] \in [item: Items, created: 0..now]
    BY DEF Inv, TypeOK
  <2> QED
    BY <1>3, <2>1, <2>2
<1>5. TypeOK'
  BY <1>2, <1>3, <1>4 DEF Inv, TypeOK
<1>6. Outdates({d})
  <2>1. \A t \in Tabs : d \notin tabs[t].fresh
    BY <1>2 DEF Inv, TabsOK, FreshRows
  <2>2. \A t \in Tabs : tabs[t] \in TabState(now)
    BY DEF Inv, TypeOK, TabState
  <2>3. \A t \in Tabs : [tabs[t] EXCEPT !.fresh = @ \ {d}] = tabs[t]
    BY <2>1, <2>2 DEF TabState
  <2>4. tabs = [t \in Tabs |-> tabs[t]]
    BY DEF Inv, TypeOK
  <2> QED
    BY <1>2, <2>3, <2>4 DEF Outdates
<1>7. /\ d \in owed' => News(d, seen)'
      /\ News(d, marked)' => d \in owed'
  <2>1. seen \in Nat /\ marked \in Nat /\ seen <= marked /\ items[i].edited \in Nat
    BY Typed DEF Inv, ItemTimes
  <2>2. d \in owed' <=> items[i].edited > seen /\ items[i].edited > stamp
    BY <1>1, <1>2, <2>1 DEF Inv, TypeOK, LatestOf
  <2>3. /\ News(d, seen)' <=> items[i].edited > seen /\ items[i].edited > stamp
        /\ News(d, marked)' <=> items[i].edited > marked /\ items[i].edited > stamp
    BY <1>1, <1>2, <1>3, <2>1 DEF News, ChangedSince, LatestOf
  <2> QED
    BY <1>1, <2>1, <2>2, <2>3
<1>8. \A c \in DOMAIN claims \ {d} : c \in owed' <=> c \in owed
  BY <1>2
<1> QED
  BY <1>2, <1>3, <1>5, <1>6, <1>7, <1>8, WriteKeeps

-----------------------------------------------------------------------------
(* The claims page.                                                        *)

\* One tab goes on and nothing else happens.
LEMMA TabTyped ==
    ASSUME TypeOK, NEW t \in Tabs, NEW tab \in TabState(now), tabs' = [tabs EXCEPT ![t] = tab],
           now' = now, items' = items, claims' = claims,
           marked' \in 0..now, seen' \in 0..marked', owed' \subseteq owed
    PROVE  /\ TypeOK'
           /\ tabs'[t] = tab
           /\ \A u \in Tabs \ {t} : tabs'[u] = tabs[u]
           /\ \A c, w : News(c, w)' <=> News(c, w)
<1>1. tabs \in [Tabs -> TabState(now)]
  BY DEF TypeOK, TabState
<1>2. tabs' \in [Tabs -> TabState(now)] /\ tabs'[t] = tab /\ \A u \in Tabs \ {t} : tabs'[u] = tabs[u]
  BY <1>1
<1>3. TypeOK'
  BY <1>2 DEF TypeOK, TabState
<1> QED
  BY <1>2, <1>3 DEF News

\* Every step but the mark and the arrival: the tab that takes it is not about to
\* arrive, before or after.
LEMMA TabKeeps ==
    ASSUME Inv, NEW t \in Tabs, NEW tab \in TabState(now), tabs' = [tabs EXCEPT ![t] = tab],
           UNCHANGED <<now, items, claims, seen, owed, marked>>,
           tabs[t].step # "marked", tab.step # "marked",
           FreshRows(tab), tab.step = "closed" => tab.fresh = {},
           tab.step = "watermark" =>
               /\ ReadBefore(tab, tab.since)
               /\ tab.before = seen
    PROVE  Inv'
<1>1. /\ TypeOK'
      /\ tabs'[t] = tab
      /\ \A u \in Tabs \ {t} : tabs'[u] = tabs[u]
      /\ \A c, w : News(c, w)' <=> News(c, w)
  BY TabTyped DEF Inv, TypeOK
<1>2. \A c : OnPage(c)' <=> OnPage(c)
  BY <1>1 DEF OnPage
<1>3. TabsOK'
  BY <1>1 DEF Inv, TabsOK, FreshRows, ReadBefore
<1>4. Arriving'
  BY <1>1, <1>2 DEF Inv, Arriving
<1>5. Reading'
  <2> SUFFICES ASSUME NEW u \in Tabs, NEW c \in owed, c \in tabs'[u].fresh,
                      tabs'[u].step = "watermark"
               PROVE  News(c, tabs'[u].before) \/ OnPage(c)
    BY <1>1, <1>2 DEF Reading
  <2>1. CASE u = t
    BY <1>1, <2>1 DEF Inv, Arriving
  <2>2. CASE u # t
    BY <1>1, <2>2 DEF Inv, Reading
  <2> QED
    BY <2>1, <2>2
<1>6. Once'
  BY <1>1, <1>2 DEF Inv, Once
<1> QED
  BY <1>1, <1>3, <1>4, <1>5, <1>6 DEF Inv

LEMMA ReadClaimsKeeps ==
    ASSUME Inv, NEW t \in Tabs, ReadClaims(t)
    PROVE  Inv'
<1> DEFINE rows == [c \in DOMAIN claims |->
                       [item |-> items[claims[c].item], created |-> claims[c].created]]
           tab  == [tabs[t] EXCEPT !.step = "claims", !.rows = rows, !.fresh = DOMAIN claims]
<1>1. tabs[t] \in TabState(now) /\ tabs[t].step = "closed"
  <2>1. tabs[t] \in TabState(now)
    BY DEF Inv, TypeOK, TabState
  <2>2. tabs[t] = Closed
    BY DEF ReadClaims
  <2> QED
    BY <2>1, <2>2 DEF Closed
<1>2. rows \in Rows
  <2>1. \A c \in DOMAIN claims :
           /\ items[claims[c].item] \in [edited: Nat, deleted: Nat]
           /\ claims[c].created \in Nat
    BY Typed DEF Inv, ItemTimes
  <2>2. rows \in [DOMAIN claims -> [item: [edited: Nat, deleted: Nat], created: Nat]]
    BY <2>1
  <2>3. DOMAIN claims \in SUBSET ClaimIds
    BY DEF Inv, TypeOK
  <2> QED
    BY <2>2, <2>3 DEF Rows
<1>3. /\ tab \in TabState(now) /\ tab.step = "claims" /\ tab.rows = rows
      /\ tab.fresh = DOMAIN claims
  BY <1>1, <1>2 DEF TabState, Inv, TypeOK
<1>4. FreshRows(tab)
  BY <1>3 DEF FreshRows
<1>5. tabs' = [tabs EXCEPT ![t] = tab] /\ UNCHANGED <<now, items, claims, seen, owed, marked>>
  BY DEF ReadClaims
<1> HIDE DEF tab
<1> QED
  BY <1>1, <1>3, <1>4, <1>5, TabKeeps

LEMMA ReadWatermarkKeeps ==
    ASSUME Inv, NEW t \in Tabs, ReadWatermark(t)
    PROVE  Inv'
<1> DEFINE tab == [tabs[t] EXCEPT !.step = "watermark", !.before = seen, !.since = now]
<1>1. tabs[t] \in TabState(now) /\ tabs[t].step = "claims"
  BY DEF Inv, TypeOK, TabState, ReadWatermark
<1>2. now \in Nat /\ seen \in 0..now
  BY DEF Inv, TypeOK
<1>3. /\ tab \in TabState(now) /\ tab.step = "watermark" /\ tab.before = seen /\ tab.since = now
      /\ tab.rows = tabs[t].rows /\ tab.fresh = tabs[t].fresh
  <2>1. now \in 0..now
    BY <1>2
  <2>2. /\ tab.step = "watermark" /\ tab.before = seen /\ tab.since = now
        /\ tab.rows = tabs[t].rows /\ tab.fresh = tabs[t].fresh
    BY <1>1 DEF TabState
  <2>3. tab \in TabState(now)
    BY <1>1, <1>2, <2>1 DEF TabState
  <2> QED
    BY <2>2, <2>3
<1>4. FreshRows(tab)
  BY <1>3 DEF FreshRows, Inv, TabsOK
<1>5. ReadBefore(tab, tab.since)
  <2> SUFFICES ASSUME NEW c \in tab.fresh
               PROVE  ~ News(c, now)
    BY <1>3 DEF ReadBefore
  <2>1. c \in DOMAIN claims
    BY <1>4 DEF FreshRows
  <2>2. items[claims[c].item].edited <= now /\ items[claims[c].item].deleted <= now
    BY <2>1, <1>2 DEF Inv, TypeOK
  <2> QED
    BY <1>2, <2>1, <2>2, NewsIsLater DEF Inv
<1>6. tabs' = [tabs EXCEPT ![t] = tab] /\ UNCHANGED <<now, items, claims, seen, owed, marked>>
  BY DEF ReadWatermark
<1> HIDE DEF tab
<1> QED
  BY <1>1, <1>3, <1>4, <1>5, <1>6, TabKeeps

LEMMA FailPageKeeps ==
    ASSUME Inv, NEW t \in Tabs, FailPage(t)
    PROVE  Inv'
<1>1. tabs[t].step # "marked"
  BY DEF FailPage
<1>2. Closed \in TabState(now) /\ Closed.step = "closed" /\ Closed.fresh = {}
  <2>1. EmptyTable \in [{} -> [item: [edited: Nat, deleted: Nat], created: Nat]]
    BY DEF EmptyTable
  <2>2. EmptyTable \in Rows
    BY <2>1 DEF Rows
  <2> QED
    BY <2>2 DEF Closed, TabState, NULL, Inv, TypeOK
<1>3. FreshRows(Closed)
  BY <1>2 DEF FreshRows
<1>4. tabs' = [tabs EXCEPT ![t] = Closed] /\ UNCHANGED <<now, items, claims, seen, owed, marked>>
  BY DEF FailPage
<1> QED
  BY <1>1, <1>2, <1>3, <1>4, TabKeeps

LEMMA MarkSeenKeeps ==
    ASSUME Inv, NEW t \in Tabs, NEW stamp \in Times, MarkSeen(t, stamp)
    PROVE  Inv'
<1> DEFINE tab == [tabs[t] EXCEPT !.step = "marked"]
<1>1. /\ tabs[t].step = "watermark" /\ tabs[t].since <= stamp /\ stamp <= now
      /\ seen' = stamp /\ marked' = LatestOf(marked, stamp)
      /\ tabs' = [tabs EXCEPT ![t] = tab] /\ UNCHANGED <<now, items, claims>>
      /\ owed' = owed \cap (tabs[t].fresh \cup ClaimUpdates(claims, items, stamp))
  BY DEF MarkSeen
<1>2. tabs[t] \in TabState(now) /\ tab \in TabState(now)
  <2>1. tabs[t] \in TabState(now)
    BY DEF Inv, TypeOK, TabState
  <2> QED
    BY <2>1 DEF TabState
<1>3. /\ tab.step = "marked" /\ tab.rows = tabs[t].rows /\ tab.before = tabs[t].before
      /\ tab.fresh = tabs[t].fresh
  BY <1>2 DEF TabState
<1>4. /\ stamp \in Nat /\ marked \in Nat /\ marked' \in Nat
      /\ stamp <= marked' /\ marked <= marked' /\ marked' <= now
      /\ now \in Nat /\ tabs[t].since \in Nat
  BY <1>1, Typed, TimesAssumption DEF Inv, Times, LatestOf, TypeOK
<1> HIDE DEF tab
<1>5. /\ TypeOK'
      /\ tabs'[t] = tab
      /\ \A u \in Tabs \ {t} : tabs'[u] = tabs[u]
      /\ \A c, w : News(c, w)' <=> News(c, w)
  <2>1. marked' \in 0..now /\ seen' \in 0..marked'
    BY <1>1, <1>4
  <2>2. owed' \subseteq owed /\ TypeOK
    BY <1>1 DEF Inv
  <2> QED
    BY <1>1, <1>2, <2>1, <2>2, TabTyped
<1>6. \A c : OnPage(c)' <=> OnPage(c) \/ (c \in tabs[t].fresh /\ News(c, tabs[t].before))
  BY <1>1, <1>3, <1>5 DEF OnPage
<1>7. FreshRows(tabs[t]) /\ ReadBefore(tabs[t], tabs[t].since)
  BY <1>1 DEF Inv, TabsOK
\* What the page holds was there before this visit's stamp.
<1>8. \A c \in tabs[t].fresh : ~ News(c, marked')
  <2> SUFFICES ASSUME NEW c \in tabs[t].fresh, News(c, marked')
               PROVE  FALSE
    OBVIOUS
  <2>1. c \in DOMAIN claims
    BY <1>7 DEF FreshRows
  <2>2. News(c, tabs[t].since)
    BY <1>1, <1>4, <2>1, NewsMonotone DEF Inv
  <2> QED
    BY <1>7, <2>2 DEF ReadBefore
<1>9. \A c \in DOMAIN claims : News(c, marked') => News(c, marked) /\ News(c, stamp)
  BY <1>4, NewsMonotone DEF Inv
<1>10. TabsOK'
  <2> SUFFICES ASSUME NEW u \in Tabs
               PROVE  /\ FreshRows(tabs[u])'
                      /\ tabs'[u].step = "closed" => tabs'[u].fresh = {}
                      /\ tabs'[u].step = "watermark" => ReadBefore(tabs[u], tabs[u].since)'
                      /\ tabs'[u].step = "marked" => ReadBefore(tabs[u], marked)'
    BY DEF TabsOK
  <2>1. CASE u = t
    <3>1. FreshRows(tabs[t])'
      BY <1>1, <1>3, <1>5, <1>7 DEF FreshRows
    <3>2. ReadBefore(tabs[t], marked)'
      BY <1>3, <1>5, <1>8 DEF ReadBefore
    <3> QED
      BY <1>3, <1>5, <2>1, <3>1, <3>2
  <2>2. CASE u # t
    <3>1. /\ FreshRows(tabs[u])
          /\ tabs[u].step = "closed" => tabs[u].fresh = {}
          /\ tabs[u].step = "watermark" => ReadBefore(tabs[u], tabs[u].since)
          /\ tabs[u].step = "marked" => ReadBefore(tabs[u], marked)
      BY DEF Inv, TabsOK
    <3>2. tabs'[u] = tabs[u]
      BY <1>5, <2>2
    <3>3. FreshRows(tabs[u])'
      BY <1>1, <3>1, <3>2 DEF FreshRows
    <3>4. tabs'[u].step = "watermark" => ReadBefore(tabs[u], tabs[u].since)'
      BY <1>5, <3>1, <3>2 DEF ReadBefore
    <3>5. tabs'[u].step = "marked" => ReadBefore(tabs[u], marked)'
      <4>1. \A c \in tabs[u].fresh : c \in DOMAIN claims
        BY <3>1 DEF FreshRows
      <4> QED
        BY <1>5, <1>9, <3>1, <3>2, <4>1 DEF ReadBefore
    <3> QED
      BY <3>1, <3>2, <3>3, <3>4, <3>5
  <2> QED
    BY <2>1, <2>2
<1>11. Arriving'
  <2> SUFFICES ASSUME NEW c \in owed'
               PROVE  News(c, stamp) \/ OnPage(c)'
    BY <1>1, <1>5 DEF Arriving
  <2>1. c \in owed /\ (c \in tabs[t].fresh \/ News(c, stamp))
    BY <1>1 DEF ClaimUpdates, News
  <2>2. c \in tabs[t].fresh => News(c, tabs[t].before) \/ OnPage(c)
    BY <1>1, <2>1 DEF Inv, Reading
  <2> QED
    BY <1>6, <2>1, <2>2
<1>12. Reading'
  <2> SUFFICES ASSUME NEW u \in Tabs, NEW c \in owed', c \in tabs'[u].fresh,
                      tabs'[u].step = "watermark"
               PROVE  News(c, tabs'[u].before) \/ OnPage(c)'
    BY <1>5 DEF Reading
  <2>1. u # t /\ tabs'[u] = tabs[u] /\ c \in owed
    BY <1>1, <1>3, <1>5
  <2>2. News(c, tabs[u].before) \/ OnPage(c)
    BY <2>1 DEF Inv, Reading
  <2> QED
    BY <1>6, <2>1, <2>2
<1>13. Once'
  <2> SUFFICES ASSUME NEW c \in DOMAIN claims, News(c, marked')
               PROVE  c \in owed' /\ ~ OnPage(c)'
    BY <1>1, <1>5 DEF Once
  <2>1. News(c, marked) /\ News(c, stamp)
    BY <1>9
  <2>2. c \in owed /\ ~ OnPage(c)
    BY <2>1 DEF Inv, Once
  <2>3. c \in ClaimUpdates(claims, items, stamp)
    BY <2>1 DEF ClaimUpdates, News
  <2>4. c \notin tabs[t].fresh
    BY <1>8
  <2> QED
    BY <1>1, <1>6, <2>2, <2>3, <2>4
<1> QED
  BY <1>5, <1>10, <1>11, <1>12, <1>13 DEF Inv

LEMMA ShowPageKeeps ==
    ASSUME Inv, NEW t \in Tabs, ShowPage(t)
    PROVE  Inv'
<1>1. /\ tabs[t].step = "marked"
      /\ tabs' = [tabs EXCEPT ![t] = Closed]
      /\ owed' = owed \ (MarkedRows(tabs[t]) \cap tabs[t].fresh)
      /\ UNCHANGED <<now, items, claims, seen, marked>>
  BY DEF ShowPage
<1>2. Closed \in TabState(now) /\ Closed.step = "closed" /\ Closed.fresh = {}
  <2>1. EmptyTable \in [{} -> [item: [edited: Nat, deleted: Nat], created: Nat]]
    BY DEF EmptyTable
  <2>2. EmptyTable \in Rows
    BY <2>1 DEF Rows
  <2> QED
    BY <2>2 DEF Closed, TabState, NULL, Inv, TypeOK
<1>3. /\ TypeOK'
      /\ tabs'[t] = Closed
      /\ \A u \in Tabs \ {t} : tabs'[u] = tabs[u]
      /\ \A c, w : News(c, w)' <=> News(c, w)
  BY <1>1, <1>2, TabTyped DEF Inv, TypeOK
\* The marks on the page are by the rows it read, which are those stored.
<1>4. \A c : c \in MarkedRows(tabs[t]) \cap tabs[t].fresh
                 <=> c \in tabs[t].fresh /\ News(c, tabs[t].before)
  BY DEF MarkedRows, News, Inv, TabsOK, FreshRows
<1>5. \A c : OnPage(c)' => OnPage(c)
  BY <1>1, <1>2, <1>3 DEF OnPage
<1>6. \A c \in owed' : c \in owed /\ (OnPage(c) => OnPage(c)')
  <2> SUFFICES ASSUME NEW c \in owed', OnPage(c)
               PROVE  OnPage(c)'
    BY <1>1
  <2>1. PICK u \in Tabs : /\ tabs[u].step = "marked" /\ c \in tabs[u].fresh
                          /\ News(c, tabs[u].before)
    BY DEF OnPage
  <2>2. u # t
    BY <1>1, <1>4, <2>1
  <2> QED
    BY <1>3, <2>1, <2>2 DEF OnPage
<1>7. TabsOK'
  BY <1>1, <1>2, <1>3 DEF Inv, TabsOK, FreshRows, ReadBefore
<1>8. Arriving'
  BY <1>1, <1>3, <1>6 DEF Inv, Arriving
<1>9. Reading'
  <2> SUFFICES ASSUME NEW u \in Tabs, NEW c \in owed', c \in tabs'[u].fresh,
                      tabs'[u].step = "watermark"
               PROVE  News(c, tabs'[u].before) \/ OnPage(c)'
    BY <1>3 DEF Reading
  <2>1. u # t /\ tabs'[u] = tabs[u]
    BY <1>2, <1>3
  <2>2. News(c, tabs[u].before) \/ OnPage(c)
    BY <1>6, <2>1 DEF Inv, Reading
  <2> QED
    BY <1>6, <2>1, <2>2
<1>10. Once'
  <2> SUFFICES ASSUME NEW c \in DOMAIN claims, News(c, marked)
               PROVE  c \in owed' /\ ~ OnPage(c)'
    BY <1>1, <1>3 DEF Once
  <2>1. c \in owed /\ ~ OnPage(c)
    BY DEF Inv, Once
  <2>2. c \notin MarkedRows(tabs[t]) \cap tabs[t].fresh
    BY <1>1, <1>4, <2>1 DEF OnPage
  <2> QED
    BY <1>1, <1>5, <2>1, <2>2
<1> QED
  BY <1>3, <1>7, <1>8, <1>9, <1>10 DEF Inv

-----------------------------------------------------------------------------

LEMMA TickKeeps == Inv /\ Tick => Inv'
<1> SUFFICES ASSUME Inv, Tick
             PROVE  Inv'
  OBVIOUS
<1>1. now \in Nat /\ now' = now + 1 /\ UNCHANGED <<items, claims, seen, tabs, owed, marked>>
  BY DEF Tick, Inv, TypeOK
<1>2. \A n \in 0..now : n \in 0..now'
  BY <1>1
<1>3. items \in [Items -> [edited: 0..now', deleted: 0..now']]
  BY <1>1, <1>2 DEF Inv, TypeOK
<1>4. claims \in [DOMAIN claims -> [item: Items, created: 0..now']]
  BY <1>1, <1>2 DEF Inv, TypeOK
<1>5. tabs \in [Tabs -> TabState(now')]
  <2>1. \A t \in Tabs : tabs[t] \in TabState(now)
    BY DEF Inv, TypeOK, TabState
  <2>2. \A t \in Tabs : tabs[t] \in TabState(now')
    BY <1>2, <2>1 DEF TabState
  <2> QED
    BY <2>2 DEF Inv, TypeOK
<1>6. TypeOK'
  BY <1>1, <1>2, <1>3, <1>4, <1>5 DEF Inv, TypeOK, TabState
<1>7. TabsOK' /\ Arriving' /\ Reading' /\ Once'
  BY <1>1 DEF Inv, TabsOK, FreshRows, ReadBefore, Arriving, Reading, Once, OnPage, News
<1> QED
  BY <1>6, <1>7 DEF Inv

LEMMA InvNext == Inv /\ [Next]_vars => Inv'
<1> SUFFICES ASSUME Inv, [Next]_vars
             PROVE  Inv'
  OBVIOUS
<1>1. CASE \E i \in Items, stamp \in Stamps : EditItem(i, stamp) \/ DeleteItem(i, stamp)
  BY <1>1, EditKeeps, DeleteKeeps
<1>2. CASE \E c \in ClaimIds, i \in Items, stamp \in Stamps : CreateClaim(c, i, stamp)
  BY <1>2, CreateKeeps
<1>3. CASE \E c \in ClaimIds : ReleaseClaim(c)
  BY <1>3, ReleaseKeeps
<1>4. CASE \E t \in Tabs : ReadClaims(t) \/ ReadWatermark(t) \/ ShowPage(t) \/ FailPage(t)
  BY <1>4, ReadClaimsKeeps, ReadWatermarkKeeps, ShowPageKeeps, FailPageKeeps
<1>5. CASE \E t \in Tabs, stamp \in Times : MarkSeen(t, stamp)
  BY <1>5, MarkSeenKeeps
<1>6. CASE Tick
  BY <1>6, TickKeeps
<1>7. CASE UNCHANGED vars
  BY <1>7 DEF vars, Inv, TypeOK, TabsOK, FreshRows, ReadBefore, Arriving, Reading, Once,
              OnPage, News
<1> QED
  BY <1>1, <1>2, <1>3, <1>4, <1>5, <1>6, <1>7 DEF Next

\* The invariant holds in every state of every behaviour: what is owed is in the
\* number or on its way to being shown, and what has been told is in neither.
THEOREM InvHolds == Spec => []Inv
<1> QED
  BY InvInit, InvNext, PTL DEF Spec

\* No time stored is in the future, no visit later than the latest, and nothing is
\* owed to a claim that has ended.
THEOREM TypesHold == Spec => []TypeOK
<1>1. Inv => TypeOK
  BY DEF Inv
<1> QED
  BY <1>1, InvHolds, PTL

\* Page and store agree on which of the page's marks are still true.
LEMMA OnItsWayIsOnPage == Inv => \A c : c \in OnItsWay <=> OnPage(c)
<1> SUFFICES ASSUME Inv, NEW c
             PROVE  c \in OnItsWay <=> OnPage(c)
  OBVIOUS
<1>1. \A t \in Tabs : c \in MarkedRows(tabs[t]) \cap tabs[t].fresh
                          <=> c \in tabs[t].fresh /\ News(c, tabs[t].before)
  BY DEF MarkedRows, News, Inv, TabsOK, FreshRows
<1>2. c \in OnItsWay
        <=> \E t \in Tabs : tabs[t].step = "marked" /\ c \in MarkedRows(tabs[t]) \cap tabs[t].fresh
  BY DEF OnItsWay
<1> QED
  BY <1>1, <1>2 DEF OnPage

\* A change to something claimed is announced until a page has shown it.
THEOREM NoticesDoArrive == Spec => []NoticesArrive
<1>1. Inv => NoticesArrive
  BY OnItsWayIsOnPage DEF Inv, TypeOK, Arriving, NoticesArrive, Counted, ClaimUpdates, News
<1> QED
  BY <1>1, InvHolds, PTL

\* And what a page has shown is announced no more.
THEOREM NothingAskedTwice == Spec => []AskedOnce
<1>1. Inv => AskedOnce
  BY OnItsWayIsOnPage DEF Inv, Once, AskedOnce, Counted, ClaimUpdates, News
<1> QED
  BY <1>1, InvHolds, PTL

=============================================================================
