----------------------------- MODULE ClaimNotices -----------------------------
(***************************************************************************)
(* How somebody learns that an owner changed what they have claimed: the    *)
(* number beside "Claimed" in the header of every page, the mark on the     *)
(* rows of the page it leads to, and the time that page was opened last,    *)
(* which both are measured from.                                            *)
(*                                                                         *)
(* This is one person's claims and their browser tabs, beside the owners'   *)
(* writes.  Times are whole seconds, and a write is stamped before it gets  *)
(* the one connection, so that writes need not take effect in the order of  *)
(* their stamps.                                                            *)
(*                                                                         *)
(* Left out: what an item and a claim say, others' claims (a removed item   *)
(* they hold alone is no row of this person's), and writes that leave all   *)
(* the times here alone.  A deleted list ends its claims as a release does. *)
(***************************************************************************)
EXTENDS Naturals, Tables

CONSTANTS
    Items, ClaimIds, Tabs,
    MaxTime,        \* bound: seconds the clock runs
    MaxWait         \* bound: seconds a stamped write waits for the connection

ASSUME TimesAssumption == MaxTime \in Nat /\ MaxWait \in Nat

VARIABLES
    now,        \* the clock
    items,      \* item  -> [edited, deleted]: edited_at and deleted_at
    claims,     \* claim -> [item, created]
    seen,       \* users.claims_seen_at
    tabs,       \* tab   -> a claims page being built, or Closed
    owed,       \* history: the claims with a change this person is yet to be told of
    marked      \* history: the latest time the page was marked as opened

vars == <<now, items, claims, seen, tabs, owed, marked>>

\* Stands for NULL, and is before every time.
NULL  == 0
Times == 1..MaxTime

\* step is what was done last; rows are the claims with the times of their items;
\* before is the time the page was opened before; since is when that was read.
\* For the properties, fresh are the rows nothing has happened to since.
Closed == [step |-> "closed", rows |-> EmptyTable, before |-> NULL, since |-> NULL, fresh |-> {}]

LatestOf(s, t) == IF s > t THEN s ELSE t

ClaimsOn(i) == {c \in DOMAIN claims : claims[c].item = i}

-----------------------------------------------------------------------------
(* What counts as a change.                                                *)

\* Faulty variant: >= in place of >.
SinceOrAt(item, created, watermark) ==
    LET after == LatestOf(watermark, created)
    IN  \E t \in {item.edited, item.deleted} : t # NULL /\ t >= after

\* Touched by its owner after the page was opened and after it was claimed.
ChangedSince(item, created, watermark) ==
    LET after == LatestOf(watermark, created)
    IN  item.edited > after \/ item.deleted > after

\* The claims whose items ClaimUpdateCount counts; a page's header is built from
\* two queries, the watermark and then the count, taken as one here.
ClaimUpdates(held, rows, watermark) ==
    {c \in DOMAIN held : ChangedSince(rows[held[c].item], held[c].created, watermark)}

\* The rows of a claims page that are marked as changed.
MarkedRows(tab) ==
    {c \in DOMAIN tab.rows : ChangedSince(tab.rows[c].item, tab.rows[c].created, tab.before)}

\* No longer as they were read, whatever the pages under way say of them.
Outdates(cs) ==
    tabs' = [t \in Tabs |-> [tabs[t] EXCEPT !.fresh = @ \ cs]]

-----------------------------------------------------------------------------
(* The owners and the claims.                                              *)

\* When a write was stamped that takes effect now.
Stamps == {t \in Times : t <= now /\ now <= t + MaxWait}

\* Whom a change is news to: not if it was stamped by the second of the last visit
\* or of the claim.
NewsFor(i, stamp) == {c \in ClaimsOn(i) : stamp > LatestOf(seen, claims[c].created)}

\* UpdateItem and MoveItemToList: both are an owner's edit.  One that was stamped
\* earlier hides the one before.
EditItem(i, stamp) ==
    /\ items[i].deleted = NULL
    /\ items' = [items EXCEPT ![i].edited = stamp]
    /\ owed' = (owed \ ClaimsOn(i)) \cup NewsFor(i, stamp)
    /\ Outdates(ClaimsOn(i))
    /\ UNCHANGED <<now, claims, seen, marked>>

\* An edit before the removal is news as long as it is in the number.
DeleteItem(i, stamp) ==
    /\ items[i].deleted = NULL
    /\ items' = [items EXCEPT ![i].deleted = stamp]
    /\ owed' = (owed \ ClaimsOn(i)) \cup NewsFor(i, stamp)
                  \cup (owed \cap NewsFor(i, items[i].edited))
    /\ Outdates(ClaimsOn(i))
    /\ UNCHANGED <<now, claims, seen, marked>>

\* What an item went through before its claim was stamped is no news.  A claim's id
\* is new, so no tab knows it either.
CreateClaim(c, i, stamp) ==
    /\ c \notin DOMAIN claims \cup UNION {DOMAIN tabs[t].rows : t \in Tabs}
    /\ items[i].deleted = NULL
    /\ claims' = Put(claims, c, [item |-> i, created |-> stamp])
    /\ owed' = IF items[i].edited > LatestOf(seen, stamp) THEN owed \cup {c} ELSE owed
    /\ UNCHANGED <<now, items, seen, tabs, marked>>

ReleaseClaim(c) ==
    /\ c \in DOMAIN claims
    /\ claims' = Drop(claims, {c})
    /\ owed' = owed \ {c}
    /\ Outdates({c})
    /\ UNCHANGED <<now, items, seen, marked>>

-----------------------------------------------------------------------------
(* The claims page.                                                        *)

\* ClaimsByUser.
ReadClaims(t) ==
    /\ tabs[t] = Closed
    /\ tabs' = [tabs EXCEPT ![t].step = "claims",
                   ![t].rows = [c \in DOMAIN claims |->
                       [item |-> items[claims[c].item], created |-> claims[c].created]],
                   ![t].fresh = DOMAIN claims]
    /\ UNCHANGED <<now, items, claims, seen, owed, marked>>

\* MarkClaimsSeen, the SELECT ...
ReadWatermark(t) ==
    /\ tabs[t].step = "claims"
    /\ tabs' = [tabs EXCEPT ![t].step = "watermark", ![t].before = seen, ![t].since = now]
    /\ UNCHANGED <<now, items, claims, seen, owed, marked>>

\* Faulty variant: the new watermark in place of the one it replaced.
MarkSeenReturningNow(t, stamp) ==
    /\ tabs[t].step = "watermark"
    /\ tabs[t].since <= stamp /\ stamp <= now
    /\ seen' = stamp
    /\ marked' = LatestOf(marked, stamp)
    /\ tabs' = [tabs EXCEPT ![t].step = "marked", ![t].before = stamp]
    /\ owed' = owed \cap (tabs[t].fresh \cup ClaimUpdates(claims, items, stamp))
    /\ UNCHANGED <<now, items, claims>>

\* ... and the UPDATE, stamped somewhere between the two.  What it stops counting
\* although the rows do not show it is lost.
MarkSeen(t, stamp) ==
    /\ tabs[t].step = "watermark"
    /\ tabs[t].since <= stamp /\ stamp <= now
    /\ seen' = stamp
    /\ marked' = LatestOf(marked, stamp)
    /\ tabs' = [tabs EXCEPT ![t].step = "marked"]
    /\ owed' = owed \cap (tabs[t].fresh \cup ClaimUpdates(claims, items, stamp))
    /\ UNCHANGED <<now, items, claims>>

\* The page arrives, or is lost on the way: what it marks is told or lost, unless it
\* has changed again.
ShowPage(t) ==
    /\ tabs[t].step = "marked"
    /\ owed' = owed \ (MarkedRows(tabs[t]) \cap tabs[t].fresh)
    /\ tabs' = [tabs EXCEPT ![t] = Closed]
    /\ UNCHANGED <<now, items, claims, seen, marked>>

\* A query fails before the mark, or the process is stopped.
FailPage(t) ==
    /\ tabs[t].step \in {"claims", "watermark"}
    /\ tabs' = [tabs EXCEPT ![t] = Closed]
    /\ UNCHANGED <<now, items, claims, seen, owed, marked>>

-----------------------------------------------------------------------------

Tick ==
    /\ now < MaxTime
    /\ now' = now + 1
    /\ UNCHANGED <<items, claims, seen, tabs, owed, marked>>

\* Nobody has opened the page, and items were edited or not.
Init ==
    /\ now = 1
    /\ items \in [Items -> [edited: {NULL, 1}, deleted: {NULL}]]
    /\ claims = EmptyTable
    /\ seen = NULL
    /\ tabs = [t \in Tabs |-> Closed]
    /\ owed = {}
    /\ marked = NULL

Next ==
    \/ \E i \in Items, stamp \in Stamps : EditItem(i, stamp) \/ DeleteItem(i, stamp)
    \/ \E c \in ClaimIds, i \in Items, stamp \in Stamps : CreateClaim(c, i, stamp)
    \/ \E c \in ClaimIds : ReleaseClaim(c)
    \/ \E t \in Tabs : ReadClaims(t) \/ ReadWatermark(t) \/ ShowPage(t) \/ FailPage(t)
    \/ \E t \in Tabs, stamp \in Times : MarkSeen(t, stamp)
    \/ Tick

Spec == Init /\ [][Next]_vars

-----------------------------------------------------------------------------
(* Properties.                                                             *)

Rows == UNION {[cs -> [item: [edited: Nat, deleted: Nat], created: Nat]] : cs \in SUBSET ClaimIds}

\* The variables' types; no time is in the future, and only claims there are can
\* be owed anything.
TypeOK ==
    /\ now \in Nat
    /\ items \in [Items -> [edited: 0..now, deleted: 0..now]]
    /\ DOMAIN claims \subseteq ClaimIds
    /\ claims \in [DOMAIN claims -> [item: Items, created: 0..now]]
    /\ marked \in 0..now /\ seen \in 0..marked
    /\ tabs \in [Tabs -> [step: {"closed", "claims", "watermark", "marked"}, rows: Rows,
                           before: 0..now, since: 0..now, fresh: SUBSET ClaimIds]]
    /\ owed \subseteq DOMAIN claims

Counted == ClaimUpdates(claims, items, seen)

\* On a page that is about to arrive, as it is now.
OnItsWay ==
    UNION {MarkedRows(tabs[t]) \cap tabs[t].fresh :
               t \in {u \in Tabs : tabs[u].step = "marked"}}

\* A change is in the number or on a page under way until a page has shown it: however
\* many tabs are opened, late writes and clocks that stand still notwithstanding,
\* none is lost but the ones stamped within the second of a visit or a claim or
\* before it, the ones between a visit's two reads and its mark, the ones a write
\* with an older stamp hides, and the ones on a page that failed after its mark.
NoticesArrive == owed \subseteq Counted \cup OnItsWay

\* And nothing is in the number that has been shown, so that opening the page always
\* clears it, unless a tab that was opened earlier moved the time back.
AskedOnce == seen = marked => Counted \subseteq owed \ OnItsWay
=============================================================================
