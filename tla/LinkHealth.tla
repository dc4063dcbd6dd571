----------------------------- MODULE LinkHealth -----------------------------
(***************************************************************************)
(* The job that looks at stored links again, internal/linkcheck, beside    *)
(* the item handlers that write the same column.  A sweep takes a snapshot *)
(* of the items that are due, asks the shops one by one outside any        *)
(* transaction, and writes link_status and link_checked_at after each      *)
(* answer.                                                                 *)
(*                                                                         *)
(* Timestamps are compared only for their order and for being older than   *)
(* Age, so the model keeps the order itself: the items never looked at,    *)
(* the items looked at, oldest first, and how many of those are due again. *)
(***************************************************************************)
EXTENDS Naturals, FiniteSets, SequencesExt, Tables

CONSTANTS
    ItemIds,
    Urls,
    HostOf,         \* HostOf[u]: the host a URL is on
    Answers,        \* what shops may answer, a subset of AllAnswers
    Posted,         \* <<u, s>>: a form may post the link u and the status s
    Recorded,       \* the answers heard remembers
    Batch,          \* WISHBONE_LINK_CHECK_BATCH
    MaxEdits,       \* bound on the edits saved
    EditsMayMoveLink,   \* may an edit replace or clear the URL?
    MaxRestarts     \* bound on the restarts of the process

\* A product page, 404 or 410, no usable answer (403, 429, 5xx, an error of the
\* transport), and a page the soft-404 guard distrusts.
AllAnswers == {"product", "gone", "nothing", "distrusted"}

Statuses == {"unknown", "ok", "suspect", "dead"}
NoUrl == "none"

ASSUME LinkHealthAssumption ==
    /\ Answers \subseteq AllAnswers /\ Answers # {}
    /\ Posted \subseteq (Urls \cup {NoUrl}) \X Statuses
    /\ Recorded \subseteq AllAnswers
    /\ HostOf \in [Urls -> Range(HostOf)]
    /\ Batch \in Nat \ {0}
    /\ MaxEdits \in Nat /\ MaxRestarts \in Nat
    /\ EditsMayMoveLink \in BOOLEAN

VARIABLES
    items,      \* item id -> [url, status, deleted]
    never,      \* ids with link_checked_at NULL, by created_at
    looked,     \* ids with a link_checked_at, oldest first
    old,        \* how many of looked are older than Age
    shop,       \* shop[u]: what a request for u is answered
    sweep,      \* the rest of the running sweep: snapshots [id, url, status]
    answer,     \* what the shop just said about the first of them, or "none"
    edit,       \* the item an edit has read, [id, url, status], or NoEdit
    edits, restarts,    \* how many so far
    links,      \* history: <<i, u>> once item i was stored with u
    heard       \* history: <<i, u, a>> once a was the answer for item i about u

jobVars  == <<sweep, answer>>
editVars == <<edit, edits>>
orderVars == <<never, looked, old>>
histVars == <<links, heard>>
vars == <<items, orderVars, shop, jobVars, editVars, restarts, histVars>>

NoEdit == [id |-> "none", url |-> NoUrl, status |-> "unknown"]

Live(i) == i \in DOMAIN items /\ ~items[i].deleted

Snapshot(i) == [id |-> i, url |-> items[i].url, status |-> items[i].status]

\* The answer each status stands for.
Evidence == [ok |-> "product", dead |-> "gone", suspect |-> "distrusted",
             unknown |-> "nothing"]

\* The histories are kept only by a run that asks about them.
Store(i, u) == IF Recorded = {} THEN links ELSE links \cup {<<i, u>>}

Hear(i, u, a) == IF a \in Recorded THEN heard \cup {<<i, u, a>>} ELSE heard

-----------------------------------------------------------------------------
(* The sweep's order.                                                      *)

\* ORDER BY link_checked_at IS NOT NULL, link_checked_at, created_at: the ids that
\* were never looked at, or not for as long as Age.  From here on an item of a
\* sweep is its place in this list.
Waiting == never \o SubSeq(looked, 1, old)

\* Faulty variant: only items never looked at are due.
NeverCheckedOnly ==
    {k \in DOMAIN never : Live(never[k]) /\ items[never[k]].url # NoUrl}

Due == {k \in DOMAIN Waiting : Live(Waiting[k]) /\ items[Waiting[k]].url # NoUrl}

\* Faulty variant: NULLs sorted last.
DueNullsLast(n) ==
    LET null(k) == k <= Len(never)
    IN  {k \in Due : Cardinality({j \in Due : \/ null(k) /\ ~null(j)
                                              \/ (null(k) <=> null(j)) /\ j < k}) < n}

\* LIMIT n: those with fewer than n before them.
ItemsDueForLinkCheck(n) ==
    LET due == Due IN {k \in due : Cardinality({j \in due : j < k}) < n}

perHostCap == IF Batch \div 4 >= 2 THEN Batch \div 4 ELSE 2

\* In a batch B: the host of k, how many of that host come before it, and where
\* that host comes first.
Host(k)     == HostOf[items[Waiting[k]].url]
Turn(B, k)  == Cardinality({j \in B : Host(j) = Host(k) /\ j < k})
First(B, k) == CHOOSE j \in B : Host(j) = Host(k) /\ Turn(B, j) = 0

\* The finite set K as a sequence, in the strict total order R.
InOrder(K, R) ==
    [n \in 1..Cardinality(K) |->
        CHOOSE k \in K : Cardinality({j \in K : <<j, k>> \in R}) = n - 1]

\* Faulty variant: host after host instead of turn after turn.
HostByHost(B, cap) ==
    LET kept == {k \in B : Turn(B, k) < cap}
    IN  InOrder(kept, {p \in kept \X kept :
                          \/ First(B, p[1]) < First(B, p[2])
                          \/ First(B, p[1]) = First(B, p[2]) /\ p[1] < p[2]})

Before(B, j, k) ==
    \/ Turn(B, j) < Turn(B, k)
    \/ Turn(B, j) = Turn(B, k) /\ First(B, j) < First(B, k)

\* The first cap of every host, every host's first before any host's second.
spreadByHost(B, cap) ==
    LET kept == {k \in B : Turn(B, k) < cap}
    IN  InOrder(kept, {p \in kept \X kept : Before(B, p[1], p[2])})

\* Faulty variant: every error status is the shop saying that it is gone.
VerdictAnyError(a) ==
    CASE a = "product"    -> "ok"
      [] a = "distrusted" -> "suspect"
      [] OTHER            -> "dead"

\* The status check() records for an answer; "unknown" when it only touches.
Verdict(a) ==
    CASE a = "product"    -> "ok"
      [] a = "gone"       -> "dead"
      [] a = "distrusted" -> "suspect"
      [] a = "nothing"    -> "unknown"

-----------------------------------------------------------------------------
(* The owner.                                                              *)

\* The form posts a status along with the link: what its last lookup concluded,
\* maybe of another URL typed before.  It is stored as it comes.  A link that is
\* empty, and then without a status, or that nothing can be made of, is NoUrl.
CreateItem(i, u, posted) ==
    /\ i \notin DOMAIN items
    /\ i \notin Range(never) \cup Range(looked)     \* ids are not used again
    /\ items' = Put(items, i, [url |-> u, status |-> posted, deleted |-> FALSE])
    /\ never' = Append(never, i)
    /\ links' = Store(i, u)
    /\ heard' = Hear(i, u, Evidence[posted])
    /\ UNCHANGED <<looked, old, shop, jobVars, editVars, restarts>>

\* handleUpdateItem reads the item, its status included ...
ReadForEdit(i) ==
    /\ edit = NoEdit
    /\ edits < MaxEdits
    /\ Live(i)
    /\ edit' = Snapshot(i)
    /\ UNCHANGED <<items, orderVars, shop, jobVars, edits, restarts, histVars>>

\* ... and UpdateItem writes the status it read back, whatever the URL is now.
UpdateItem(u) ==
    /\ edit # NoEdit
    /\ u = edit.url \/ EditsMayMoveLink
    /\ items' = IF Live(edit.id)
                THEN [items EXCEPT ![edit.id].url = u,
                                   ![edit.id].status = edit.status]
                ELSE items
    /\ edit' = NoEdit
    /\ edits' = edits + 1
    /\ links' = IF Live(edit.id) THEN Store(edit.id, u) ELSE links
    /\ UNCHANGED <<orderVars, shop, jobVars, restarts, heard>>

\* A claimed item keeps its row, which the job then skips.
DeleteItem(i, claimed) ==
    /\ Live(i)
    /\ items' = IF claimed THEN [items EXCEPT ![i].deleted = TRUE]
                           ELSE Drop(items, {i})
    /\ UNCHANGED <<orderVars, shop, jobVars, editVars, restarts, histVars>>

-----------------------------------------------------------------------------
(* The job.                                                                *)

\* Faulty variant: the ticker starts a sweep beside the one still running.
StartSweepBeside ==
    LET due   == ItemsDueForLinkCheck(Batch)
        batch == spreadByHost(due, perHostCap)
    IN  /\ due # {}
        /\ sweep' = sweep \o [n \in DOMAIN batch |-> Snapshot(Waiting[batch[n]])]
        /\ UNCHANGED <<items, orderVars, shop, answer, editVars, restarts, histVars>>

\* The ticker fires while nothing is being swept.
StartSweep ==
    LET due   == ItemsDueForLinkCheck(Batch)
        batch == spreadByHost(due, perHostCap)
    IN  /\ sweep = <<>>
        /\ due # {}
        /\ sweep' = [n \in DOMAIN batch |-> Snapshot(Waiting[batch[n]])]
        /\ UNCHANGED <<items, orderVars, shop, answer, editVars, restarts, histVars>>

\* check() asks the shop for the URL in the snapshot.
Fetch ==
    /\ sweep # <<>>
    /\ answer = "none"
    /\ answer' = shop[Head(sweep).url]
    /\ heard' = Hear(Head(sweep).id, Head(sweep).url, answer')
    /\ UNCHANGED <<items, orderVars, shop, sweep, editVars, restarts, links>>

\* Faulty variant: the verdict is written to the item that is next in the sweep.
SetNextLinkStatus ==
    LET it   == Head(sweep)
        next == IF Len(sweep) > 1 THEN sweep[2] ELSE it
    IN  /\ sweep # <<>>
        /\ answer # "none"
        /\ items' = IF next.id \in DOMAIN items /\ Verdict(answer) # "unknown"
                    THEN [items EXCEPT ![next.id].status = Verdict(answer)]
                    ELSE items
        /\ never' = RemoveFirst(never, it.id)
        /\ looked' = Append(RemoveFirst(looked, it.id), it.id)
        /\ old' = IF it.id \in Range(SubSeq(looked, 1, old)) THEN old - 1 ELSE old
        /\ sweep' = Tail(sweep)
        /\ answer' = "none"
        /\ UNCHANGED <<shop, editVars, restarts, histVars>>

\* record() writes the verdict, touch() the status of the snapshot, both to the
\* row with that id, and both stamp it.
SetLinkStatus ==
    LET it     == Head(sweep)
        status == IF Verdict(answer) = "unknown" THEN it.status ELSE Verdict(answer)
    IN  /\ sweep # <<>>
        /\ answer # "none"
        /\ items' = IF it.id \in DOMAIN items
                    THEN [items EXCEPT ![it.id].status = status]
                    ELSE items
        /\ never' = RemoveFirst(never, it.id)
        /\ looked' = Append(RemoveFirst(looked, it.id), it.id)
        /\ old' = IF it.id \in Range(SubSeq(looked, 1, old)) THEN old - 1 ELSE old
        /\ sweep' = Tail(sweep)
        /\ answer' = "none"
        /\ UNCHANGED <<shop, editVars, restarts, histVars>>

\* The process is killed and started again, the job's place in the sweep and a
\* request being handled are lost.
Restart ==
    /\ restarts < MaxRestarts
    /\ restarts' = restarts + 1
    /\ sweep' = <<>>
    /\ answer' = "none"
    /\ edit' = NoEdit
    /\ UNCHANGED <<items, orderVars, shop, edits, histVars>>

-----------------------------------------------------------------------------
(* The world.                                                              *)

\* One more of the items that were looked at is now older than Age.
TimePasses ==
    /\ old < Len(looked)
    /\ old' = old + 1
    /\ UNCHANGED <<items, never, looked, shop, jobVars, editVars, restarts, histVars>>

ShopChanges(u) ==
    /\ \E a \in Answers \ {shop[u]} : shop' = [shop EXCEPT ![u] = a]
    /\ UNCHANGED <<items, orderVars, jobVars, editVars, restarts, histVars>>

-----------------------------------------------------------------------------

Init ==
    /\ items = EmptyTable
    /\ never = <<>>
    /\ looked = <<>>
    /\ old = 0
    /\ shop \in [Urls -> Answers]
    /\ sweep = <<>>
    /\ answer = "none"
    /\ edit = NoEdit
    /\ edits = 0
    /\ restarts = 0
    /\ links = {}
    /\ heard = {}

Job == StartSweep \/ Fetch \/ SetLinkStatus

Owner ==
    \/ \E i \in ItemIds, p \in Posted : CreateItem(i, p[1], p[2])
    \/ \E i \in ItemIds : ReadForEdit(i)
    \/ \E u \in Urls \cup {NoUrl} : UpdateItem(u)
    \/ \E i \in ItemIds, claimed \in BOOLEAN : DeleteItem(i, claimed)

Next ==
    \/ Job
    \/ Owner
    \/ Restart
    \/ TimePasses
    \/ \E u \in Urls : ShopChanges(u)

\* The ticker keeps firing, every request to a shop ends in an answer or in a
\* timeout, time passes, and a handler that was started ends.
Fairness ==
    /\ WF_vars(StartSweep)
    /\ WF_vars(Fetch)
    /\ WF_vars(SetLinkStatus)
    /\ WF_vars(TimePasses)
    /\ WF_vars(\E u \in Urls \cup {NoUrl} : UpdateItem(u))

Spec == Init /\ [][Next]_vars
FairSpec == Spec /\ Fairness

-----------------------------------------------------------------------------
(* Properties.                                                             *)

\* Every variable has its type, every item is in the order exactly once, and
\* no sweep holds more than a batch or one item twice.
TypeOK ==
    /\ DOMAIN items \subseteq ItemIds
    /\ items \in [DOMAIN items -> [url: Urls \cup {NoUrl}, status: Statuses,
                                   deleted: BOOLEAN]]
    /\ Range(never \o looked) \subseteq ItemIds
    /\ DOMAIN items \subseteq Range(never \o looked)
    /\ IsInjective(never \o looked)
    /\ old \in 0..Len(looked)
    /\ shop \in [Urls -> Answers]
    /\ Len(sweep) <= Batch
    /\ \A n \in DOMAIN sweep :
          sweep[n] \in [id: ItemIds, url: Urls, status: Statuses]
    /\ IsInjective([n \in DOMAIN sweep |-> sweep[n].id])
    /\ answer \in Answers \cup {"none"}
    /\ edits \in 0..MaxEdits /\ restarts \in 0..MaxRestarts
    /\ links \subseteq ItemIds \X (Urls \cup {NoUrl})
    /\ heard \subseteq ItemIds \X (Urls \cup {NoUrl}) \X AllAnswers

SweptHost(n) == HostOf[sweep[n].url]

\* One host never takes two requests in a row while another host still waits,
\* and never more than its share of a sweep.
NoHostDominates ==
    /\ \A n \in 1..(Len(sweep) - 1) :
          SweptHost(n) = SweptHost(n+1) =>
              \A k \in n..Len(sweep) : SweptHost(k) = SweptHost(n)
    /\ \A n \in DOMAIN sweep :
          Cardinality({k \in DOMAIN sweep : SweptHost(k) = SweptHost(n)}) <= perHostCap

\* A stored status other than unknown is what the form that created this very
\* item brought, or what a shop said to the job about a link this very item has
\* had, whatever a sweep, an edit and a restart undo.  While nothing moves the
\* link, that is the link it is shown beside.
StatusWasHeard ==
    \A i \in DOMAIN items :
        items[i].status # "unknown" =>
            \E u \in Urls \cup {NoUrl} :
                <<i, u>> \in links /\ <<i, u, Evidence[items[i].status]>> \in heard

\* A link nobody looked at for as long as Age.
IsDue(i) == /\ Live(i) /\ items[i].url # NoUrl
            /\ i \in Range(never) \cup Range(SubSeq(looked, 1, old))

\* Whatever the per-host cap and the batch hold back, a link that is due is
\* looked at sooner or later, or stops being one.
DueIsChecked == \A i \in ItemIds : IsDue(i) ~> ~IsDue(i)

Gone(i) == Live(i) /\ items[i].url # NoUrl /\ shop[items[i].url] = "gone"

\* A link that is gone for good is in the end shown as dead, for good, although
\* an edit may overwrite the verdict with an older status.
GoneIsNoticed ==
    \A i \in ItemIds : <>[]Gone(i) => <>[](Live(i) /\ items[i].status = "dead")
=============================================================================
