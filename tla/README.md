# Wishbone, specified

TLA+ specifications of Wishbone, the self-hosted wishlist server in this
repository, with TLC instances that check them and TLAPS proofs, for instances
of every size, of nearly every property checked but liveness. Wishbone keeps lists
of items; other users claim items so that nobody buys a thing twice, and the owner
of a list must never learn what is claimed.

## 1. The system

### Processes and shared state

One Go process serves HTTP, one goroutine per request. It holds a SQLite
database (`internal/db`) on a single writer connection, a directory of image
blobs (`internal/imgstore`), an in-memory login limiter (`internal/auth`), and
a goroutine that re-checks links (`internal/linkcheck`). A second container
runs `wishbone backup` on the same data directory. Command-line subcommands
(`set-password`, `check-url`, ...) open the same database.

A store method that writes more than one row runs in `BEGIN IMMEDIATE`
(`store.go:30-62`) and is atomic. **A handler is not**: it reads, decides and
writes in separate store calls, and does its file and network work between
them. That is where the behaviours nobody wrote a test for are.

### Components

| Component | State | Operations | Talks to | Hard behaviour | What makes it correct |
|---|---|---|---|---|---|
| Store (`store/lists.go`, `items.go`, `claims.go`) | lists, shares, items with a stored `claimed_qty`, claims | create, edit, share, move, remove; claim, release, change state | SQLite | rival claims, edits against claims, removals of claimed items, cascades | the counter is the sum of the claims; no overclaim; nobody claims an own item; a claimed item is kept |
| Request handlers (`web/handlers_*.go`) | locals of a request | build a page from several queries; check, then call the store | store, image store, extraction | writers between the queries of a page; the item form's hidden fields | a page offers what the server accepts and hides nothing its reader holds; a link is saved as pasted |
| Templates (`web/templates`) | none | decide which control, card and message a page has | view | the conditions are written a second time, apart from the store's | every control works, every allowed operation is on a page, every value is explained |
| Owner-blind views (`view/view.go`, `store/items.go`) | none | build the pages an owner sees | store | which rows exist depends on claims | everything an owner sees is the same whatever is claimed |
| Image store (`imgstore`, `store/images.go`) | rows, content-addressed files, temporary files | store, add row, remove rows, prune | store, file system | no transaction covers rows and files; shared paths; crashes | a row has its whole file; no file is lost or left over |
| Link health (`linkcheck`) | a sweep in memory, `link_status`, `link_checked_at` | sweep, fetch, record | store, extraction | long gap between read and write; starvation by caps | a status was heard of the item's own link; everything due is looked at |
| Claim notices (`claims.go`, `handlers_claims.go`) | `claims_seen_at`, `edited_at`, `deleted_at`, a claim's `created_at` | count, mark seen, render | store | rows, last visit and this visit are three statements; stamps of one second, taken before a write waits its turn | a change is announced until a page has shown it, and then no more |
| Accounts (`handlers_auth.go`, `sessions.go`, `invites.go`, `setpassword.go`) | users, sessions, invites | log in, change password, redeem, promote | store, limiter | log-in against password change; one-time invites | old sessions end with the old password; an invite is used once |
| Login limiter (`auth/ratelimit.go`) | token buckets | allow, reset, sweep | clock | bucket eviction and refill | never more attempts than the budget |
| Backups (`cmd/wishbone/backup.go`) | snapshot files, image archive | snapshot, rename, copy, prune | database, files | crash between steps, images and rows drift | a named snapshot is complete and has its images |
| Migrations (`db/db.go`) | schema version | apply in order | SQLite | crash or two starts side by side | each applied once, in order |
| Fetching (`fetch`) | none | get with redirects, guard addresses | network | redirects to other addresses | every hop is guarded |
| Extraction (`extract`) | none | run tiers, merge, guard against dead pages | fetch | redirects, a streamed redirect and a canonical tag, one after the other | what fills in by itself is about the product asked for, or where the shop says it is |
| Service worker (`web/static/sw.js`) | caches | install, activate, fetch | browser | version changes | no private page is cached |
| Passwords, categories, configuration, command line | little or none | | | none concurrent | covered by unit tests; not modelled |

`PROJECT.json` lists the same components with their sources and status, and
under `hazards` every place, by line, where something of this kind bites.

## 2. Modules

| Module | Models | Lines of code it stands for |
|---|---|---|
| `Tables` | a SQL table as a function from keys to rows | |
| `ClaimLedger` | **abstract**: what claiming promises, counting the units themselves | |
| `WishStore` | lists, shares, items, claims and every store method that writes them | `store/lists.go`, `items.go`, `claims.go`, schema |
| `WishStoreProofs` | theorems about `WishStore`, its refinement of `ClaimLedger`, and `Pages` | |
| `Pages` | the pages about lists and claims: what each offers, what the server answers, and a list page built query by query beside writers | `view.go`, list, item and claim handlers, their templates, the audit report |
| `OwnerBlind` | one owner's requests against two worlds that differ in claims | item handlers, ordering, `view.go` |
| `OwnerBlindProofs` | theorems about `OwnerBlind` | |
| `ImageBlobs` | uploads, edits, removals step by step over rows and files, with crashes | `imgstore.go`, `images.go`, image handlers |
| `ImageBlobsProofs` | theorems about `ImageBlobs` | |
| `LinkHealth` | the sweep beside creations, edits and removals, with restarts | `linkcheck.go`, `SetLinkStatus`, the edit handler |
| `LinkHealthProofs` | theorems about `LinkHealth`, from the order of a batch up | |
| `Backup` | the backup loop and `-once` step by step beside a server that adds and removes pictures | `cmd/wishbone/backup.go` |
| `BackupProofs` | theorems about `Backup` | |
| `Accounts` | users, sessions and invites, statement by statement, with requests cut off anywhere | `handlers_auth.go`, `middleware.go`, `users.go`, `sessions.go`, `invites.go`, `setpassword.go` |
| `AccountPages` | the pages about accounts: what they offer, what the server answers | account, admin, login, register and help templates, middleware |
| `AccountsProofs` | theorems about `Accounts` and `AccountPages` | |
| `Lookup` | what a lookup makes of a page: tiers, merge, classifier, soft-404 guard | `internal/extract` |
| `ItemForm` | one owner's add and edit form, the lookup hop by hop, the saved item | `handlers_items.go`, `item_form.templ`, `fetch.go`, `service.go` |
| `ItemFormProofs` | theorems about `ItemForm` | |
| `ClaimNotices` | the number beside "Claimed", the claims page in several tabs, the owners' writes | `claims.go`, `handlers_claims.go` |
| `ClaimNoticesProofs` | theorems about `ClaimNotices` | |
| `MC...` | TLC instances: symmetry sets and the functions a cfg cannot write; `Backup` needs none | |

`Pages` extends `WishStore`, `AccountPages` extends `Accounts` and `ItemForm`
extends `Lookup`: each pair is the composition of what a page says with what the
tables, or the shop, answer, and its runs check both at once. `MCPages` runs the
store, its refinement of the ledger and the pages as one system.

### WishStore

`lists`, `shares`, `items`, `claims` are the four tables, keyed by id. Each
action is one method with its guards taken from the handler's authorisation
and from the SQL: `UpdateItem` carries `? >= claimed_qty AND deleted_at IS
NULL`, `DeleteItem` runs both statements of its transaction (mark, then delete
if unclaimed), `MoveItemToList` compares owners, `CreateClaim` re-checks
visibility and then does the conditional `UPDATE` of `claimed_qty`, and
`DeleteList` takes along what the foreign keys cascade to. A method that
returns an error writes nothing, so it is not a step. Order (`OwnerBlind`), link
status (`LinkHealth`), pictures (`ImageBlobs`) and the visits of the claims page
(`ClaimNotices`) are in other modules; notes and wording are left out.

### ClaimLedger and the refinement

`ClaimLedger` has no counter: `Take` compares the *number of units actually
taken* with the number wanted. `WishStore` implements it under the mapping
`offered <- items' quantity and liveness`, `taken <- claims`
(`ImplementsLedger`). What could go wrong is exactly the stored counter: if any
path let it drift, some guard would decide differently from the ledger's.

### Pages

A control is a link, button or form, a record named by what it does and carrying
what it posts; a page is a set of controls, built by operators named after the
handlers and templates (`Dashboard`, `ListView`, `ClaimsPage`, `EditItemForm`,
`Reports` for the audit report). `Accepted` is the server's side: the handler's
lookups and the guards of `WishStore`'s actions (`CanCreateClaim` and the others),
so that page and store are compared and not restated. `FreshControlsWork` goes
from the pages to the store and `NothingIsOutOfReach` from the store to the pages.
`building` is one list page under way: `Order` gives its queries, and `Write` is
any action of `WishStore` between them. Removed items come last in that order,
which is what `HeldClaimsAreShown` rests on.

### OwnerBlind

Owner-blindness is a property of pairs of runs, so the module carries two
worlds. The owner sends the same requests to both, the claimers act in each
alone, and the invariants compare what the owner can look at: list pages, cards
and replies (`BlindToClaims`) and the image route (`PicturesAgree`). The one leak the
documentation accepts, that a quantity cannot go below what is claimed, is
excluded by a guard that says so. `MoveItem` is two steps because the code
reads the page outside the transaction that writes positions.

### ImageBlobs

Every request is a small program: which of its steps come next is in `req[r]`,
together with its local variables. The files have three states (absent,
partial, full), and a descriptor remembers which file it was opened on, so that
two writers of one temporary path, a rename under an open descriptor and a kill
between any two steps are all there. `Crash` stops every request and
`WriteFails` one; rows and files stay.

### LinkHealth

Timestamps matter only by their order and by being older than `Age`; the model
keeps the order itself (`never`, `looked`, `old`). A batch is the set of its
places in that order (`Waiting`), and `spreadByHost` the sequence of those kept,
ordered by turn and then by host (`Before`). A sweep holds snapshots;
`Fetch` and `SetLinkStatus` are separate steps because the request happens
outside any transaction. The page is one of four answers: a product, 404/410,
no usable answer (refusal, error, timeout), or a page the soft-404 guard
distrusts. A new item takes the status its form posts (`Posted`), which stems from
the form's last lookup and may be about another URL than the one saved; an edit
writes the one it read back, beside whatever link it saves. `links` and `heard` are
history variables: which links an item has had, and what its form or a shop said
of which.

### Backup

The server is reduced to what a backup copies: its start (database first, image
directory later) and, per picture, file, row, removal of the row, removal of
the file. `ImageBlobs` has the finer steps of that side. A run is a program
counter per process and follows `backupCmd`: `StatDatabase` unlinks the old
`.tmp`, `Vacuum` takes its read transaction and starts writing, `VacuumDone` and
`RenameDatabase` end it; `StatImages` creates the archive, `ReadShard` and
`CopyFile` are the walk, with the gap in which a listed file can go, and
`Cleanup` is the deferred unlink; then each kind is listed and pruned. A failed
database copy does not stop the archive and neither stops the pruning, and
`EndRun` picks the interval or the retry delay. A file is known by what is in
it and by whether it is open, whole or torn; two writers of one path tear it.
`-list`, `-dump` and `-verify` read only: `newestMatching` is what they resolve
`latest` to. An upload's own `.tmp`, which a walk may list and then miss, fails
the archive as `CopyFails` does.

### Accounts and AccountPages

A request authenticates with the rows it read (`Authenticate`, `SignIn`) and then
writes one statement at a time: `Renew` slides a session's expiry, a password
change is `ChangePassword`, `SignOutEverywhere` and `SignBackIn`, and `Fail` ends a
request after any of them. `ResetPassword` is the command line beside the server.
A session remembers, for the properties, the password it was opened with. `cut`
is a history variable: whose change was stopped half-way. `AccountPages` has the
pages and answers in the manner of `Pages`, with the middleware's redirects.

### Lookup and ItemForm

An address is a site and path segments, a page is what each tier finds in it
field by field; both are constants, so that a shop can answer anything. `Result`
is the chain with its merge, the classifier and the soft-404 guard. `ItemForm`
follows a lookup: `LookItUp`, one `Redirected` per hop up to `MaxRedirects`, then
`Answered` or `Unanswered`; a streamed redirect or a canonical tag starts another
pass. `Conclude` builds the form that comes back; `form.is` are the flags the
template reads and `Flashes` the messages it shows for them. `UseTheseDetails`
accepts a doubted page, `SubmitInvalid` is validation sending the form back.

### ClaimNotices

One person's claims, the owners' writes and the tabs that person opens. A claims
page is `ReadClaims`, `ReadWatermark`, `MarkSeen` and `ShowPage`, or `FailPage`
before its mark. A write takes its stamp before it waits for the connection
(`Stamps`), so writes commit in another order than their stamps. `owed` is a
history variable, the claims with a change its claimer has yet to be told of. What
the code gives up is taken out of `owed` where it happens: a change stamped within
or before the second of the last visit or of the claim; one between a page's read
of its rows and its mark; one hidden by a later write with an older stamp; one
on a page that is lost after its mark. And a second tab may set the time of the
visit back, so that `AskedOnce` speaks of states where it has not (`marked` is the
latest visit). What is left is what the two properties promise.

## 3. What the runs show

`expect: pass`:

| Run | Instance | Shows |
|---|---|---|
| `store_pages` | 2 users, 2 lists, 2 items, 2 claims, quantity up to 2, 2 writes within a page | the schema holds (`SchemaHolds`), counter = claims (`CounterMatchesClaims`), `NoOverclaim`, `OwnerNeverClaims`, claims end only by release (`ClaimsEndByRelease`), `RemovalIsFinal`, refinement of the ledger (`ImplementsLedger`); every control works (`FreshControlsWork`), `NothingIsOutOfReach`, `BarsAgree`; a page built beside writers shows what its reader holds (`HeldClaimsAreShown`) |
| `owner_pages` | 2 lists, 3 items, positions to 4, quantity 1 | `TypeOK`; pages and replies equal in the two worlds, one request at a time (`BlindToClaims`) |
| `images` | 3 requests, 2 items, 2 pictures (one when requests run side by side), 4 rows, a kill or a failed write anywhere | `TypeOK`; rows have files (`RowsHaveFiles`, one request at a time), `FinalFilesAreComplete`, an item with a primary picture shows the one added last, and side by side every item ends with a primary one (`NewestIsShown`) |
| `link_sweeps` | 3 items, 2 hosts, batch 4, answers product, gone or nothing, a posted status; with 2 items an edit that may move the link and a restart | `TypeOK`; sweeps are spread over hosts (`NoHostDominates`); every stored status came with its item or was heard about a link it has had (`StatusWasHeard`) |
| `link_fair` | 2 items on one host, batch 1, answers gone, distrusted or nothing, an edit that may change the link, a restart | everything due is looked at (`DueIsChecked`); a link gone for good ends up dead (`GoneIsNoticed`) |
| `backup_daily` | the loop, 1 picture, `Keep` 1, an interval of 2, days of 3 and a clock to 6, runs that reach over midnight, one kill or failed write anywhere | `TypeOK`; dated files complete (`NamedIsWhole`), a good run restores with its pictures (`GoodRunRestores`), a fresh backup once nothing goes wrong (`BackupIsFresh`), `PruneSparesTheNewest`, `latest` never goes back (`LatestGoesForward`) |
| `accounts` | 3 users, 2 passwords, 2 invites, 2 requests, 2 sessions (2 invites or a second session, not both) | `TypeOK`; `InvitesAreSpentOnce`; an ended session stays ended (`SignedOutStaysOut`); no session outlives its password but in three named ways (`OldPasswordsFade`); `AccountControlsWork`, `NobodyIsLockedOut` |
| `item_form` | 8 addresses, up to 3 redirects | `TypeOK`; `LinkIsKept`; a form explains what its owner did not type, with one voice (`LookupIsExplained`); what fills in by itself is about the product asked for unless the shop itself says it is elsewhere (`OnlyTheShopMisleads`) |
| `claim_notices` | 1 item, 1 claim id, 2 tabs, 3 seconds, a wait of 1 | a change is announced until it has been shown (`NoticesArrive`), and then no more (`AskedOnce`) |

`expect: violation`, each a disagreement between what the repository says and
what the code does; the quoted lines are in `PROJECT.json` under `findings`:

| Run | The repository says | The counterexample |
|---|---|---|
| `owner_pictures` | removal looks the same to the owner | the image of a removed item is served to its owner exactly if it was claimed |
| `images_race` | a blob is deleted at reference count zero | a row is inserted between the count and the unlink |
| `backup_overlap` | a partial file never has a name a restore might pick up | `-once` renames the file the loop's run is still writing |

Smaller disagreements met while modelling, for which no run is kept:

* `DeleteList` hard-deletes claimed items, while `0001_init.sql:85` says never to;
* a request killed in `removeImages` after the primary row has gone leaves its item's
  other rows without a primary one; `ImagesForItem` then shows the oldest
  (`images.go:34-37`). The proof of `NewestIsShown` brought this up: without the
  condition on a primary row it takes four rows to refute;
* the image counter of the admin page (`health.go:69`) counts pictures of removed
  claimed items;
* a picture uploaded while its item is removed stays on disk for good
  (`handlers_items.go:519`), and two writers of one picture share a `.tmp` path,
  so that the final file is briefly truncated (`imgstore.go:195`);
* `linkcheck.go:277` records a distrusted page as suspect, while the package
  comment (lines 20-23) says it leaves the status alone; a new URL inherits the
  old one's status; the per-host cap is half of a batch of four, not a quarter;
  and A A A B C is asked as A B C A A, not alternating wherever possible;
* an edit writes back the link status it read at its start, over a verdict
  recorded meanwhile (`handlers_items.go:484`), against `extraction.md:521-522`;
  and a lookup's status is stored with whatever link the form ends up with, so that
  a new item can begin with a status of another URL, until its first sweep;
* `MoveItem` writes back positions computed from an earlier read
  (`items.go:276`); when a removal and a move to the list fall in between,
  positions tie in one of `OwnerBlind`'s worlds only, so that `BlindToClaims`
  does not hold with `Overlapping = TRUE`;
* the docs promise five redirects (`outbound-fetching.md:56`, `extraction.md:11`),
  the client follows four (`fetch.go:165`);
* a lookup's link status and field sources stay with a link changed afterwards,
  and an update keeps the status even when the link is emptied;
* a form sent back by validation has lost `link_status`, `field_sources`, the
  picture and the mark of a guessed title, so an accepted doubtful page is saved
  as unknown, against `extraction.md` ("stored with `link_status = suspect`
  regardless"), and a guessed title as the owner's own; a corrected title keeps
  the page as its source, against the comment in `parseItemForm`;
* the form says "Saved as" and the address landed on, and `extraction.md:33-35`
  that https is recorded, but what is saved is `NormalizeURL` of the link typed;
  "Use these details" restores the doubted link over one typed since, and applies
  attributes that were never displayed;
* after a redirect to another site nothing ties the page to the product asked for, and
  a streamed redirect is believed whatever it names (`extraction.md:305-308` says so);
  a canonical tag need only be on the same site and carry the identifying segment, so
  one that names a search or a collection is followed, and since the second page is
  judged against that address alone, its name and price fill in without a warning;
* a search or a collection shown in place of a dead product, at the product's own
  address, is known only by its `og:type`, its canonical tag or the lack of a price;
* the audit report reads items and claims in two queries without a transaction, so
  that a claim in between shows as drift that "should never happen"; for the same
  reason an item removed while a list page is built can appear on it twice;
* `respondItemCard` answers with a card whose claim form a hidden list refuses;
* the comment at `claims.go:500` knows one window in which a notice is missed, the
  second of the visit; `ClaimNotices` above lists the others;
* two administrators can revoke each other's rights (`handlers_misc.go:205`): a
  state without an administrator is reachable, against `invite-people.md:36-37` ("so
  the instance can never end up with none"); one's own row offers a revocation
  that is refused;
* "Invite revoked." is shown for an invite that was used meanwhile; the admin
  page's "used by" is blank for an account made between its two queries, and only
  the newest hundred invites are on it;
* a sign-in or a password change in flight survives, or undoes, a reset;
  `setpassword.go:27-28` says a temporary password is "good for exactly one
  sign-in", but it is good until changed; skipping the current password "exactly
  once" can happen in two concurrent requests; the account page says "imported
  from the old wishlist" after `set-password` too; and every link of the header
  leads a reader with a temporary password back to the account page;
* the help page tells an administrator that "there is no view anywhere" of claims
  on anybody's lists (`help.templ:489-492`), while the administrator's report shows
  them, those on own lists included when asked to;
* a backup run killed before its rename and not repeated on the same date leaves
  a `.tmp` no pruning matches (`backup.go:315`), against "the difference between
  a backup job and a disk-filling job" (`backup.go:97-98`); and the two kinds
  are renamed one after the other, so that a run that fails half-way leaves a
  newer database beside the older archive of its date.

### Bounds, and why they are enough

In `store_pages` two claims on an item of quantity two fill it, overfill it (if a
guard were wrong) and leave it in every order; either user can own either list, so
that an item moves between what a claimer sees and does not see while another is
removed. Two writes within a page are the least that move an item away
and bring it back, or remove one and free another. The claim core of this run is
proved for every size. In `OwnerBlind`, three items allow a removed row between
two live ones and after them, the two places where it could shift a position;
`MaxPosition` only cuts off histories of endless moves. Quantities stay at one
there: the refusal of a lower quantity is the accepted leak and is excluded
anyway, and `BlindToClaims` is proved for every size. In `ImageBlobs` two
requests on one file are the least that race, and a third can truncate what the
second is about to rename; `MaxRows` bounds arrivals, never a request under way,
and four rows leave two behind when a kill comes between the removal of the primary
one and of the rest.
In `link_sweeps`, a batch of four has a cap of two, so that three items on one host
exceed it; the edit and the restart take two items, whose verdicts can be confused,
and are cut off once there is a third (`EditAndRestartOfTwo`), which is there for the
order of a sweep only. In `link_fair` a batch of one makes one of two items wait; it
stays below the cap of two, so that the batch limit, not the cap, is what holds
items back there. In `accounts`, a request, the one that overtakes it and two
sessions of one person are what each race takes; two people who are not the first
can redeem two invites, or one twice if the code let them. The constraint
`SecondSessionOrInvite` leaves two invites beside one session, for the races of
registrations, or two sessions beside one invite, for those of passwords. The
eight addresses of `item_form` are a product of a shop under two paths, its sibling,
the collection in the product's own path, a search whose path carries the product's
name, a site's listing, a short link and an address the dialer refuses. The
collection, the search and the listing sell nothing (`NoProduct`) and may answer
for the product as any page may: the soft-404 cases. Three redirects go from the
short link to the shop and on within it. In `claim_notices` the
interplay is between one claim's times and the tabs; three seconds order a visit
before, at and after a change, and a wait of one lets a write be overtaken. Three
tabs, and two items with two claims, were checked as well; the run keeps the
smaller instance, since its properties are proved for every size. In `Backup` time
is counted in retry delays: an interval is two and a day three, `RunTime` 1 lets a run
cross midnight or a retry, and `MaxTime` 6 reaches a third date, so that with `Keep`
1 pruning has something to do twice, and outlasts both bounds of `BackupIsFresh`:
a database copy or an archive of the first run is too old by then, so that a loop
that stops after its first success, or skips every other run, is caught. One picture
goes through its whole life; the archive treats pictures alike. In `backup_overlap`
one instant is enough. All these are *small* instances; section 4 says what is proved
for every size.
Symmetry sets are declared only for runs with safety properties over constants
the specification treats alike. Deadlock is checked everywhere except in
`link_fair`, where a world in which the owner removed every item has nothing left
to do, in `accounts`, where every session and invite may be spent, and for
`Backup`, whose clock stops at `MaxTime`.

### Fairness

Only `LinkHealth!FairSpec` has any. Weak fairness of `StartSweep` is the
ticker of `Run`; of `Fetch`, the client's timeout, after which `check` goes on;
of `SetLinkStatus`, that the goroutine runs on after an answer; of
`TimePasses`, that clocks advance; of `UpdateItem`, that a started handler ends.
Restarts and edits are bounded in number, so the liveness properties say what
happens once they stop: a process killed before every sweep would check nothing.

`Backup` has a clock instead. `BackupIsFresh` says by when there must be a
backup, which needs no fairness but two assumptions built into `Tick`: a timer
that is due fires before the clock moves on, and a run takes at most `RunTime`.
`quiet` is a history variable: since when nothing failed and nobody was killed.

## 4. What is proved

`WishStoreProofs` proves, with TLAPS, for every set of users, lists, items and
claims and every `MaxQuantity \in Nat \ {0}` (`MaxQuantityAssumption`, the only
assumption):

* `SchemaKept` (types, CHECKs and foreign keys), `CounterCorrect`,
  `NeverOverclaimed`, `OwnerHoldsNoClaim`: `Spec => []Inv` for the four invariants
  of the claim core in `store_pages`;
* `ClaimsEndOnlyByRelease`, `RemovalFinal`: its two action properties;
* `ClaimsVisible` (a claim is made only by somebody who sees the list) and
  `ClaimedItemsKept`, two action properties that are proved and have no run;
* `LedgerImplemented`: `Spec => ImplementsLedger`;
* `PagesRunTheStore`: `PagesSpec => Spec`, so that all of this holds beside pages;
* `PageShowsWhatIsHeld`, `ThreeCountsAgree`, `NothingIsRefused` and
  `EveryRightHasAPage`: `PagesSpec => []Inv` for `HeldClaimsAreShown`, `BarsAgree`,
  `FreshControlsWork` and `NothingIsOutOfReach`.

The inductive invariant is `IInv == TypeOK /\ References /\ Counted /\
OwnerNeverClaims /\ FiniteClaims`. None of the interesting conjuncts is
inductive alone. `NoOverclaim` needs `Counted` (the counter is the number of
units) and `TypeOK`'s `claimed_qty <= quantity`. `Counted` needs `References`,
or a new item could find old claims on its id, and needs `FiniteClaims`, since
`Cardinality` says nothing of infinite sets and `ClaimIds` may be infinite.
`OwnerNeverClaims` needs `References` for the same reason as `Counted`: a list
id taken again must not find items.

The sum of the claims' quantities is the cardinality of `ClaimUnits(i)`, one
pair per unit, so that no recursion is needed: `UnitsPut`, `UnitsDrop`,
`UnitsSame`, `UnitsNone` say how the set changes when a claim is added, ended,
left alone, or absent, and every action reduces to one of them. The refinement
proof has one lemma per action that maps to a ledger step (`CreateItemOffers`,
`UpdateItemAmends`, `DeleteItemCloses`, `CreateClaimTakes`,
`ReleaseClaimGivesBack`, `DeleteListErases`), the others being stutters, and
uses `Counted` to turn the guard on the counter into the ledger's guard on the
units.

For a page under way the invariant is `BuildingOK`: whatever its reader has held
since the first query is, after each query, either in what that query found or
still to be found. The step that matters is an item the first query missed, on
another list or already removed. If it is held on this list at the end it must be
removed (`HeldOK`'s second conjunct), and since removal is final the last query
finds it; were the removed items asked for first, it would be missed by both. For
`BarsAgree` the dashboard's sum over the stored counters and the page's sum over
cards and their claims are brought item by item to the same number by `Counted`;
there are finitely many items (`FiniteItems`), which the sums need.

`NothingIsRefused` goes through the pages control by control (`AcceptedIs` states the
server's answer to each kind, and one lemma per part of a page that all of it is taken,
`Takes`). The claim form is where page and store could disagree: its number goes up to
a quantity less a count of claims, the store compares with the counter, and `CardsLeft`
brings them together by `Counted`. `EveryRightHasAPage` needs `OwnerNeverClaims` (a
claim on an own item would be on no page) and `References`.

`BackupProofs` proves, for every set of pictures, interval, day length, `Keep`,
run time and all bounds (`BackupAssumption`):

* `TypeCorrect`: `Spec => []TypeOK`;
* `PruningSparesTheNewest`: `Spec => PruneSparesTheNewest`, with any overlap of
  `-once` and the loop. Its invariant `DoomedAreOld` says that each name a run is
  going to remove has `Keep` newer ones. It survives every removal: if `d` goes
  and is newer than a doomed `c`, then `d` was doomed itself, and its `Keep` newer
  ones are newer than `c` too (`DoomedStayOld`); everything else only adds
  backups (`OnlyPruningRemoves`, `NewerGrows`);
* `NamedStaysWhole`: `Spec => []NamedIsWhole` **if `Overlap = FALSE`**, which
  `backup_overlap` shows to be necessary. `WholeIInv` adds that at most one process
  is in a run (`Alone`), that any open file is the one that process is writing, at
  the path of its date (`OpenIsWritten`), and that the process finds it there
  (`HasItsFile`); so what is renamed is whole;
* `LatestNeverOlder`, `GoodRunsRestore`, `BackupsAreFresh`: `LatestGoesForward`,
  `GoodRunRestores` and `BackupIsFresh`, under the same condition, which is what
  gives the copy of a date one writer.

These three rest on one table of what a step of a run can do (`StepsAre`): open a
copy, go on with it, rename it, give it up, pass on, remove an old one, end, be
killed. `DatesIInv` adds to `WholeIInv` that what a run carries is newer than
everything named (`CarriesNewer`), that no date after the run's own is taken
(`LatestIsOwn`), that later dates are later copies (`InOrder`), and that no name
about to be removed is the last (`DoomedAreNotLast`). So a rename or a removal moves
`latest` only forward, and "there is a copy from t or later" is never lost
(`GoodStays`).

`PicturesIInv` says why a database and an archive made at different moments fit: a
picture in some named copy of the database that still is a row is in the archive
being made or still to come in its walk (`Archived`), since nothing becomes a row
twice (`RowsFall`); and when the archive is renamed nothing is to come
(`NothingLeft`). From then on the copy of that date is `Safe`, and stays so: a later
archive has the picture for the same reason, and pruning leaves a later one.

`FreshIInv` is the argument about time. While the loop rests, its next run is `Due`:
there is a copy that will be at most an interval and a run old, or something went
wrong recently enough. `Promise` carries that through the run: before its copy the
run began in time; after it, there is a copy made since the run began, or the trouble
is younger than that, and then, for the database, the run is not `ok` and the shorter
wait follows. `Timely` bounds the clock by the timer and the length of a run. A copy
of the images is promised only once the server serves them (`Serves`).

`OwnerBlindProofs` proves, for every set of worlds and lists, any number of items
and positions and every quantity (`OwnerBlindAssumption`), `TypesHold` and
`OwnerStaysBlind`: `Spec => []BlindToClaims`, both **if `Overlapping` is false**; with
two tabs it does not hold (section 3). `BlindToClaims` is about pages; `Inv` is about
the rows they are made from. Two tables are `Alike` if the same items are live, with the
same cards, and any two of a list come in the same order. The positions may differ,
and do: one world counts a removed row that the other never kept. Three arguments
cover the requests: an edit or a removal leaves the order of the rest alone
(`FewerKeepAlike`); a new or moved item goes behind everything on its list in
either world, by whatever position (`LastKeepsAlike`, from `NextIsLast`); and a
move writes ranks, which alike pages share (`AlikePages`), over the page as it
still is (`MoveOK`), which is where one request at a time is needed. A claim
changes nothing that `Alike` looks at (`ClaimUnseen`). The assumption that an edit is
answered the same in all worlds is the guard of `UpdateItem`, the accepted leak.

`AccountsProofs` proves, for every set of users, passwords, invites and requests
and every number of sessions (`UsersAssumption`, `BoundsAssumption`), `TypesHold`,
`InvitesSpentOnce`, `SignedOutForGood` and `PasswordsFade`. The invariant `Inv`
adds what the handlers rely on without saying so: whoever used an invite has an
account, so that nobody still to come is taken for its user; a request about to
store a password or open a session has one; and every session is `Fading` or in
step with its account, which is `OldPasswordsFade` for requests under way too.
Session tokens are never taken again, which is all `SignedOutForGood` needs of the
invariant beside `Renew` updating rows and never inserting them. `PagesWork` and
`NobodyLockedOut` prove `AccountControlsWork` and `NobodyIsLockedOut` from the same
`Inv`: every control on a page is one of the few kinds `Offered` lists, each under the
condition its template checks (`PagesOffer`), and the server's answer to each kind
follows from that condition and the tables (`OfferedWorks`).

`ImageBlobsProofs` proves, for every set of requests, items and pictures and any number
of rows, `TypesHold`, `RowsKeepTheirFiles`, `NoFileStaysShort`, `NewestWins`, and
`AloneDeletesOnlyUnreferenced`, which says that what `images_race` refutes takes two
requests. `Inv` has what the position of a handler says of its locals (`Shapes`), room
for everybody's row (`RoomLeft`), and:

* `OneAtATime`: the one request under way relies on files as it left them, and on a
  count of zero for the picture it unlinks, though others may have been killed anywhere;
* `BeingWritten`: side by side, whoever left a file short is still writing to it, under
  whichever name it has by then, so that no file is short when all are done;
* `PrimaryIsLast`, `DoomedFromTheFirst`, `PrimaryOrDoomed`: a primary row is the last of
  its item, a request that removes rows removes an initial part of them, and an
  item without a primary row is one whose rows somebody is about to remove.

`LinkHealthProofs` proves, for every batch, any number of items, edits and restarts
(`LinkHealthAssumption`), `TypesHold`, `HostsTakeTurns` and `StatusesWereHeard`. The
first part is about `spreadByHost` alone: a place's turn is its rank among those of
its host (`TurnIsRank`), `Before` is a strict order of those kept (`RoundIsStrict`),
and in that order one host gets two turns in a row only when no other is left
(`SpreadAlternates`). `NoHostDominates` is then about what remains of a sweep, which
loses its first item at every step. `HeardInv` says that each status
was heard about its item and a link of it wherever it is carried: in the row, the
snapshots of a sweep, an edit under way, the answer just given. It assumes only that
`heard` remembers every answer but "nothing"; edits may move links. That a verdict on
an earlier link may stand beside a later one is what the code does (section 3), and
what `GoneIsNoticed` says of it is only model-checked.

`ItemFormProofs` proves, for every set of addresses, pages and pasted links, any
`Product` for which, among the addresses that sell something, an identifying segment
leads to one product on its site (`SegmentsIdentify`) and an address of the usual
product form sells something (`ProductPathsSell`), and any `MaxRedirects` (`AddressesAssumption`,
`PastedAssumption`, `ContentsAssumption`, `MaxRedirectsAssumption`): `TypesHold`,
`LinkKept`, `NoOwnMistake` and `OneVoice`. Addresses that sell nothing, such as
searches and parent collections, may share any segment with a product and may be where
a redirect ends. `Inv` joins `FormOK`, `ItemOK` and
`LookupOK`; `LookupOK` says what a pass has in hand (`InHand`): a
streamed redirect is followed only from a page without a name or a price, and a
canonical tag only to an address on the same site that has the segment by which the
one asked for is identified. That the last segment and the
first tier exist is a least or greatest number, by well-founded induction.
`OneVoice` lists the verdicts a lookup can end with (`Verdicts`) and shows each
explained by one message (`Explained`).

`ClaimNoticesProofs` proves, for every set of items, claims and tabs and any
length of time (`TimesAssumption`), `TypesHold`, `NoticesDoArrive` and
`NothingAskedTwice`. Neither property is inductive. `Inv` has, beside types:

* `TabsOK`: a claim untouched since a page read it is on the page as it is stored,
  and nothing the page knows is later than its visit;
* `Arriving`: what is owed counts as news by the stored visit or on a page that
  is marked; `Reading`: the same of a page that is about to be marked, by the visit
  it read, which is what `MarkSeen` turns into `Arriving` when it moves the time;
* `Once`: what is later than the *latest* visit is owed and on no page. It is this,
  and not `AskedOnce`, that survives a tab setting the time back.

Every write by an owner or a claimer reduces to one lemma (`WriteKeeps`), in which
only the claims it touches matter, and every page's step but the mark and the
arrival to another (`TabKeeps`).

Only model-checked: liveness under fairness (`DueIsChecked`, `GoneIsNoticed`), which
is beyond the prover. The properties of `Backup` other than
types and `PruneSparesTheNewest` are proved without overlap, as they are checked: with
it, `backup_overlap` shows what goes wrong. `BlindToClaims` is proved, as it is
checked, for one request of the owner at a time.

## 5. What is not modelled, and why

* **Login limiter**: one map under one mutex; what a call answers is a function of
  one key's history, with floating-point refills, which unit tests cover. A
  sign-in it turns away writes nothing.
* **Migrations**: a loop at start; each migration and its row in
  `schema_migrations` are one transaction.
* **Service worker**: it keeps only files under `/static/`, by URLs that carry the
  build's version; its handlers share no other state.
* **Passwords and tokens**: cryptographic functions without state.
* **Categories, configuration, command line**: reference data and start-up.
* **Parsers of page formats**, image decoding and scaling: sequential, without
  shared state, covered by unit tests. `Lookup` starts from what they find.
* **SQLite**: transactions are taken as atomic and foreign keys as enforced, which
  `db.go` turns on for every connection.

Within the modelled parts: titles, prices, notes and wording, except where an item
form tells them apart; timestamps except where an order depends on them; decoding
failures of uploads, which end the request before it touches state; TLS, headers,
time and size limits of a fetch, which are one outcome, no answer.

Four hazards have no property, each with its reason in `PROJECT.json`: a stale page
written back by a move beside another request of the owner (`items.go:276`), a picture
added while its item is removed (`handlers_items.go:519`), the temporary file of a
killed backup (`backup.go:315`), and administrators who revoke each other
(`handlers_misc.go:205`). Each is a state the code can reach, listed in section 3.

## 6. Plan

What is left, in order:

1. `ClaimNotices` with the header's two queries apart, and with several claimers
   beside `WishStore`.
2. The limiter's bucket as a pure function against an abstract budget, and the
   sequence numbers of migrations, should either gain state that is shared.
