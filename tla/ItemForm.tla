------------------------------ MODULE ItemForm ------------------------------
(***************************************************************************)
(* One owner filling in one item: the add and edit forms, the lookup that  *)
(* fills them in from a link, and the item they save.                      *)
(*                                                                         *)
(* A lookup asks the shop hop by hop, and the shop may answer anything.  It *)
(* answers with a whole new form, so that what is typed while it runs is   *)
(* gone, as if it had been typed before.  The edit form has no lookup.     *)
(* Lookups are switched on; the name, the price, the link and its status   *)
(* are the fields kept here.                                               *)
(***************************************************************************)
EXTENDS Lookup, FiniteSets

CONSTANTS
    Pasted,         \* the links the owner pastes
    Denied,         \* sites at addresses the dialer refuses
    MaxRedirects,   \* Options.MaxRedirects
    Contents,       \* the pages shops have
    Product,        \* Product[a]: the product a is the address of, or
    NoProduct       \* none: a collection, a search page

ASSUME MaxRedirectsAssumption == MaxRedirects \in Nat \ {0}

ASSUME PastedAssumption == Pasted \subseteq [to: Addresses, crumbs: BOOLEAN]

ASSUME ContentsAssumption == Contents \subseteq Page

Sells(a) == Product[a] # NoProduct

\* On one site a segment that identifies a product leads to no other product; to
\* pages of no product it may lead.
ASSUME SegmentsIdentify ==
    \A a, b \in Addresses :
        a.site = b.site /\ Sells(a) /\ Sells(b) /\ PathContains(b.path, IdentifyingSegment(a.path))
            => Product[a] = Product[b]

\* What stands below /products/ is a product.
ASSUME ProductPathsSell == \A a \in Addresses : IsProductPath(a.path) => Sells(a)

VARIABLES
    form,       \* the form on the screen
    lookup,     \* the lookup under way
    item,       \* the saved item
    meant       \* history: the link the owner last asked for, typed or picked

vars == <<form, lookup, item, meant>>

\* A link as pasted: an address with or without tracking parameters; nothing; or
\* something that is no web address.
NoLink  == [to |-> NoAddress, crumbs |-> FALSE]
BadLink == [to |-> NoAddress, crumbs |-> TRUE]
Links   == [to: Addresses, crumbs: BOOLEAN] \cup {NoLink, BadLink}

NormalizeURL(link) == link.to

LinkStatuses == {"unknown", "ok", "suspect", "dead"}
Titles == {"none", "page", "slug", "typed"}
Prices == {"none", "page", "typed", "junk"}

NoFound == [fields |-> {}, source |-> "none", link |-> NoLink, status |-> "unknown",
            canonical |-> NoAddress, page |-> NoAddress]

\* What the form says of itself.
Marks == {"fetch error", "not a product", "blocked", "suspect", "accepted",
          "extracted", "nothing found", "title guessed", "invalid"}

\* page is where the values come from that were read from a page.
BlankForm == [kind |-> "add", link |-> NoLink, url |-> NoAddress, title |-> "none",
              price |-> "none", source |-> "none", status |-> "unknown",
              page |-> NoAddress, found |-> NoFound, is |-> {}]

NoForm == [BlankForm EXCEPT !.kind = "none"]
NoItem == [link |-> NoLink, url |-> NoAddress, title |-> "none", price |-> "none",
           source |-> "none", status |-> "unknown", page |-> NoAddress]

Idle == [pc |-> "idle", link |-> NoLink, asked |-> NoAddress, at |-> NoAddress,
         hops |-> 0, pass |-> "first", got |-> NoResult]

-----------------------------------------------------------------------------
(* The form a lookup answers with.                                         *)

\* Nothing could read the page: the name is guessed from the address, unless a
\* doubted page has one to offer.
SuggestTitleFromAddress(f) ==
    IF f.title = "none" /\ "suspect" \notin f.is /\ TitleFromURL(f.url)
    THEN [f EXCEPT !.title = "slug", !.source = "url", !.is = @ \cup {"title guessed"}]
    ELSE f

\* handlePreviewItem begins with a new form: only the link is carried over.
Asked(link) == [BlankForm EXCEPT !.link = link, !.url = NormalizeURL(link)]

NotAProduct(link) == [Asked(link) EXCEPT !.is = {"not a product"}]

Failed(link) == SuggestTitleFromAddress([Asked(link) EXCEPT !.is = {"fetch error"}])

\* What a doubted page said, for the owner to judge; nothing if there is nothing.
FoundDetails(link, got) ==
    LET canonical == SameSiteAlternative(got.canonical, got.landed)
    IN  IF got.fields \cap {"title", "price", "details"} = {} /\ canonical = NoAddress
        THEN NoFound
        ELSE [fields |-> got.fields, source |-> got.source, link |-> link,
              status |-> got.status, canonical |-> canonical, page |-> got.landed]

FromPage(has, field) == IF field \in has THEN "page" ELSE "none"

\* Refused, held back, or filled in; a page without a name and a price says so.
Previewed(link, got) ==
    LET f == [Asked(link) EXCEPT !.url = got.landed, !.source = got.source,
                                 !.status = got.status]
        empty == got.fields \cap {"title", "price"} = {}
    IN  SuggestTitleFromAddress(
          IF got.blocked THEN [f EXCEPT !.is = {"extracted", "blocked"}]
          ELSE IF got.suspect
          THEN [f EXCEPT !.is = {"extracted", "suspect"}, !.found = FoundDetails(link, got)]
          ELSE [f EXCEPT !.title = FromPage(got.fields, "title"),
                         !.price = FromPage(got.fields, "price"),
                         !.page = got.landed,
                         !.is = {"extracted"} \cup (IF empty THEN {"nothing found"} ELSE {})])

\* Faulty variant: the accepted form points at the page, not at the link.
AcceptedAtPage(found) ==
    [BlankForm EXCEPT
        !.link   = [to |-> found.page, crumbs |-> FALSE],
        !.url    = found.page,
        !.title  = FromPage(found.fields, "title"),
        !.price  = FromPage(found.fields, "price"),
        !.page   = found.page,
        !.source = found.source,
        !.status = IF found.status = "dead" THEN "dead" ELSE "suspect",
        !.is     = {"extracted", "accepted"}]

\* handleAcceptSuspectPreview: what was held back and carried in the warning, and
\* a status that is no better for it.
Accepted(found) ==
    [BlankForm EXCEPT
        !.link   = found.link,
        !.url    = NormalizeURL(found.link),
        !.title  = FromPage(found.fields, "title"),
        !.price  = FromPage(found.fields, "price"),
        !.page   = found.page,
        !.source = found.source,
        !.status = IF found.status = "dead" THEN "dead" ELSE "suspect",
        !.is     = {"extracted", "accepted"}]

-----------------------------------------------------------------------------
(* What the form shows about a lookup: each with where the help explains it. *)

\* Faulty variant: an accepted lookup counts as believed.
BelievedUnlessHeldBack(f) == "extracted" \in f.is /\ f.is \cap {"suspect", "blocked"} = {}

BelievedLookup(f) ==
    "extracted" \in f.is /\ f.is \cap {"suspect", "blocked", "accepted"} = {}

Flashes(f) ==
    {m \in {"fetch error", "not a product", "blocked", "suspect", "accepted"} : m \in f.is}
        \cup (IF BelievedLookup(f)
              THEN {IF "nothing found" \in f.is THEN "nothing found" ELSE "filled in"}
              ELSE {})

\* The two buttons of the warning.
OffersFound(f) == "suspect" \in f.is /\ f.found # NoFound
OffersCanonical(f) == OffersFound(f) /\ f.found.canonical # NoAddress

-----------------------------------------------------------------------------
(* The owner and the form.                                                 *)

\* handleNewItemForm, empty or with the link a phone shared.
NewItemForm(link) ==
    /\ form = NoForm /\ lookup = Idle /\ item = NoItem
    /\ form' = [BlankForm EXCEPT !.link = link]
    /\ meant' = link
    /\ UNCHANGED <<lookup, item>>

\* handleEditItemForm.
EditItemForm ==
    /\ form = NoForm /\ lookup = Idle /\ item # NoItem
    /\ form' = [BlankForm EXCEPT !.kind = "edit", !.link = item.link, !.url = item.url,
                    !.title = item.title, !.price = item.price, !.source = item.source,
                    !.status = item.status, !.page = item.page]
    /\ meant' = item.link
    /\ UNCHANGED <<lookup, item>>

TypeTitle ==
    /\ form # NoForm /\ form.title # "typed"
    /\ form' = [form EXCEPT !.title = "typed"]
    /\ UNCHANGED <<lookup, item, meant>>

TypePrice(p) ==
    /\ form # NoForm /\ p # "page"
    /\ form' = [form EXCEPT !.price = p]
    /\ UNCHANGED <<lookup, item, meant>>

TypeLink(link) ==
    /\ form # NoForm
    /\ form' = [form EXCEPT !.link = link]
    /\ meant' = link
    /\ UNCHANGED <<lookup, item>>

Cancel ==
    /\ form # NoForm
    /\ form' = NoForm
    /\ meant' = item.link
    /\ UNCHANGED <<lookup, item>>

\* Faulty variant: only the name is checked.
InvalidUnlessNamed == form.title = "none"

\* The values of the re-rendered form are the ones submitted; what was hidden in
\* it is not among them.
Invalid == form.title = "none" \/ form.price = "junk"

SubmitInvalid ==
    /\ form # NoForm /\ Invalid
    /\ form' = [BlankForm EXCEPT !.kind = form.kind, !.link = form.link,
                    !.title = form.title, !.price = form.price, !.page = form.page,
                    !.is = {"invalid"}]
    /\ UNCHANGED <<lookup, item, meant>>

\* Without a link there is nothing a status could be about.
LinkStatusValue(status, link) == IF link = NoLink THEN "unknown" ELSE status

\* parseItemForm: the address is normalized again, and a name without a source
\* is the owner's.
Parsed(f) ==
    [link |-> f.link, url |-> NormalizeURL(f.link), title |-> f.title, price |-> f.price,
     source |-> IF f.source = "none" THEN "user" ELSE f.source,
     status |-> LinkStatusValue(f.status, f.link), page |-> f.page]

CreateItem ==
    /\ form.kind = "add" /\ ~Invalid
    /\ item' = Parsed(form)
    /\ form' = NoForm
    /\ UNCHANGED <<lookup, meant>>

\* An edit leaves the status as it is stored.
UpdateItem ==
    /\ form.kind = "edit" /\ ~Invalid
    /\ item' = [Parsed(form) EXCEPT !.status = item.status]
    /\ form' = NoForm
    /\ UNCHANGED <<lookup, meant>>

-----------------------------------------------------------------------------
(* A lookup.                                                               *)

\* handlePreviewItem up to the first request: what needs none is answered.
Preview(link) ==
    /\ meant' = link
    /\ UNCHANGED item
    /\ IF link = NoLink \/ link = BadLink \/ ClassifyNonProduct(NormalizeURL(link))
       THEN /\ form' = CASE link = NoLink -> BlankForm
                         [] link = BadLink -> Failed(link)
                         [] OTHER -> NotAProduct(link)
            /\ UNCHANGED lookup
       ELSE /\ form' = NoForm
            /\ lookup' = [Idle EXCEPT !.pc = "asking", !.link = link,
                                !.asked = NormalizeURL(link), !.at = NormalizeURL(link)]

LookItUp(link) == form.kind = "add" /\ lookup = Idle /\ Preview(link)

LookUpCanonical ==
    /\ OffersCanonical(form)
    /\ Preview([to |-> form.found.canonical, crumbs |-> FALSE])

UseTheseDetails ==
    /\ OffersFound(form)
    /\ form' = Accepted(form.found)
    /\ meant' = form.found.link
    /\ UNCHANGED <<lookup, item>>

\* The next pass asks another address from the start.
Ask(pass, address, got) ==
    lookup' = [lookup EXCEPT !.pass = pass, !.asked = address, !.at = address,
                             !.hops = 0, !.got = got]

\* Service.Fetch after a pass: ask a second address, or answer with what it got.
Conclude(pass, got) ==
    LET streamed  == IF pass = "first" THEN StreamedRedirectFollowUp(got) ELSE NoAddress
        canonical == IF pass = "canonical" THEN NoAddress ELSE CanonicalFollowUp(got)
    IN  IF streamed # NoAddress
        THEN Ask("redirect", streamed, got) /\ UNCHANGED form
        ELSE IF canonical # NoAddress
        THEN Ask("canonical", canonical, got) /\ UNCHANGED form
        ELSE /\ form' = Previewed(lookup.link, got)
             /\ lookup' = Idle

\* The shop answers with a redirect, which the client follows: the limit counts
\* the requests made, the first among them.
Redirected(to) ==
    /\ lookup.pc = "asking"
    /\ lookup.at.site \notin Denied
    /\ lookup.hops + 1 < MaxRedirects
    /\ lookup' = [lookup EXCEPT !.at = to, !.hops = @ + 1]
    /\ UNCHANGED <<form, item, meant>>

\* The shop answers with a page.
Answered(status, page) ==
    LET new == Result(lookup.asked, lookup.at, status, page)
        got == IF lookup.pass = "canonical" /\ ~ImprovesOn(new) THEN lookup.got ELSE new
    IN  /\ lookup.pc = "asking"
        /\ lookup.at.site \notin Denied
        /\ Conclude(lookup.pass, got)
        /\ UNCHANGED <<item, meant>>

\* No answer, a refused dial, too many redirects, or something that is no page.
\* A second address that cannot be read changes nothing.
Unanswered ==
    /\ lookup.pc = "asking"
    /\ IF lookup.pass = "first"
       THEN form' = Failed(lookup.link) /\ lookup' = Idle
       ELSE Conclude(lookup.pass, lookup.got)
    /\ UNCHANGED <<item, meant>>

-----------------------------------------------------------------------------

Init ==
    /\ form = NoForm
    /\ lookup = Idle
    /\ item = NoItem
    /\ meant = NoLink

Owner ==
    \/ \E link \in Pasted \cup {NoLink, BadLink} :
          NewItemForm(link) \/ TypeLink(link) \/ LookItUp(link)
    \/ EditItemForm
    \/ TypeTitle
    \/ \E p \in Prices : TypePrice(p)
    \/ Cancel
    \/ SubmitInvalid \/ CreateItem \/ UpdateItem
    \/ LookUpCanonical \/ UseTheseDetails

Shop ==
    \/ \E to \in Addresses : Redirected(to)
    \/ \E status \in Statuses, page \in Contents : Answered(status, page)
    \/ Unanswered

Next == Owner \/ Shop

Spec == Init /\ [][Next]_vars

-----------------------------------------------------------------------------
(* Properties.                                                             *)

\* The variables' types; a form is on the screen or a lookup is running, and
\* only a doubted page has something to offer.
TypeOK ==
    /\ form \in [kind: {"none", "add", "edit"}, link: Links,
                 url: Addresses \cup {NoAddress}, title: Titles, price: Prices,
                 source: Range(Tiers) \cup {"none", "url", "user"}, status: LinkStatuses,
                 page: Addresses \cup {NoAddress},
                 found: [fields: SUBSET Fields, source: Range(Tiers) \cup {"none"}, link: Links,
                         status: LinkStatuses, canonical: Addresses \cup {NoAddress},
                         page: Addresses \cup {NoAddress}],
                 is: SUBSET Marks]
    /\ form.kind = "none" => form = NoForm
    /\ form.found # NoFound => "suspect" \in form.is
    /\ lookup # Idle => /\ form = NoForm /\ lookup.pc = "asking"
                       /\ lookup.asked \in Addresses /\ lookup.at \in Addresses
                       /\ ~ClassifyNonProduct(NormalizeURL(lookup.link))
                       /\ lookup.hops < MaxRedirects
    /\ item # NoItem => item.title # "none" /\ item.price # "junk"
    /\ meant \in Links

\* The link is saved as the owner pasted it, typed it or picked it last, whatever
\* the lookups in between landed on, failed at or were talked into: every form
\* shows it and every save stores it.
KeepsTheLink ==
    /\ form' # NoForm => form'.link = meant'
    /\ item' # item => item'.link = meant

LinkIsKept == [][KeepsTheLink]_vars

\* What a form holds that its owner did not type is explained, by exactly one
\* message, and a guessed name is called a guess; a form never speaks with two
\* voices.  (A form sent back for a mistake talks of the mistake only.)
LookupIsExplained ==
    /\ Cardinality(Flashes(form)) <= 1
    /\ (form.kind = "add" /\ "invalid" \notin form.is) =>
          /\ (\/ form.title \in {"page", "slug"} \/ form.price = "page"
              \/ form.source # "none" \/ form.status # "unknown") => Flashes(form) # {}
          /\ form.title = "slug" => "title guessed" \in form.is

FillsIn(f) == f.title = "page" \/ f.price = "page"

\* The address taken for the product's own: the one the owner asked for, unless
\* the shop had no name and no price there and streamed a redirect to another,
\* which is believed whatever it names.  No canonical tag is believed so.
Believed == IF lookup.pass = "canonical" THEN lookup.got.asked ELSE lookup.asked

\* Where the lookup arrives, and where it was when it followed a canonical tag,
\* is the site of a.
StaysOnSite(a, page) ==
    /\ page.site = a.site
    /\ lookup.pass = "canonical" => lookup.got.landed.site = a.site

\* No sibling's page, and for an address that is plainly a product's no collection
\* it slid to either.  A canonical address is not held against the one asked for
\* any more: if it sells nothing, nothing is said here of what fills in.
AboutTheProductAt(a, page) ==
    Sells(a) /\ IdentifyingSegment(a.path) # "none" /\ StaysOnSite(a, page) =>
        /\ Sells(page) /\ (lookup.pass = "canonical" => Sells(lookup.asked)) =>
              Product[page] = Product[a]
        /\ lookup.pass # "canonical" /\ IsProductPath(a.path) => Sells(page)

\* What fills in by itself is about the product at the address the owner asked
\* for, at the end of however many redirects and second addresses, unless the shop
\* itself said that the product is elsewhere: by a redirect to another site, or by
\* one it streamed; of the latter's target the same holds then.
ConfidentAboutTheProduct ==
    (lookup # Idle /\ lookup' = Idle /\ FillsIn(form')) =>
        /\ lookup.pass = "first" => Believed = NormalizeURL(lookup.link)
        /\ AboutTheProductAt(Believed, form'.page)

OnlyTheShopMisleads == [][ConfidentAboutTheProduct]_vars
=============================================================================
