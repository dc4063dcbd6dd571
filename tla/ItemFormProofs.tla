--------------------------- MODULE ItemFormProofs ---------------------------
(***************************************************************************)
(* Proofs about ItemForm: a lookup fills in nothing but the product that    *)
(* was asked for, unless the shop itself names another, and the link        *)
(* survives it, for every set of addresses, every page a shop may answer    *)
(* with and every limit on redirects.                                       *)
(***************************************************************************)
EXTENDS ItemForm, FiniteSetTheorems, WellFoundedInduction, TLAPS

-----------------------------------------------------------------------------
(* Paths.                                                                  *)

\* Every nonempty set of naturals has a least element.
LEMMA Least ==
    ASSUME NEW S \in SUBSET Nat, S # {}
    PROVE  \E x \in S : \A y \in S : x <= y
<1>1. PICK x \in S : \A y \in S : ~ (<<y, x>> \in OpToRel(<, Nat))
  BY NatLessThanWellFounded, WFMin
<1>2. \A y \in S : <<y, x>> \notin {p \in Nat \X Nat : p[1] < p[2]}
  BY <1>1, Zenon DEF OpToRel
<1>3. ASSUME NEW y \in S
      PROVE  x <= y
  <2>1. x \in Nat /\ y \in Nat
    OBVIOUS
  <2>2. ASSUME y < x
        PROVE  FALSE
    <3>1. <<y, x>> \in Nat \X Nat /\ <<y, x>>[1] < <<y, x>>[2]
      BY <2>1, <2>2
    <3> QED
      BY <1>2, <3>1
  <2> QED
    BY <2>1, <2>2
<1> QED
  BY <1>3

\* The last of some positions of a sequence is one of them.
LEMMA Greatest ==
    ASSUME NEW n \in Nat, NEW S \in SUBSET (1..n), S # {}
    PROVE  Max(S) \in S
<1> DEFINE T == {n - k : k \in S}
<1>1. \A k \in S : k \in Nat /\ k <= n /\ n - k \in Nat
  OBVIOUS
<1>2. T \in SUBSET Nat /\ T # {}
  BY <1>1
<1>3. PICK x \in T : \A y \in T : x <= y
  BY <1>2, Least
<1>4. PICK k \in S : x = n - k
  BY <1>3
<1>5. ASSUME NEW j \in S
      PROVE  k >= j
  <2>1. n - k <= n - j
    BY <1>3, <1>4
  <2> QED
    BY <1>1, <2>1
<1>6. \A j \in S : k >= j
  BY <1>5
<1> QED
  BY <1>4, <1>6 DEF Max

\* What identifies an address is a segment of its path that is no crumb.
LEMMA IdentifiedBySegment ==
    ASSUME NEW a \in Addresses, NEW k \in DOMAIN a.path, a.path[k] # "ref="
    PROVE  /\ IdentifyingSegment(a.path) \in Range(a.path)
           /\ IdentifyingSegment(a.path) \notin {"none", "ref="}
<1> DEFINE marked == {i \in DOMAIN a.path : a.path[i] # "ref="}
<1>1. a.path \in Seq(STRING \ {"none"})
  BY AddressesAssumption
<1>2. Len(a.path) \in Nat /\ marked \in SUBSET (1..Len(a.path)) /\ marked # {}
  BY <1>1
<1>3. Max(marked) \in marked
  BY <1>2, Greatest
<1>4. IdentifyingSegment(a.path) = a.path[Max(marked)]
  BY <1>2 DEF IdentifyingSegment
<1>5. a.path[Max(marked)] \in STRING \ {"none"}
  <2>1. Max(marked) \in 1..Len(a.path)
    BY <1>2, <1>3
  <2>2. \A i \in 1..Len(a.path) : a.path[i] \in STRING \ {"none"}
    <3> DEFINE Segments == STRING \ {"none"}
    <3>1. a.path \in Seq(Segments)
      BY <1>1
    <3> HIDE DEF Segments
    <3>2. \A i \in 1..Len(a.path) : a.path[i] \in Segments
      BY <3>1
    <3> QED
      BY <3>2 DEF Segments
  <2> QED
    BY <2>1, <2>2
<1> QED
  BY <1>3, <1>4, <1>5 DEF Range

\* An address without such a segment is identified by nothing.
LEMMA Unidentified ==
    ASSUME NEW a, \A k \in DOMAIN a.path : a.path[k] = "ref="
    PROVE  IdentifyingSegment(a.path) = "none"
  BY DEF IdentifyingSegment

\* An address that carries what identifies another is identified by something.
LEMMA CarriesASegment ==
    ASSUME NEW a \in Addresses, NEW b \in Addresses,
           IdentifyingSegment(a.path) # "none",
           PathContains(b.path, IdentifyingSegment(a.path))
    PROVE  IdentifyingSegment(b.path) # "none"
<1>1. PICK k \in DOMAIN a.path : a.path[k] # "ref="
  BY Unidentified
<1>2. IdentifyingSegment(a.path) # "ref="
  BY <1>1, IdentifiedBySegment
<1>3. PICK j \in DOMAIN b.path : b.path[j] = IdentifyingSegment(a.path)
  BY DEF PathContains, Range
<1> QED
  BY <1>2, <1>3, IdentifiedBySegment

-----------------------------------------------------------------------------
(* Lookups: what a pass returns, and what a second address is.              *)

MaybeAddress == Addresses \cup {NoAddress}

Sources == Range(Tiers) \cup {"none"}

Results ==
    [asked: MaybeAddress, landed: MaybeAddress, answered: Statuses \cup {"nothing"},
     fields: SUBSET Fields, source: Sources, canonical: MaybeAddress,
     redirect: MaybeAddress, suspect: BOOLEAN, blocked: BOOLEAN, status: LinkStatuses]

\* The tiers are three.
LEMMA ThreeTiers == Range(Tiers) = {"structured", "og", "sidecar"}
  BY DEF Range, Tiers

\* Only fields that exist are found.
LEMMA FoundTyped ==
    ASSUME NEW page \in Page
    PROVE  Found(page) \in SUBSET Fields
<1>1. page.says \in [Range(Tiers) -> SUBSET Fields]
  BY DEF Page
<1>2. Ran(page) \subseteq Range(Tiers)
  BY ThreeTiers DEF Ran
<1> QED
  BY <1>1, <1>2 DEF Found

\* A title comes from a tier.
LEMMA TitleSourceTyped ==
    ASSUME NEW page
    PROVE  TitleSource(page) \in Sources
<1> DEFINE has == {i \in DOMAIN Tiers : Tiers[i] \in Ran(page) /\ "title" \in page.says[Tiers[i]]}
<1>1. CASE has = {}
  BY <1>1 DEF TitleSource, Sources
<1>2. CASE has # {}
  <2>1. has \in SUBSET Nat
    BY DEF Tiers
  <2>2. PICK x \in has : \A y \in has : x <= y
    BY <1>2, <2>1, Least
  <2>3. Min(has) \in has
    BY <2>2 DEF Min
  <2>4. Tiers[Min(has)] \in Range(Tiers)
    BY <2>3 DEF Range
  <2>5. TitleSource(page) = Tiers[Min(has)]
    BY <1>2 DEF TitleSource
  <2> QED
    BY <2>4, <2>5 DEF Sources
<1> QED
  BY <1>1, <1>2

\* A pass returns a result.
LEMMA ResultTyped ==
    ASSUME NEW asked \in MaybeAddress, NEW landed \in MaybeAddress,
           NEW status \in Statuses, NEW page \in Page
    PROVE  Result(asked, landed, status, page) \in Results
<1>1. Found(page) \in SUBSET Fields /\ TitleSource(page) \in Sources /\ "none" \in Sources
  BY FoundTyped, TitleSourceTyped DEF Sources
<1>2. page.canonical \in MaybeAddress /\ page.redirect \in MaybeAddress
      /\ NoAddress \in MaybeAddress
  BY DEF Page, MaybeAddress
<1> QED
  BY <1>1, <1>2 DEF Result, Results, Statuses, LinkStatuses

\* So is the lack of one.
LEMMA NoResultTyped == NoResult \in Results
<1> DEFINE blank == [says |-> [t \in Range(Tiers) |-> {}], ogType |-> "none",
                     canonical |-> NoAddress, redirect |-> NoAddress]
<1>1. NoAddress \in MaybeAddress
  BY DEF MaybeAddress
<1>2. Result(NoAddress, NoAddress, "refused", blank) \in Results
  <2>1. blank.redirect = NoAddress
    OBVIOUS
  <2> QED
    BY <1>1, <2>1 DEF Result, Results, Statuses, LinkStatuses, Sources
<1> HIDE DEF blank
<1>3. NoResult = [Result(NoAddress, NoAddress, "refused", blank) EXCEPT !.answered = "nothing"]
  BY DEF NoResult, blank
<1> QED
  BY <1>2, <1>3 DEF Results

\* What a page is not doubted for carries the segment that was asked for, unless
\* it comes from another site, and is at a product's path if that was asked for.
Vouched(got) ==
    (~got.suspect /\ ~got.blocked /\ got.asked.site = got.landed.site) =>
        /\ IdentifyingSegment(got.asked.path) # "none" =>
              PathContains(got.landed.path, IdentifyingSegment(got.asked.path))
        /\ IsProductPath(got.asked.path) => IsProductPath(got.landed.path)

LEMMA ResultVouched ==
    ASSUME NEW asked, NEW landed, NEW status \in Statuses, NEW page
    PROVE  Vouched(Result(asked, landed, status, page))
<1> DEFINE got == Result(asked, landed, status, page)
<1>1. got.asked = asked /\ got.landed = landed /\ got.blocked = (status = "refused")
  BY DEF Result
<1>2. ~got.blocked /\ ~got.suspect => ~Doubted(asked, landed, page)
  BY <1>1 DEF Result, Statuses
<1> HIDE DEF got
<1>3. asked.site = landed.site => Judged(asked, landed) = asked
  BY DEF Judged
<1> QED
  BY <1>1, <1>2, <1>3 DEF Vouched, Doubted, Moved, SlidOffTheProduct, got

\* The second address is an address, on the site the first one landed on.
LEMMA AlternativeTyped ==
    ASSUME NEW named \in MaybeAddress, NEW fetched
    PROVE  /\ SameSiteAlternative(named, fetched) \in MaybeAddress
           /\ SameSiteAlternative(named, fetched) # NoAddress
                 => /\ SameSiteAlternative(named, fetched) \in Addresses
                    /\ SameSiteAlternative(named, fetched).site = fetched.site
  BY DEF SameSiteAlternative, MaybeAddress

LEMMA StreamedTyped ==
    ASSUME NEW got \in Results, StreamedRedirectFollowUp(got) # NoAddress
    PROVE  /\ StreamedRedirectFollowUp(got) \in Addresses
           /\ got.fields \cap {"title", "price"} = {}
<1>1. got.redirect \in MaybeAddress
  BY DEF Results
<1> QED
  BY <1>1, AlternativeTyped DEF StreamedRedirectFollowUp

LEMMA CanonicalTyped ==
    ASSUME NEW got \in Results, CanonicalFollowUp(got) # NoAddress
    PROVE  LET alt == CanonicalFollowUp(got) IN
           /\ alt \in Addresses
           /\ alt.site = got.landed.site
           /\ IdentifyingSegment(got.asked.path) # "none"
           /\ PathContains(alt.path, IdentifyingSegment(got.asked.path))
<1>1. got.canonical \in MaybeAddress
  BY DEF Results
<1> QED
  BY <1>1, AlternativeTyped DEF CanonicalFollowUp

-----------------------------------------------------------------------------
(* Forms.                                                                  *)

Founds ==
    [fields: SUBSET Fields, source: Sources, link: Links, status: LinkStatuses,
     canonical: MaybeAddress, page: MaybeAddress]

Forms ==
    [kind: {"none", "add", "edit"}, link: Links, url: MaybeAddress, title: Titles,
     price: Prices, source: Range(Tiers) \cup {"none", "url", "user"},
     status: LinkStatuses, page: MaybeAddress, found: Founds, is: SUBSET Marks]

Items ==
    [link: Links, url: MaybeAddress, title: Titles, price: Prices,
     source: Range(Tiers) \cup {"none", "url", "user"}, status: LinkStatuses,
     page: MaybeAddress]

Lookups ==
    [pc: {"idle", "asking"}, link: Links, asked: MaybeAddress, at: MaybeAddress,
     hops: Nat, pass: {"first", "redirect", "canonical"}, got: Results]

\* The links there are, and what they lead to.
LEMMA LinksTyped ==
    /\ NoLink \in Links /\ BadLink \in Links
    /\ Pasted \cup {NoLink, BadLink} \subseteq Links
    /\ \A link \in Links : NormalizeURL(link) \in MaybeAddress
    /\ \A link \in Links : link # NoLink /\ link # BadLink => NormalizeURL(link) \in Addresses
    /\ \A a \in Addresses : [to |-> a, crumbs |-> FALSE] \in Links
  BY PastedAssumption DEF Links, NoLink, BadLink, NormalizeURL, MaybeAddress

LEMMA EmptyTyped ==
    /\ NoFound \in Founds
    /\ BlankForm \in Forms
    /\ NoForm \in Forms
    /\ NoItem \in Items
    /\ Idle \in Lookups
<1>1. NoAddress \in MaybeAddress /\ NoLink \in Links
  BY LinksTyped DEF MaybeAddress
<1>2. NoFound \in Founds
  BY <1>1 DEF NoFound, Founds, Sources, LinkStatuses
<1>3. BlankForm \in Forms
  BY <1>1, <1>2 DEF BlankForm, Forms, Titles, Prices, LinkStatuses
<1>4. NoForm \in Forms
  BY <1>3 DEF NoForm, Forms
<1>5. NoItem \in Items
  BY <1>1 DEF NoItem, Items, Titles, Prices, LinkStatuses
<1>6. Idle \in Lookups
  BY <1>1, NoResultTyped DEF Idle, Lookups
<1> QED
  BY <1>2, <1>3, <1>4, <1>5, <1>6

\* A form of the right shape that is on the screen, offers something only when its
\* page is doubted, and shows the link it is about.
FormAbout(f, link) ==
    /\ f \in Forms
    /\ f.kind # "none"
    /\ f.found # NoFound => "suspect" \in f.is
    /\ f.link = link

LEMMA BlankFormAbout == FormAbout(BlankForm, NoLink)
  BY EmptyTyped DEF FormAbout, BlankForm

LEMMA AskedAbout ==
    ASSUME NEW link \in Links
    PROVE  /\ FormAbout(Asked(link), link)
           /\ Asked(link).kind = "add" /\ Asked(link).found = NoFound
           /\ Asked(link).title = "none" /\ Asked(link).price = "none"
<1>1. NormalizeURL(link) \in MaybeAddress
  BY LinksTyped
<1>2. BlankForm \in Forms
  BY EmptyTyped
<1>3. Asked(link) \in Forms
  BY <1>1, <1>2 DEF Asked, Forms
<1> QED
  BY <1>3 DEF FormAbout, Asked, BlankForm

LEMMA NotAProductAbout ==
    ASSUME NEW link \in Links
    PROVE  FormAbout(NotAProduct(link), link)
<1>1. Asked(link) \in Forms /\ FormAbout(Asked(link), link) /\ Asked(link).found = NoFound
  BY AskedAbout DEF FormAbout
<1>2. NotAProduct(link) \in Forms
  BY <1>1 DEF NotAProduct, Forms, Marks
<1> QED
  BY <1>1, <1>2 DEF FormAbout, NotAProduct, Forms

\* A guessed name disturbs nothing of this, and is no name from a page.
LEMMA SuggestedAbout ==
    ASSUME NEW link, NEW f, FormAbout(f, link)
    PROVE  /\ FormAbout(SuggestTitleFromAddress(f), link)
           /\ SuggestTitleFromAddress(f).title \in {f.title, "slug"}
           /\ SuggestTitleFromAddress(f).price = f.price
           /\ SuggestTitleFromAddress(f).page = f.page
<1>1. f \in Forms
  BY DEF FormAbout
<1>2. CASE SuggestTitleFromAddress(f) = f
  BY <1>2
<1>3. CASE SuggestTitleFromAddress(f) =
             [f EXCEPT !.title = "slug", !.source = "url", !.is = @ \cup {"title guessed"}]
  <2>1. SuggestTitleFromAddress(f) \in Forms
    BY <1>1, <1>3 DEF Forms, Titles, Marks
  <2> QED
    BY <1>1, <1>3, <2>1 DEF FormAbout, Forms
<1> QED
  BY <1>2, <1>3 DEF SuggestTitleFromAddress

LEMMA FailedAbout ==
    ASSUME NEW link \in Links
    PROVE  FormAbout(Failed(link), link) /\ ~FillsIn(Failed(link))
<1> DEFINE f == [Asked(link) EXCEPT !.is = {"fetch error"}]
<1>1. Asked(link) \in Forms /\ FormAbout(Asked(link), link) /\ Asked(link).found = NoFound
      /\ Asked(link).title = "none" /\ Asked(link).price = "none"
  BY AskedAbout DEF FormAbout
<1>2. f \in Forms
  BY <1>1 DEF Forms, Marks
<1>3. FormAbout(f, link) /\ f.title = "none" /\ f.price = "none"
  BY <1>1, <1>2 DEF FormAbout, Forms
<1> HIDE DEF f
<1>4. Failed(link) = SuggestTitleFromAddress(f)
  BY DEF Failed, f
<1> QED
  BY <1>3, <1>4, SuggestedAbout DEF FillsIn

LEMMA FoundDetailsTyped ==
    ASSUME NEW link \in Links, NEW got \in Results
    PROVE  FoundDetails(link, got) \in Founds
<1>1. SameSiteAlternative(got.canonical, got.landed) \in MaybeAddress
  BY AlternativeTyped DEF Results
<1> QED
  BY <1>1, EmptyTyped DEF FoundDetails, Founds, Results

\* What fills in by itself comes from the page landed on, undoubted.
LEMMA PreviewedAbout ==
    ASSUME NEW link \in Links, NEW got \in Results
    PROVE  /\ FormAbout(Previewed(link, got), link)
           /\ FillsIn(Previewed(link, got)) =>
                 /\ Previewed(link, got).page = got.landed
                 /\ ~got.blocked /\ ~got.suspect
                 /\ got.fields \cap {"title", "price"} # {}
<1> DEFINE f == [Asked(link) EXCEPT !.url = got.landed, !.source = got.source,
                                    !.status = got.status]
           empty == got.fields \cap {"title", "price"} = {}
           blocked == [f EXCEPT !.is = {"extracted", "blocked"}]
           suspect == [f EXCEPT !.is = {"extracted", "suspect"},
                                !.found = FoundDetails(link, got)]
           filled == [f EXCEPT !.title = FromPage(got.fields, "title"),
                               !.price = FromPage(got.fields, "price"),
                               !.page = got.landed,
                               !.is = {"extracted"} \cup (IF empty THEN {"nothing found"} ELSE {})]
<1>1. Asked(link) \in Forms /\ FormAbout(Asked(link), link) /\ Asked(link).found = NoFound
      /\ Asked(link).title = "none" /\ Asked(link).price = "none"
  BY AskedAbout DEF FormAbout
<1>2. f \in Forms /\ FormAbout(f, link) /\ f.found = NoFound
      /\ f.title = "none" /\ f.price = "none"
  <2>1. f \in Forms
    BY <1>1 DEF Forms, Results, Sources
  <2> QED
    BY <1>1, <2>1 DEF FormAbout, Forms
<1> HIDE DEF f
<1>3. FormAbout(blocked, link) /\ blocked.title = "none" /\ blocked.price = "none"
  <2>1. blocked \in Forms
    BY <1>2 DEF Forms, Marks
  <2> QED
    BY <1>2, <2>1 DEF FormAbout, Forms
<1>4. FormAbout(suspect, link) /\ suspect.title = "none" /\ suspect.price = "none"
  <2>1. suspect \in Forms
    BY <1>2, FoundDetailsTyped DEF Forms, Marks
  <2> QED
    BY <1>2, <2>1 DEF FormAbout, Forms
<1>5. FormAbout(filled, link) /\ filled.page = got.landed
      /\ filled.title = FromPage(got.fields, "title")
      /\ filled.price = FromPage(got.fields, "price")
  <2>1. FromPage(got.fields, "title") \in Titles /\ FromPage(got.fields, "price") \in Prices
    BY DEF FromPage, Titles, Prices
  <2>2. filled \in Forms
    BY <1>2, <2>1 DEF Forms, Marks, Results
  <2> QED
    BY <1>2, <2>2 DEF FormAbout, Forms
<1> DEFINE chosen == IF got.blocked THEN blocked ELSE IF got.suspect THEN suspect ELSE filled
<1>6. Previewed(link, got) = SuggestTitleFromAddress(chosen)
  BY DEF Previewed, f
<1> HIDE DEF blocked, suspect, filled
<1>7. FormAbout(chosen, link)
  BY <1>3, <1>4, <1>5
<1>8. chosen.title = "page" \/ chosen.price = "page"
        => /\ chosen.page = got.landed
           /\ ~got.blocked /\ ~got.suspect
           /\ got.fields \cap {"title", "price"} # {}
  <2>1. CASE got.blocked
    BY <1>3, <2>1
  <2>2. CASE ~got.blocked /\ got.suspect
    BY <1>4, <2>2
  <2>3. CASE ~got.blocked /\ ~got.suspect
    BY <1>5, <2>3 DEF FromPage
  <2> QED
    BY <2>1, <2>2, <2>3
<1> HIDE DEF chosen
<1> QED
  BY <1>6, <1>7, <1>8, SuggestedAbout DEF FillsIn

LEMMA AcceptedAbout ==
    ASSUME NEW found \in Founds
    PROVE  FormAbout(Accepted(found), found.link)
<1>1. BlankForm \in Forms /\ BlankForm.found = NoFound /\ BlankForm.kind = "add"
  BY EmptyTyped DEF BlankForm
<1>2. FromPage(found.fields, "title") \in Titles /\ FromPage(found.fields, "price") \in Prices
  BY DEF FromPage, Titles, Prices
<1>3. NormalizeURL(found.link) \in MaybeAddress /\ found.link \in Links
  BY LinksTyped DEF Founds
<1>4. Accepted(found) \in Forms
  <2> DEFINE status == IF found.status = "dead" THEN "dead" ELSE "suspect"
             marks  == {"extracted", "accepted"}
  <2>1. found.page \in MaybeAddress /\ found.source \in Range(Tiers) \cup {"none", "url", "user"}
    BY DEF Founds, Sources
  <2>2. status \in LinkStatuses /\ marks \in SUBSET Marks
    BY DEF LinkStatuses, Marks
  <2>3. Accepted(found) = [BlankForm EXCEPT !.link = found.link,
                               !.url    = NormalizeURL(found.link),
                               !.title  = FromPage(found.fields, "title"),
                               !.price  = FromPage(found.fields, "price"),
                               !.page   = found.page,
                               !.source = found.source,
                               !.status = status,
                               !.is     = marks]
    BY DEF Accepted
  <2> HIDE DEF status, marks
  <2> QED
    BY <1>1, <1>2, <1>3, <2>1, <2>2, <2>3 DEF Forms
<1> QED
  BY <1>1, <1>4 DEF FormAbout, Accepted, Forms

-----------------------------------------------------------------------------
(* The invariant.                                                          *)

\* What is on the screen, what is saved and what is being asked.
FormOK == form = NoForm \/ FormAbout(form, meant)

ItemOK == item \in Items /\ (item # NoItem => item.title # "none" /\ item.price # "junk")

\* What a lookup has in hand when it asks a second address.
InHand(l) ==
    /\ l.pass # "first" =>
          l.got.asked \in Addresses /\ l.got.landed \in Addresses /\ Vouched(l.got)
    /\ l.pass = "redirect" => l.got.fields \cap {"title", "price"} = {}
    /\ l.pass = "canonical" =>
          /\ l.asked.site = l.got.landed.site
          /\ IdentifyingSegment(l.got.asked.path) # "none"
          /\ PathContains(l.asked.path, IdentifyingSegment(l.got.asked.path))

LookupOK ==
    /\ lookup \in Lookups
    /\ lookup # Idle =>
          /\ form = NoForm /\ lookup.pc = "asking" /\ lookup.link = meant
          /\ lookup.asked \in Addresses /\ lookup.at \in Addresses
          /\ ~ClassifyNonProduct(NormalizeURL(lookup.link))
          /\ lookup.pass = "first" => lookup.asked = NormalizeURL(lookup.link)
          /\ lookup.hops < MaxRedirects
          /\ InHand(lookup)

Inv == FormOK /\ ItemOK /\ LookupOK /\ meant \in Links

LEMMA InvTyped ==
    ASSUME Inv
    PROVE  form \in Forms /\ item \in Items /\ lookup \in Lookups /\ meant \in Links
  BY EmptyTyped DEF Inv, FormOK, ItemOK, LookupOK, FormAbout

\* A form that offers something is on the screen, and nothing is being asked.
LEMMA OffersTyped ==
    ASSUME Inv, OffersFound(form)
    PROVE  FormAbout(form, meant) /\ lookup = Idle /\ form.found \in Founds
<1>1. form # NoForm
  BY DEF OffersFound, NoForm, BlankForm
<1> QED
  BY <1>1 DEF Inv, FormOK, LookupOK, FormAbout, Forms

LEMMA InvInit == Init => Inv
  BY EmptyTyped, LinksTyped DEF Init, Inv, FormOK, ItemOK, LookupOK

-----------------------------------------------------------------------------
(* The owner's steps.                                                      *)

\* What every step of the owner's does: the invariant and the link are kept, and
\* a lookup that runs is left alone.
Kept == Inv' /\ KeepsTheLink /\ (lookup # Idle => UNCHANGED lookup)

LEMMA StepNewItemForm ==
    ASSUME Inv, NEW link \in Links, NewItemForm(link)
    PROVE  Kept
<1>1. BlankForm \in Forms
  BY EmptyTyped
<1>2. [BlankForm EXCEPT !.link = link] \in Forms
  BY <1>1 DEF Forms
<1>3. FormAbout(form', meant')
  BY <1>1, <1>2 DEF NewItemForm, FormAbout, BlankForm
<1> QED
  BY <1>3 DEF Kept, Inv, FormOK, ItemOK, LookupOK, KeepsTheLink, NewItemForm, FormAbout

LEMMA StepEditItemForm ==
    ASSUME Inv, EditItemForm
    PROVE  Kept
<1>1. item \in Items /\ BlankForm \in Forms /\ BlankForm.found = NoFound
  BY InvTyped, EmptyTyped DEF BlankForm
<1>2. form' \in Forms
  BY <1>1 DEF EditItemForm, Forms, Items
<1>3. FormAbout(form', meant') /\ meant' \in Links
  BY <1>1, <1>2 DEF EditItemForm, FormAbout, Forms, Items
<1> QED
  BY <1>3 DEF Kept, Inv, FormOK, ItemOK, LookupOK, KeepsTheLink, EditItemForm, FormAbout

LEMMA StepType ==
    ASSUME Inv, TypeTitle \/ (\E p \in Prices : TypePrice(p))
    PROVE  Kept
<1>1. form # NoForm /\ form \in Forms /\ FormAbout(form, meant)
  BY InvTyped DEF Inv, FormOK, TypeTitle, TypePrice
<1>2. FormAbout(form', meant') /\ UNCHANGED <<lookup, item, meant>>
  <2>1. CASE TypeTitle
    <3>1. form' \in Forms
      BY <1>1, <2>1 DEF TypeTitle, Forms, Titles
    <3> QED
      BY <1>1, <2>1, <3>1 DEF TypeTitle, FormAbout, Forms
  <2>2. ASSUME NEW p \in Prices, TypePrice(p)
        PROVE  FormAbout(form', meant') /\ UNCHANGED <<lookup, item, meant>>
    <3>1. form' \in Forms
      BY <1>1, <2>2 DEF TypePrice, Forms
    <3> QED
      BY <1>1, <2>2, <3>1 DEF TypePrice, FormAbout, Forms
  <2> QED
    BY <2>1, <2>2
<1> QED
  BY <1>1, <1>2 DEF Kept, Inv, FormOK, ItemOK, LookupOK, KeepsTheLink, FormAbout

LEMMA StepTypeLink ==
    ASSUME Inv, NEW link \in Links, TypeLink(link)
    PROVE  Kept
<1>1. form # NoForm /\ form \in Forms /\ FormAbout(form, meant)
  BY InvTyped DEF Inv, FormOK, TypeLink
<1>2. form' \in Forms
  BY <1>1 DEF TypeLink, Forms
<1>3. FormAbout(form', meant')
  BY <1>1, <1>2 DEF TypeLink, FormAbout, Forms
<1> QED
  BY <1>1, <1>3 DEF Kept, Inv, FormOK, ItemOK, LookupOK, KeepsTheLink, TypeLink, FormAbout

LEMMA StepCancel ==
    ASSUME Inv, Cancel
    PROVE  Kept
<1>1. item.link \in Links /\ lookup = Idle
  BY InvTyped DEF Inv, LookupOK, Cancel, Items
<1> QED
  BY <1>1 DEF Kept, Inv, FormOK, ItemOK, LookupOK, KeepsTheLink, Cancel

LEMMA StepSubmitInvalid ==
    ASSUME Inv, SubmitInvalid
    PROVE  Kept
<1>1. form # NoForm /\ form \in Forms /\ FormAbout(form, meant) /\ lookup = Idle
  BY InvTyped DEF Inv, FormOK, LookupOK, SubmitInvalid
<1>2. BlankForm \in Forms /\ BlankForm.found = NoFound
  BY EmptyTyped DEF BlankForm
<1>3. form' \in Forms
  BY <1>1, <1>2 DEF SubmitInvalid, Forms, Marks
<1>4. FormAbout(form', meant')
  BY <1>1, <1>2, <1>3 DEF SubmitInvalid, FormAbout, Forms
<1> QED
  BY <1>1, <1>4 DEF Kept, Inv, FormOK, ItemOK, LookupOK, KeepsTheLink, SubmitInvalid, FormAbout

LEMMA ParsedTyped ==
    ASSUME NEW f \in Forms
    PROVE  /\ Parsed(f) \in Items
           /\ Parsed(f).link = f.link /\ Parsed(f).title = f.title /\ Parsed(f).price = f.price
<1>1. NormalizeURL(f.link) \in MaybeAddress
  BY LinksTyped DEF Forms
<1>2. LinkStatusValue(f.status, f.link) \in LinkStatuses
  BY DEF LinkStatusValue, Forms, LinkStatuses
<1> QED
  BY <1>1, <1>2 DEF Parsed, Items, Forms

LEMMA StepSave ==
    ASSUME Inv, CreateItem \/ UpdateItem
    PROVE  Kept
<1>1. form # NoForm
  BY DEF CreateItem, UpdateItem, NoForm, BlankForm
<1>2. form \in Forms /\ form.link = meant /\ lookup = Idle
  BY <1>1, InvTyped DEF Inv, FormOK, LookupOK, FormAbout
<1>3. item' \in Items /\ item'.link = meant' /\ item'.title # "none" /\ item'.price # "junk"
  <2>1. Parsed(form) \in Items /\ item \in Items
    BY <1>2, ParsedTyped, InvTyped
  <2>2. Parsed(form).link = meant /\ Parsed(form).title # "none" /\ Parsed(form).price # "junk"
    BY <1>2, ParsedTyped DEF CreateItem, UpdateItem, Invalid
  <2>3. CASE CreateItem
    BY <2>1, <2>2, <2>3 DEF CreateItem
  <2>4. CASE UpdateItem
    BY <2>1, <2>2, <2>4 DEF UpdateItem, Items
  <2> QED
    BY <2>3, <2>4
<1>4. form' = NoForm /\ UNCHANGED <<lookup, meant>>
  BY DEF CreateItem, UpdateItem
<1> QED
  BY <1>2, <1>3, <1>4 DEF Kept, Inv, FormOK, ItemOK, LookupOK, KeepsTheLink

\* A lookup starts with the link it was given and nothing else in hand.
LEMMA StepPreview ==
    ASSUME Inv, lookup = Idle, NEW link \in Links, Preview(link)
    PROVE  Kept
<1>1. CASE link = NoLink \/ link = BadLink \/ ClassifyNonProduct(NormalizeURL(link))
  <2>1. FormAbout(form', link)
    BY <1>1, BlankFormAbout, FailedAbout, NotAProductAbout DEF Preview
  <2> QED
    BY <1>1, <2>1 DEF Preview, Kept, Inv, FormOK, ItemOK, LookupOK, KeepsTheLink, FormAbout
<1>2. CASE ~(link = NoLink \/ link = BadLink \/ ClassifyNonProduct(NormalizeURL(link)))
  <2>1. NormalizeURL(link) \in Addresses /\ Idle \in Lookups
    BY <1>2, LinksTyped, EmptyTyped
  <2>2. lookup' \in Lookups
    BY <1>2, <2>1 DEF Preview, Lookups, MaybeAddress
  <2>3. /\ lookup'.pc = "asking" /\ lookup'.link = link /\ lookup'.hops = 0
        /\ lookup'.asked = NormalizeURL(link) /\ lookup'.at = NormalizeURL(link)
        /\ lookup'.pass = "first"
    BY <1>2, <2>1 DEF Preview, Idle
  <2>4. InHand(lookup')
    BY <2>3 DEF InHand
  <2>5. 0 < MaxRedirects
    BY MaxRedirectsAssumption
  <2>6. form' = NoForm /\ meant' = link /\ UNCHANGED item
    BY <1>2 DEF Preview
  <2> QED
    BY <1>2, <2>1, <2>2, <2>3, <2>4, <2>5, <2>6
       DEF Kept, Inv, FormOK, ItemOK, LookupOK, KeepsTheLink
<1> QED
  BY <1>1, <1>2

LEMMA StepLookUpCanonical ==
    ASSUME Inv, LookUpCanonical
    PROVE  Kept
<1>1. lookup = Idle /\ form.found \in Founds /\ form.found.canonical # NoAddress
  BY OffersTyped DEF LookUpCanonical, OffersCanonical
<1>2. form.found.canonical \in Addresses
  BY <1>1 DEF Founds, MaybeAddress
<1>3. [to |-> form.found.canonical, crumbs |-> FALSE] \in Links
  BY <1>2, LinksTyped
<1> QED
  BY <1>1, <1>3, StepPreview DEF LookUpCanonical

LEMMA StepUseTheseDetails ==
    ASSUME Inv, UseTheseDetails
    PROVE  Kept
<1>1. form.found \in Founds /\ lookup = Idle
  BY OffersTyped DEF UseTheseDetails
<1>2. FormAbout(form', meant') /\ meant' \in Links
  BY <1>1, AcceptedAbout DEF UseTheseDetails, Founds
<1> QED
  BY <1>1, <1>2 DEF Kept, Inv, FormOK, ItemOK, LookupOK, KeepsTheLink, UseTheseDetails, FormAbout

LEMMA StepOwner ==
    ASSUME Inv, Owner
    PROVE  Kept
<1>1. ASSUME NEW link \in Pasted \cup {NoLink, BadLink},
             NewItemForm(link) \/ TypeLink(link) \/ LookItUp(link)
      PROVE  Kept
  <2>1. link \in Links
    BY LinksTyped
  <2> QED
    BY <1>1, <2>1, StepNewItemForm, StepTypeLink, StepPreview DEF LookItUp
<1> QED
  BY <1>1, StepEditItemForm, StepType, StepCancel, StepSubmitInvalid, StepSave,
     StepLookUpCanonical, StepUseTheseDetails DEF Owner

-----------------------------------------------------------------------------
(* The shop's steps.                                                       *)

\* Two addresses of one site that sell something, one of which carries what
\* identifies the other, are the same product.
LEMMA CarriedIsTheProduct ==
    ASSUME NEW a \in Addresses, NEW b \in Addresses, a.site = b.site,
           Sells(a), Sells(b), PathContains(b.path, IdentifyingSegment(a.path))
    PROVE  Product[b] = Product[a]
  BY SegmentsIdentify

\* What a lookup may conclude with: a result of its own pass, or the one in hand.
Concludable(got) ==
    /\ got \in Results
    /\ got.asked \in Addresses /\ got.landed \in Addresses /\ Vouched(got)
    /\ got.asked = lookup.asked \/ (got = lookup.got /\ lookup.pass # "first")

\* Nothing fills in with the page of a sibling, or of a collection it slid to.
LEMMA ConcludesAboutTheProduct ==
    ASSUME Inv, lookup # Idle, NEW got, Concludable(got),
           form' = Previewed(lookup.link, got),
           lookup.pass # "canonical" => got.asked = lookup.asked \/ ~FillsIn(form')
    PROVE  ConfidentAboutTheProduct
<1> DEFINE id == IdentifyingSegment(Believed.path)
           Sure == Sells(form'.page) /\ (lookup.pass = "canonical" => Sells(lookup.asked))
<1>1. /\ lookup \in Lookups /\ lookup.link \in Links /\ InHand(lookup)
      /\ lookup.asked \in Addresses
      /\ lookup.pass = "first" => lookup.asked = NormalizeURL(lookup.link)
  BY DEF Inv, LookupOK, Lookups
<1> SUFFICES ASSUME FillsIn(form'), Sells(Believed), StaysOnSite(Believed, form'.page),
                    id # "none"
             PROVE  /\ Sure => Product[form'.page] = Product[Believed]
                    /\ lookup.pass # "canonical" /\ IsProductPath(Believed.path)
                          => Sells(form'.page)
  <2>1. lookup.pass = "first" => Believed = NormalizeURL(lookup.link)
    BY <1>1 DEF Believed
  <2> QED
    BY <2>1 DEF ConfidentAboutTheProduct, AboutTheProductAt
<1>2. form'.page = got.landed /\ ~got.blocked /\ ~got.suspect
  BY <1>1, PreviewedAbout DEF Concludable
<1>3. /\ got.landed \in Addresses /\ got.asked \in Addresses
      /\ got.landed.site = Believed.site
  BY <1>2 DEF Concludable, StaysOnSite
<1>4. CASE lookup.pass # "canonical"
  <2>1. Believed = got.asked
    BY <1>4 DEF Believed
  <2>2. /\ PathContains(got.landed.path, id)
        /\ IsProductPath(got.asked.path) => IsProductPath(got.landed.path)
    BY <1>2, <1>3, <2>1 DEF Concludable, Vouched
  <2>3. Sure => Product[form'.page] = Product[Believed]
    BY <1>2, <1>3, <2>1, <2>2, CarriedIsTheProduct
  <2>4. IsProductPath(Believed.path) => Sells(form'.page)
    BY <1>2, <1>3, <2>1, <2>2, ProductPathsSell
  <2> QED
    BY <2>3, <2>4
<1>5. CASE lookup.pass = "canonical" /\ got = lookup.got
  <2>1. Believed = got.asked
    BY <1>5 DEF Believed
  <2>2. PathContains(got.landed.path, id)
    BY <1>2, <1>3, <2>1 DEF Concludable, Vouched
  <2>3. Sure => Product[form'.page] = Product[Believed]
    BY <1>2, <1>3, <2>1, <2>2, CarriedIsTheProduct
  <2> QED
    BY <1>5, <2>3
<1>6. CASE lookup.pass = "canonical" /\ got.asked = lookup.asked
  <2> SUFFICES ASSUME Sells(form'.page), Sells(lookup.asked)
               PROVE  Product[form'.page] = Product[Believed]
    BY <1>6
  <2>1. Believed = lookup.got.asked /\ Believed \in Addresses
    BY <1>1, <1>6 DEF Believed, InHand
  <2>2. lookup.asked.site = Believed.site /\ PathContains(lookup.asked.path, id)
    BY <1>1, <1>6, <2>1 DEF InHand, StaysOnSite
  <2>3. Product[lookup.asked] = Product[Believed]
    BY <1>1, <2>1, <2>2, CarriedIsTheProduct
  <2>4. IdentifyingSegment(lookup.asked.path) # "none"
    BY <1>1, <2>1, <2>2, CarriesASegment
  <2>5. PathContains(got.landed.path, IdentifyingSegment(lookup.asked.path))
    BY <1>2, <1>3, <1>6, <2>2, <2>4 DEF Concludable, Vouched
  <2>6. Product[got.landed] = Product[lookup.asked]
    BY <1>1, <1>2, <1>3, <2>2, <2>5, CarriedIsTheProduct
  <2> QED
    BY <1>2, <2>3, <2>6
<1> QED
  BY <1>4, <1>5, <1>6 DEF Concludable

\* Concluding keeps the invariant, with the second address or with the form.
LEMMA StepConclude ==
    ASSUME Inv, lookup # Idle, NEW got, Concludable(got),
           Conclude(lookup.pass, got), UNCHANGED <<item, meant>>,
           lookup.pass # "canonical" =>
              got.asked = lookup.asked \/ got.fields \cap {"title", "price"} = {}
    PROVE  Inv' /\ KeepsTheLink /\ ConfidentAboutTheProduct
<1>1. /\ lookup \in Lookups /\ form = NoForm /\ lookup.link = meant /\ lookup.link \in Links
      /\ lookup.pc = "asking" /\ ~ClassifyNonProduct(NormalizeURL(lookup.link))
  BY DEF Inv, LookupOK, Lookups
<1>2. ASSUME NEW pass \in {"redirect", "canonical"}, NEW address \in Addresses,
             Ask(pass, address, got), UNCHANGED form,
             pass = "redirect" => got.fields \cap {"title", "price"} = {},
             pass = "canonical" =>
                /\ address.site = got.landed.site
                /\ IdentifyingSegment(got.asked.path) # "none"
                /\ PathContains(address.path, IdentifyingSegment(got.asked.path))
      PROVE  Inv' /\ KeepsTheLink /\ ConfidentAboutTheProduct
  <2>1. got \in Results /\ 0 < MaxRedirects
    BY MaxRedirectsAssumption DEF Concludable
  <2>2. lookup' \in Lookups
    BY <1>1, <1>2, <2>1 DEF Ask, Lookups, MaybeAddress
  <2>3. /\ lookup'.pc = "asking" /\ lookup'.link = lookup.link /\ lookup'.pass = pass
        /\ lookup'.asked = address /\ lookup'.at = address /\ lookup'.hops = 0
        /\ lookup'.got = got
    BY <1>1, <1>2 DEF Ask, Lookups
  <2>4. InHand(lookup')
    BY <1>2, <2>3 DEF InHand, Concludable
  <2>5. LookupOK' /\ lookup' # Idle
    BY <1>1, <1>2, <2>1, <2>2, <2>3, <2>4 DEF LookupOK, Idle
  <2> QED
    BY <1>1, <1>2, <2>5
       DEF Inv, FormOK, ItemOK, KeepsTheLink, ConfidentAboutTheProduct
<1>3. ASSUME form' = Previewed(lookup.link, got), lookup' = Idle
      PROVE  Inv' /\ KeepsTheLink /\ ConfidentAboutTheProduct
  <2>1. FormAbout(form', lookup.link)
    BY <1>1, <1>3, PreviewedAbout DEF Concludable
  <2>2. got.fields \cap {"title", "price"} = {} => ~FillsIn(form')
    BY <1>1, <1>3, PreviewedAbout DEF Concludable
  <2>3. ConfidentAboutTheProduct
    BY <1>3, <2>2, ConcludesAboutTheProduct
  <2> QED
    BY <1>1, <1>3, <2>1, <2>3, EmptyTyped
       DEF Inv, FormOK, ItemOK, LookupOK, KeepsTheLink, FormAbout
<1>4. lookup.pass \in {"first", "redirect", "canonical"} /\ got \in Results
  BY <1>1 DEF Lookups, Concludable
<1> DEFINE streamed  == IF lookup.pass = "first" THEN StreamedRedirectFollowUp(got) ELSE NoAddress
           canonical == IF lookup.pass = "canonical" THEN NoAddress ELSE CanonicalFollowUp(got)
<1>5. CASE streamed # NoAddress
  <2>1. Ask("redirect", streamed, got) /\ UNCHANGED form
    BY <1>5 DEF Conclude
  <2>2. streamed \in Addresses /\ got.fields \cap {"title", "price"} = {}
    BY <1>4, <1>5, StreamedTyped
  <2> HIDE DEF streamed
  <2> QED
    BY <1>2, <2>1, <2>2
<1>6. CASE streamed = NoAddress /\ canonical # NoAddress
  <2>1. Ask("canonical", canonical, got) /\ UNCHANGED form
    BY <1>6 DEF Conclude
  <2>2. /\ canonical \in Addresses
        /\ canonical.site = got.landed.site
        /\ IdentifyingSegment(got.asked.path) # "none"
        /\ PathContains(canonical.path, IdentifyingSegment(got.asked.path))
    BY <1>4, <1>6, CanonicalTyped
  <2> HIDE DEF canonical
  <2> QED
    BY <1>2, <2>1, <2>2
<1>7. CASE streamed = NoAddress /\ canonical = NoAddress
  <2>1. form' = Previewed(lookup.link, got) /\ lookup' = Idle
    BY <1>7 DEF Conclude
  <2> QED
    BY <1>3, <2>1
<1> QED
  BY <1>5, <1>6, <1>7

LEMMA StepRedirected ==
    ASSUME Inv, NEW to \in Addresses, Redirected(to)
    PROVE  Inv' /\ KeepsTheLink /\ ConfidentAboutTheProduct
<1>1. lookup \in Lookups /\ lookup # Idle /\ LookupOK
  BY DEF Inv, LookupOK, Redirected, Idle
<1>2. lookup.hops \in Nat /\ MaxRedirects \in Nat
  BY <1>1, MaxRedirectsAssumption DEF Lookups
<1>3. lookup' \in Lookups
  <2>1. lookup' = [lookup EXCEPT !.at = to, !.hops = lookup.hops + 1]
    BY DEF Redirected
  <2>2. to \in MaybeAddress /\ lookup.hops + 1 \in Nat
    BY <1>2 DEF MaybeAddress
  <2> QED
    BY <1>1, <2>1, <2>2 DEF Lookups
<1>4. /\ lookup'.pc = "asking" /\ lookup'.link = lookup.link /\ lookup'.pass = lookup.pass
      /\ lookup'.asked = lookup.asked /\ lookup'.got = lookup.got
      /\ lookup'.at = to /\ lookup'.hops = lookup.hops + 1
  BY <1>1 DEF Redirected, Lookups
<1>5. InHand(lookup') /\ lookup' # Idle /\ lookup'.hops < MaxRedirects
  BY <1>1, <1>2, <1>4 DEF LookupOK, InHand, Redirected, Idle
<1>6. UNCHANGED <<form, item, meant>>
  BY DEF Redirected
<1>7. LookupOK'
  <2>1. /\ form' = NoForm /\ lookup'.pc = "asking" /\ lookup'.link = meant'
        /\ lookup'.asked \in Addresses /\ lookup'.at \in Addresses
        /\ ~ClassifyNonProduct(NormalizeURL(lookup'.link))
        /\ lookup'.pass = "first" => lookup'.asked = NormalizeURL(lookup'.link)
    BY <1>1, <1>4, <1>6 DEF LookupOK
  <2> QED
    BY <1>3, <1>5, <2>1 DEF LookupOK
<1>8. FormOK' /\ form' = NoForm
  BY <1>1, <1>6 DEF LookupOK, FormOK
<1>9. ItemOK' /\ meant' \in Links
  BY <1>6 DEF Inv, ItemOK
<1> QED
  BY <1>5, <1>6, <1>7, <1>8, <1>9 DEF Inv, KeepsTheLink, ConfidentAboutTheProduct

LEMMA StepAnswered ==
    ASSUME Inv, NEW status \in Statuses, NEW page \in Contents, Answered(status, page)
    PROVE  Inv' /\ KeepsTheLink /\ ConfidentAboutTheProduct
<1> DEFINE new == Result(lookup.asked, lookup.at, status, page)
           got == IF lookup.pass = "canonical" /\ ~ImprovesOn(new) THEN lookup.got ELSE new
<1>1. /\ lookup \in Lookups /\ lookup # Idle /\ InHand(lookup)
      /\ lookup.asked \in Addresses /\ lookup.at \in Addresses
  BY DEF Inv, LookupOK, Answered, Idle
<1>2. new \in Results /\ Vouched(new)
  BY <1>1, ContentsAssumption, ResultTyped, ResultVouched DEF MaybeAddress
<1>3. new.asked = lookup.asked /\ new.landed = lookup.at
  BY DEF Result
<1> HIDE DEF new
<1>4. Concludable(got)
  <2>1. new.asked \in Addresses /\ new.landed \in Addresses
    BY <1>1, <1>3
  <2>2. Concludable(new)
    BY <1>2, <1>3, <2>1 DEF Concludable
  <2>3. lookup.pass # "first" => Concludable(lookup.got)
    BY <1>1 DEF Concludable, InHand, Lookups
  <2> QED
    BY <2>2, <2>3
<1>5. lookup.pass # "canonical" => got.asked = lookup.asked
  BY <1>3
<1>6. Conclude(lookup.pass, got) /\ UNCHANGED <<item, meant>>
  BY DEF Answered, new
<1> HIDE DEF got
<1> QED
  BY <1>1, <1>4, <1>5, <1>6, StepConclude

LEMMA StepUnanswered ==
    ASSUME Inv, Unanswered
    PROVE  Inv' /\ KeepsTheLink /\ ConfidentAboutTheProduct
<1>1. /\ lookup \in Lookups /\ lookup # Idle /\ InHand(lookup) /\ form = NoForm
      /\ lookup.link = meant /\ meant \in Links
  BY DEF Inv, LookupOK, Unanswered, Idle
<1>2. CASE lookup.pass = "first"
  <2>1. form' = Failed(lookup.link) /\ lookup' = Idle /\ UNCHANGED <<item, meant>>
    BY <1>2 DEF Unanswered
  <2>2. FormAbout(form', lookup.link) /\ ~FillsIn(form')
    BY <1>1, <2>1, FailedAbout
  <2> QED
    BY <1>1, <2>1, <2>2, EmptyTyped
       DEF Inv, FormOK, ItemOK, LookupOK, KeepsTheLink, ConfidentAboutTheProduct, FormAbout
<1>3. CASE lookup.pass # "first"
  <2>1. Conclude(lookup.pass, lookup.got) /\ UNCHANGED <<item, meant>>
    BY <1>3 DEF Unanswered
  <2>2. Concludable(lookup.got)
    BY <1>1, <1>3 DEF Concludable, InHand, Lookups
  <2>3. lookup.pass # "canonical" => lookup.got.fields \cap {"title", "price"} = {}
    BY <1>1, <1>3 DEF InHand, Lookups
  <2> QED
    BY <1>1, <2>1, <2>2, <2>3, StepConclude
<1> QED
  BY <1>2, <1>3

-----------------------------------------------------------------------------
(* Theorems.                                                               *)

\* Every step keeps the invariant, the link, and the product asked for.
LEMMA InvNext ==
    ASSUME Inv, [Next]_vars
    PROVE  Inv' /\ [KeepsTheLink]_vars /\ [ConfidentAboutTheProduct]_vars
<1>1. CASE Owner
  <2>1. Kept
    BY <1>1, StepOwner
  <2> QED
    BY <2>1 DEF Kept, ConfidentAboutTheProduct
<1>2. CASE Shop
  BY <1>2, StepRedirected, StepAnswered, StepUnanswered DEF Shop
<1>3. CASE UNCHANGED vars
  BY <1>3 DEF vars, Inv, FormOK, ItemOK, LookupOK
<1> QED
  BY <1>1, <1>2, <1>3 DEF Next

\* The invariant holds in every state of every behaviour.
THEOREM InvHolds == Spec => []Inv
  BY InvInit, InvNext, PTL DEF Spec

\* Type correctness, for every set of addresses, links and pages.
THEOREM TypesHold == Spec => []TypeOK
<1>1. Inv => TypeOK
  <2> SUFFICES ASSUME Inv
               PROVE  TypeOK
    OBVIOUS
  <2>1. form \in Forms /\ meant \in Links
    BY InvTyped
  <2>2. (form.kind = "none" => form = NoForm) /\ (form.found # NoFound => "suspect" \in form.is)
    <3>1. NoForm.found = NoFound
      BY DEF NoForm, BlankForm
    <3> QED
      BY <3>1 DEF Inv, FormOK, FormAbout
  <2> QED
    BY <2>1, <2>2 DEF TypeOK, Inv, ItemOK, LookupOK, Forms, Founds, Sources, MaybeAddress
<1> QED
  BY <1>1, InvHolds, PTL

\* The link on the form and in the item is the one the owner last asked for,
\* whatever shops answer.
THEOREM LinkKept == Spec => LinkIsKept
  BY InvHolds, InvNext, PTL DEF Spec, LinkIsKept

\* What fills in by itself is the product's at the address asked for, whatever
\* shops answer and however often they redirect, unless the shop itself sent the
\* lookup elsewhere.
THEOREM NoOwnMistake == Spec => OnlyTheShopMisleads
  BY InvHolds, InvNext, PTL DEF Spec, OnlyTheShopMisleads

-----------------------------------------------------------------------------
(* What a form says of itself.                                             *)

\* The marks that come with a form, apart from what they are worth.
Verdicts == {{}, {"invalid"}, {"fetch error"}, {"not a product"}, {"extracted"},
             {"extracted", "blocked"}, {"extracted", "suspect"}, {"extracted", "accepted"}}

Verdict(f) == f.is \ {"title guessed", "nothing found"}

\* A form of the owner's own has nothing from a page, and a guess is marked.
Explained(f) ==
    /\ Verdict(f) \in Verdicts
    /\ (f.kind = "add" /\ "invalid" \notin f.is) =>
          /\ f.title = "slug" => "title guessed" \in f.is
          /\ Verdict(f) = {} => /\ f.title \notin {"page", "slug"} /\ f.price # "page"
                                /\ f.source = "none" /\ f.status = "unknown"

\* What was read did not fail to be.
LEMMA ReadPages ==
    ASSUME NEW v \in Verdicts
    PROVE  "extracted" \in v => "fetch error" \notin v /\ "not a product" \notin v
<1>1. CASE v = {}
  BY <1>1
<1>2. CASE v = {"invalid"}
  BY <1>2
<1>3. CASE v = {"fetch error"}
  BY <1>3
<1>4. CASE v = {"not a product"}
  BY <1>4
<1>5. CASE v = {"extracted"}
  BY <1>5
<1>6. CASE v = {"extracted", "blocked"}
  BY <1>6
<1>7. CASE v = {"extracted", "suspect"}
  BY <1>7
<1>8. CASE v = {"extracted", "accepted"}
  BY <1>8
<1> QED
  BY <1>1, <1>2, <1>3, <1>4, <1>5, <1>6, <1>7, <1>8, Zenon DEF Verdicts

\* An explained form speaks with one voice, and speaks whenever it has to.
LEMMA ExplainedSpeaks ==
    ASSUME NEW f, Explained(f)
    PROVE  /\ Cardinality(Flashes(f)) <= 1
           /\ (f.kind = "add" /\ "invalid" \notin f.is) =>
                 /\ (\/ f.title \in {"page", "slug"} \/ f.price = "page"
                     \/ f.source # "none" \/ f.status # "unknown") => Flashes(f) # {}
                 /\ f.title = "slug" => "title guessed" \in f.is
<1> DEFINE spoken == {m \in {"fetch error", "not a product", "blocked", "suspect", "accepted"} :
                         m \in Verdict(f)}
<1>1. Verdict(f) \in Verdicts
  BY DEF Explained
<1>2. /\ Flashes(f) = spoken \cup (IF BelievedLookup(f)
                                   THEN {IF "nothing found" \in f.is THEN "nothing found" ELSE "filled in"}
                                   ELSE {})
      /\ BelievedLookup(f) <=> "extracted" \in Verdict(f) /\ spoken = {}
      /\ "invalid" \in f.is <=> "invalid" \in Verdict(f)
  <2>1. \A m \in {"fetch error", "not a product", "blocked", "suspect", "accepted", "extracted",
                  "invalid"} : m \in f.is <=> m \in Verdict(f)
    BY DEF Verdict
  <2>2. "extracted" \in Verdict(f) =>
           "fetch error" \notin Verdict(f) /\ "not a product" \notin Verdict(f)
    BY <1>1, ReadPages
  <2>3. BelievedLookup(f) <=> "extracted" \in Verdict(f) /\ spoken = {}
    BY <1>1, <2>1, <2>2 DEF BelievedLookup
  <2>4. spoken = {m \in {"fetch error", "not a product", "blocked", "suspect", "accepted"} : m \in f.is}
    BY <2>1
  <2> HIDE DEF spoken
  <2> QED
    BY <2>1, <2>3, <2>4 DEF Flashes
<1>3. \/ Verdict(f) \in {{}, {"invalid"}} /\ spoken = {}
      \/ "extracted" \in Verdict(f) /\ spoken = {}
      \/ \E m : spoken = {m}
  BY <1>1 DEF Verdicts
<1> HIDE DEF spoken
<1>4. CASE Verdict(f) \in {{}, {"invalid"}} /\ spoken = {}
  <2>1. "extracted" \notin Verdict(f)
    BY <1>4
  <2>2. Flashes(f) = {}
    BY <1>2, <1>4, <2>1
  <2>3. Cardinality(Flashes(f)) <= 1
    BY <2>2, FS_EmptySet
  <2>4. Verdict(f) = {} \/ "invalid" \in f.is
    BY <1>2, <1>4
  <2> QED
    BY <2>3, <2>4, Zenon DEF Explained
<1>5. CASE ~(Verdict(f) \in {{}, {"invalid"}} /\ spoken = {})
  <2>1. PICK m : Flashes(f) = {m}
    BY <1>2, <1>3, <1>5
  <2>2. Cardinality(Flashes(f)) <= 1 /\ Flashes(f) # {}
    BY <2>1, FS_Singleton
  <2>3. (f.kind = "add" /\ "invalid" \notin f.is /\ f.title = "slug") => "title guessed" \in f.is
    BY DEF Explained
  <2> QED
    BY <2>2, <2>3, Zenon
<1> QED
  BY <1>4, <1>5

LEMMA BlankExplained ==
    /\ Explained(BlankForm)
    /\ Explained(NoForm)
    /\ \A link \in Links : Explained([BlankForm EXCEPT !.link = link])
  BY DEF BlankForm, NoForm, Explained, Verdict, Verdicts

\* A guess is marked; a form that speaks of the lookup already may have one.
LEMMA SuggestedExplained ==
    ASSUME NEW f \in Forms, Explained(f), Verdict(f) # {}
    PROVE  Explained(SuggestTitleFromAddress(f))
<1>1. CASE SuggestTitleFromAddress(f) = f
  BY <1>1
<1>2. CASE SuggestTitleFromAddress(f) =
             [f EXCEPT !.title = "slug", !.source = "url", !.is = @ \cup {"title guessed"}]
  <2> DEFINE g == SuggestTitleFromAddress(f)
  <2>1. g.kind = f.kind /\ g.title = "slug" /\ g.is = f.is \cup {"title guessed"}
    BY <1>2 DEF Forms
  <2> HIDE DEF g
  <2>2. Verdict(g) = Verdict(f)
    BY <2>1 DEF Verdict
  <2>3. Explained(g)
    BY <2>1, <2>2 DEF Explained
  <2> QED
    BY <2>3 DEF g
<1> QED
  BY <1>1, <1>2 DEF SuggestTitleFromAddress

\* Every answer to a lookup is explained.
LEMMA AnswersExplained ==
    ASSUME NEW link \in Links
    PROVE  /\ Explained(NotAProduct(link))
           /\ Explained(Failed(link))
           /\ \A got \in Results : Explained(Previewed(link, got))
<1>1. Asked(link) \in Forms /\ Asked(link).title = "none" /\ Asked(link).is = {}
  BY AskedAbout DEF FormAbout, Asked, BlankForm
<1>2. Explained(NotAProduct(link))
  <2>1. NotAProduct(link).title = "none" /\ NotAProduct(link).is = {"not a product"}
    BY <1>1 DEF NotAProduct, Forms
  <2>2. Verdict(NotAProduct(link)) = {"not a product"}
    BY <2>1 DEF Verdict
  <2> QED
    BY <2>1, <2>2 DEF Explained, Verdicts
<1>3. Explained(Failed(link))
  <2> DEFINE f == [Asked(link) EXCEPT !.is = {"fetch error"}]
  <2>1. f \in Forms
    BY <1>1 DEF Forms, Marks
  <2>2. f.title = "none" /\ Verdict(f) = {"fetch error"}
    BY <1>1 DEF Forms, Verdict
  <2> HIDE DEF f
  <2>3. Explained(f)
    BY <2>2 DEF Explained, Verdicts
  <2> QED
    BY <2>1, <2>2, <2>3, SuggestedExplained DEF Failed, f
<1>4. ASSUME NEW got \in Results
      PROVE  Explained(Previewed(link, got))
  <2> DEFINE f == [Asked(link) EXCEPT !.url = got.landed, !.source = got.source,
                                      !.status = got.status]
             empty == got.fields \cap {"title", "price"} = {}
             blocked == [f EXCEPT !.is = {"extracted", "blocked"}]
             suspect == [f EXCEPT !.is = {"extracted", "suspect"},
                                  !.found = FoundDetails(link, got)]
             filled == [f EXCEPT !.title = FromPage(got.fields, "title"),
                                 !.price = FromPage(got.fields, "price"),
                                 !.page = got.landed,
                                 !.is = {"extracted"} \cup (IF empty THEN {"nothing found"} ELSE {})]
             chosen == IF got.blocked THEN blocked ELSE IF got.suspect THEN suspect ELSE filled
  <2>1. f \in Forms /\ f.title = "none"
    BY <1>1 DEF Forms, Results, Sources
  <2> HIDE DEF f
  <2>2. blocked \in Forms /\ blocked.title = "none" /\ Verdict(blocked) = {"extracted", "blocked"}
    BY <2>1 DEF Forms, Marks, Verdict
  <2>3. suspect \in Forms /\ suspect.title = "none" /\ Verdict(suspect) = {"extracted", "suspect"}
    BY <2>1, FoundDetailsTyped DEF Forms, Marks, Verdict
  <2>4. filled \in Forms /\ filled.title \in {"page", "none"} /\ Verdict(filled) = {"extracted"}
    <3>1. FromPage(got.fields, "title") \in {"page", "none"}
          /\ FromPage(got.fields, "price") \in {"page", "none"}
      BY DEF FromPage
    <3>2. filled \in Forms
      BY <2>1, <3>1 DEF Forms, Marks, Results, Titles, Prices
    <3> QED
      BY <2>1, <3>1, <3>2 DEF Forms, Verdict
  <2>5. Previewed(link, got) = SuggestTitleFromAddress(chosen)
    BY DEF Previewed, f
  <2> HIDE DEF blocked, suspect, filled
  <2>6. chosen \in Forms /\ chosen.title # "slug" /\ Verdict(chosen) # {}
        /\ Verdict(chosen) \in Verdicts
    BY <2>2, <2>3, <2>4 DEF Verdicts
  <2> HIDE DEF chosen
  <2>7. Explained(chosen)
    BY <2>6 DEF Explained
  <2> QED
    BY <2>5, <2>6, <2>7, SuggestedExplained
<1> QED
  BY <1>2, <1>3, <1>4

LEMMA AcceptedExplained ==
    ASSUME NEW found \in Founds
    PROVE  Explained(Accepted(found))
<1>1. FromPage(found.fields, "title") # "slug"
  BY DEF FromPage
<1>2. /\ Accepted(found).title = FromPage(found.fields, "title")
      /\ Accepted(found).is = {"extracted", "accepted"}
  BY DEF Accepted, BlankForm
<1>3. Verdict(Accepted(found)) = {"extracted", "accepted"}
  BY <1>2 DEF Verdict
<1> QED
  BY <1>1, <1>2, <1>3 DEF Explained, Verdicts

LEMMA ExplainedByOwner ==
    ASSUME Inv, Explained(form), Owner
    PROVE  Explained(form')
<1>1. form \in Forms /\ BlankForm \in Forms
  BY InvTyped, EmptyTyped
<1>2. ASSUME NEW link \in Pasted \cup {NoLink, BadLink}, NewItemForm(link)
      PROVE  Explained(form')
  BY <1>2, LinksTyped, BlankExplained DEF NewItemForm
<1>3. ASSUME NEW link, TypeLink(link)
      PROVE  Explained(form')
  BY <1>1, <1>3 DEF TypeLink, Forms, Explained, Verdict
<1>4. ASSUME NEW link \in Links, Preview(link)
      PROVE  Explained(form')
  BY <1>4, BlankExplained, AnswersExplained DEF Preview
<1>5. ASSUME NEW link \in Pasted \cup {NoLink, BadLink}, LookItUp(link)
      PROVE  Explained(form')
  BY <1>4, <1>5, LinksTyped DEF LookItUp
<1>6. CASE LookUpCanonical
  <2>1. form.found \in Founds /\ form.found.canonical # NoAddress
    BY <1>6, OffersTyped DEF LookUpCanonical, OffersCanonical
  <2>2. [to |-> form.found.canonical, crumbs |-> FALSE] \in Links
    BY <2>1, LinksTyped DEF Founds, MaybeAddress
  <2> QED
    BY <1>4, <1>6, <2>2 DEF LookUpCanonical
<1>7. CASE EditItemForm
  BY <1>1, <1>7 DEF EditItemForm, BlankForm, Explained, Verdict, Verdicts
<1>8. CASE TypeTitle
  BY <1>1, <1>8 DEF TypeTitle, Forms, Explained, Verdict
<1>9. ASSUME NEW p \in Prices, TypePrice(p)
      PROVE  Explained(form')
  BY <1>1, <1>9 DEF TypePrice, Forms, Explained, Verdict
<1>10. CASE Cancel \/ CreateItem \/ UpdateItem
  BY <1>10, BlankExplained DEF Cancel, CreateItem, UpdateItem
<1>11. CASE SubmitInvalid
  BY <1>11 DEF SubmitInvalid, BlankForm, Explained, Verdict, Verdicts
<1>12. CASE UseTheseDetails
  BY <1>12, OffersTyped, AcceptedExplained DEF UseTheseDetails
<1> QED
  BY <1>2, <1>3, <1>5, <1>6, <1>7, <1>8, <1>9, <1>10, <1>11, <1>12 DEF Owner

LEMMA ExplainedByShop ==
    ASSUME Inv, Explained(form), Shop
    PROVE  Explained(form')
<1>1. ASSUME NEW got \in Results, Conclude(lookup.pass, got), lookup \in Lookups
      PROVE  Explained(form')
  <2>1. UNCHANGED form \/ form' = Previewed(lookup.link, got)
    BY <1>1 DEF Conclude
  <2>2. lookup.link \in Links
    BY <1>1 DEF Lookups
  <2> QED
    BY <1>1, <2>1, <2>2, AnswersExplained
<1>2. lookup \in Lookups /\ lookup.got \in Results /\ lookup.link \in Links
  BY InvTyped DEF Lookups
<1>3. ASSUME NEW to \in Addresses, Redirected(to)
      PROVE  Explained(form')
  BY <1>3 DEF Redirected
<1>4. ASSUME NEW status \in Statuses, NEW page \in Contents, Answered(status, page)
      PROVE  Explained(form')
  <2> DEFINE new == Result(lookup.asked, lookup.at, status, page)
             got == IF lookup.pass = "canonical" /\ ~ImprovesOn(new) THEN lookup.got ELSE new
  <2>1. new \in Results
    BY <1>2, ContentsAssumption, ResultTyped DEF Lookups
  <2> HIDE DEF new
  <2>2. got \in Results
    BY <1>2, <2>1
  <2>3. Conclude(lookup.pass, got)
    BY <1>4 DEF Answered, new
  <2> HIDE DEF got
  <2> QED
    BY <1>1, <1>2, <2>2, <2>3
<1>5. CASE Unanswered
  BY <1>1, <1>2, <1>5, AnswersExplained DEF Unanswered
<1> QED
  BY <1>3, <1>4, <1>5 DEF Shop

\* Whatever the owner and the shops do, what a form holds that its owner did not
\* type is explained by exactly one message.
THEOREM OneVoice == Spec => []LookupIsExplained
<1>1. Init => Explained(form)
  BY BlankExplained DEF Init
<1>2. Inv /\ Explained(form) /\ [Next]_vars => Explained(form)'
  BY ExplainedByOwner, ExplainedByShop DEF Next, vars
<1>3. Explained(form) => LookupIsExplained
  BY ExplainedSpeaks DEF LookupIsExplained
<1> QED
  BY <1>1, <1>2, <1>3, InvHolds, PTL DEF Spec
=============================================================================
