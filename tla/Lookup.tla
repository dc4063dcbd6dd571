------------------------------- MODULE Lookup -------------------------------
(***************************************************************************)
(* What a link lookup makes of the pages a shop answers with:              *)
(* internal/extract, from the chain of extractors and the soft-404 guard   *)
(* to the two cases in which a second address is asked instead.            *)
(*                                                                         *)
(* An address is a site and the segments of a path; tracking parameters,   *)
(* letter case and the scheme are gone after NormalizeURL.  A page is what *)
(* the extractors find in it, field by field; how they find it is left out, *)
(* and so are the values, which all come from the one page.                *)
(***************************************************************************)
EXTENDS Naturals, SequencesExt

CONSTANTS
    Addresses,      \* normalized addresses, [site, path]
    SiteListings,   \* <<site, segment>>: how a site's listings begin
    NameLike        \* the segments that read like a name

ASSUME AddressesAssumption ==
    \A a \in Addresses : a.site # "none" /\ a.path \in Seq(STRING \ {"none"})

NoAddress == [site |-> "none", path |-> <<>>]

\* The tiers in the chain's order.  The Shopify, JSON-LD and Microdata tiers are
\* trusted alike and are one here.
Tiers == <<"structured", "og", "sidecar">>

\* Details are a description or a picture; attributes are size, color and such.
Fields == {"title", "price", "sku", "details", "attributes"}

\* A page: what each tier finds, the og:type, the canonical tag and the address
\* a streamed redirect names.
Page == [says: [Range(Tiers) -> SUBSET Fields], ogType: {"none", "product", "other"},
         canonical: Addresses \cup {NoAddress}, redirect: Addresses \cup {NoAddress}]

-----------------------------------------------------------------------------
(* Addresses.                                                              *)

PathContains(path, segment) == segment \in Range(path)

\* The last segment that is no navigation crumb, "none" without one.
IdentifyingSegment(path) ==
    LET named == {k \in DOMAIN path : path[k] # "ref="}
    IN  IF named = {} THEN "none" ELSE path[Max(named)]

IsProductPath(path) == path # <<>> /\ "products" \in Range(Front(path))

\* An address that cannot name a product is never asked.
ClassifyNonProduct(a) ==
    /\ a.path # <<>>
    /\ \/ Head(a.path) \in {"search", "cart", "checkout", "basket"}
       \/ <<a.site, Head(a.path)>> \in SiteListings

\* Some segment of the path reads like a name.
TitleFromURL(a) == Range(a.path) \cap NameLike # {}

\* The address a page names for itself, if it is another one on the same site.
SameSiteAlternative(named, fetched) ==
    IF named.site = fetched.site /\ named # fetched THEN named ELSE NoAddress

-----------------------------------------------------------------------------
(* The chain.                                                              *)

\* A title and a price are enough for the fallback tier to be left out.
Ran(page) ==
    LET cheap == page.says["structured"] \cup page.says["og"]
    IN  IF {"title", "price"} \subseteq cheap THEN {"structured", "og"} ELSE Range(Tiers)

\* Merged field by field: the first tier that has a field supplies it.
Found(page) == UNION {page.says[t] : t \in Ran(page)}

TitleSource(page) ==
    LET has == {i \in DOMAIN Tiers : Tiers[i] \in Ran(page) /\ "title" \in page.says[Tiers[i]]}
    IN  IF has = {} THEN "none" ELSE Tiers[Min(has)]

-----------------------------------------------------------------------------
(* The soft-404 guard, over a page that was asked for at one address and    *)
(* came from another.                                                      *)

\* A structured title with a price or a product code outweighs an og:type.
HasStructuredProduct(page) ==
    TitleSource(page) = "structured" /\ Found(page) \cap {"sku", "price"} # {}

CallsItselfOtherwise(page) == page.ogType = "other" /\ ~HasStructuredProduct(page)

\* Faulty variant: a page is held against the address it came from.
JudgedWhereItLanded(asked, landed) == landed

\* Across sites the two paths have nothing to do with each other.
Judged(asked, landed) == IF asked.site = landed.site THEN asked ELSE landed

Moved(asked, landed, page) ==
    LET id == IdentifyingSegment(Judged(asked, landed).path)
    IN  /\ id # "none"
        /\ \/ ~PathContains(landed.path, id)
           \/ /\ page.canonical.path # <<>>
              /\ ~PathContains(page.canonical.path, id)

SlidOffTheProduct(asked, landed) ==
    IsProductPath(Judged(asked, landed).path) /\ ~IsProductPath(landed.path)

LacksTheUsual(page) ==
    TitleSource(page) = "structured" /\ Found(page) \cap {"sku", "price"} = {}

\* Faulty variant: what the path was like does not count.
DoubtedByName(asked, landed, page) ==
    CallsItselfOtherwise(page) \/ Moved(asked, landed, page) \/ LacksTheUsual(page)

Doubted(asked, landed, page) ==
    \/ CallsItselfOtherwise(page)
    \/ Moved(asked, landed, page)
    \/ SlidOffTheProduct(asked, landed)
    \/ LacksTheUsual(page)

Statuses == {"ok", "gone", "refused"}

\* One pass over one address: the fields found and what the guard makes of them.
\* A page that says it is gone is doubted and still read; of a refusal nothing is
\* kept.
Result(asked, landed, status, page) ==
    LET suspect == \/ status = "gone"
                   \/ status = "ok" /\ Doubted(asked, landed, page)
        refused == status = "refused"
    IN  [asked     |-> asked,
         landed    |-> landed,
         answered  |-> status,
         fields    |-> IF refused THEN {} ELSE Found(page),
         source    |-> IF refused THEN "none" ELSE TitleSource(page),
         canonical |-> IF refused THEN NoAddress ELSE page.canonical,
         redirect  |-> page.redirect,
         suspect   |-> suspect,
         blocked   |-> refused,
         status    |-> CASE refused -> "unknown"
                         [] status = "gone" -> "dead"
                         [] status = "ok" /\ suspect -> "suspect"
                         [] status = "ok" /\ ~suspect -> "ok"]

NoResult == [Result(NoAddress, NoAddress, "refused",
                    [says |-> [t \in Range(Tiers) |-> {}], ogType |-> "none",
                     canonical |-> NoAddress, redirect |-> NoAddress])
             EXCEPT !.answered = "nothing"]

-----------------------------------------------------------------------------
(* A second address.                                                       *)

\* A page with neither a title nor a price may have streamed a redirect.
StreamedRedirectFollowUp(got) ==
    IF got.answered = "ok" /\ got.fields \cap {"title", "price"} = {}
    THEN SameSiteAlternative(got.redirect, got.landed)
    ELSE NoAddress

\* Faulty variant: any other address on the site will do.
CanonicalFollowUpAnywhere(got) ==
    IF got.answered = "ok" /\ "price" \notin got.fields
    THEN SameSiteAlternative(got.canonical, got.landed)
    ELSE NoAddress

\* For a missing price, the canonical address, if it still carries the segment
\* that identifies what was asked for.
CanonicalFollowUp(got) ==
    LET id  == IdentifyingSegment(got.asked.path)
        alt == SameSiteAlternative(got.canonical, got.landed)
    IN  IF /\ got.answered = "ok" /\ "price" \notin got.fields
           /\ id # "none" /\ PathContains(alt.path, id)
        THEN alt ELSE NoAddress

ImprovesOn(next) ==
    ~next.blocked /\ ~next.suspect /\ {"title", "price"} \subseteq next.fields
=============================================================================
