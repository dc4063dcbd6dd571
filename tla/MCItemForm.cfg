\* A product at two addresses, its sibling, the collection they are in, a page of
\* search results that carries the product's name, a short link and an address inside
\* the house.
SPECIFICATION Spec
CONSTANTS
    Addresses <- MCAddresses
    SiteListings <- MCSiteListings
    NameLike = {"long-thing", "best"}
    Pasted <- MCPasted
    Denied = {"inside"}
    MaxRedirects = 3
    Contents <- MCContents
    Product <- MCProduct
    NoProduct = "none"
INVARIANTS
    TypeOK
    LookupIsExplained
PROPERTIES
    LinkIsKept
    OnlyTheShopMisleads
