----------------------------- MODULE MCItemForm -----------------------------
(* A bounded instance of ItemForm for TLC: one shop, one shortener. *)
EXTENDS ItemForm

At(site, path) == [site |-> site, path |-> path]

Thing      == At("shop", <<"collections", "best", "products", "thing">>)
Slug       == At("shop", <<"store", "thing", "long-thing", "ref=">>)
Sibling    == At("shop", <<"products", "sibling">>)
Collection == At("shop", <<"collections", "best">>)
Search     == At("shop", <<"search", "thing">>)
Deals      == At("shop", <<"b", "deals">>)
Short      == At("short", <<"d", "1">>)
Inside     == At("inside", <<"thing">>)

MCAddresses == {Thing, Slug, Sibling, Collection, Search, Deals, Short, Inside}

MCSiteListings == {<<"shop", "b">>}

MCProduct ==
    [a \in MCAddresses |-> IF a \in {Thing, Slug} THEN "thing"
                           ELSE IF a = Sibling THEN "sibling" ELSE "none"]

MCPasted == {[to |-> a, crumbs |-> FALSE] : a \in {Thing, Collection, Search, Deals, Short, Inside}}
                \cup {[to |-> Thing, crumbs |-> TRUE]}

Says(s, o, c) == [structured |-> s, og |-> o, sidecar |-> c]

\* The ways a page comes apart into tiers that the chain, the guard and the form
\* tell from each other.
MCSays == {Says({}, {}, {}),
           Says({"title", "price", "sku"}, {"title", "details"}, {}),
           Says({"title", "sku"}, {}, {"title", "price"}),
           Says({"title"}, {"title"}, {}),
           Says({}, {"title", "details"}, {}),
           Says({}, {"title", "price", "attributes"}, {}),
           Says({}, {"details"}, {"title", "price"}),
           Says({"price"}, {}, {})}

MCContents ==
    [says: MCSays, ogType: {"none", "other"},
     canonical: {NoAddress, Slug, Sibling, Search}, redirect: {NoAddress}]
    \cup [says: {Says({}, {}, {}), Says({}, {"title"}, {})}, ogType: {"none"},
          canonical: {NoAddress}, redirect: {Slug, Sibling}]
=============================================================================
