\* Two items on two lists, with one owner or two, and two claims by one claimer or
\* on two lists.
CONSTANTS
    Users = {u1, u2}
    ListIds = {l1, l2}
    ItemIds = {i1, i2}
    ClaimIds = {c1, c2}
    MaxQuantity = 2
    MaxWrites = 2
SPECIFICATION PagesSpec
SYMMETRY Symmetry
INVARIANTS
    SchemaHolds
    CounterMatchesClaims
    NoOverclaim
    OwnerNeverClaims
    FreshControlsWork
    NothingIsOutOfReach
    BarsAgree
    HeldClaimsAreShown
PROPERTIES
    ClaimsEndByRelease
    RemovalIsFinal
    ImplementsLedger
