\* Three items on two hosts, one of which may have all three; or two items, an
\* edit that may move the link, and a restart anywhere.
SPECIFICATION Spec
CONSTANTS
    ItemIds = {i1, i2, i3}
    Urls = {a1, b1}
    HostOf <- OwnHost
    Answers = {"gone", "nothing", "product"}
    Posted <- OkLinks
    Recorded = {"gone", "product"}
    Batch = 4
    MaxEdits = 1
    EditsMayMoveLink = TRUE
    MaxRestarts = 1
CONSTRAINT EditAndRestartOfTwo
SYMMETRY Symmetry
INVARIANTS TypeOK NoHostDominates StatusWasHeard
