\* One tab, two lists, three items: removed rows between and after live ones.
SPECIFICATION Spec
CONSTANTS
    Worlds = {A, B}
    ListIds = {L1, L2}
    MaxItems = 3
    MaxPosition = 4
    MaxQuantity = 1
    Pictures = {FALSE}
    Overlapping = FALSE
SYMMETRY Symmetry
INVARIANTS TypeOK BlindToClaims
