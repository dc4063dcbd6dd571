\* One claim after the other on one item, two tabs, three seconds.
SPECIFICATION Spec
CONSTANTS
    Items = {i1}
    ClaimIds = {c1}
    Tabs = {t1, t2}
    MaxTime = 3
    MaxWait = 1
SYMMETRY Symmetry
INVARIANTS
    NoticesArrive
    AskedOnce
