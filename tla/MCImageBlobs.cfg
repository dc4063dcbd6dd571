\* Two pictures on two items: one request after the other, killed anywhere, or
\* three side by side that store the same picture.
SPECIFICATION Spec
CONSTANTS
    Requests = {R1, R2, R3}
    Items = {I1, I2}
    Pictures = {p, q}
    Large = {p}
    SideBySide = {p}
    MaxRows = 4
    Operations = {"create", "edit", "remove", "delete_list"}
    Histories = {"one at a time", "side by side"}
SYMMETRY Symmetry
INVARIANTS
    TypeOK
    RowsHaveFiles
    FinalFilesAreComplete
    NewestIsShown
