\* A removal and an upload of the same picture.
SPECIFICATION Spec
CONSTANTS
    Requests = {R1, R2}
    Items = {I1, I2}
    Pictures = {p}
    Large = {}
    SideBySide = {p}
    MaxRows = 3
    Operations = {"create", "remove"}
    Histories = {"side by side"}
SYMMETRY Symmetry
PROPERTY DeletedOnlyUnreferenced
