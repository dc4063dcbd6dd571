\* One removed item with a picture is enough.
SPECIFICATION Spec
CONSTANTS
    Worlds = {A, B}
    ListIds = {L1}
    MaxItems = 1
    MaxPosition = 4
    MaxQuantity = 1
    Pictures = {TRUE, FALSE}
    Overlapping = FALSE
INVARIANT PicturesAgree
