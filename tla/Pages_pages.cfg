CONSTANTS
    Name = {n1}
    Gender = {x1, x2}
    Number = {100, 130, 250}
    Limit = 200
    Picture = {p1, p2}
    Lengths <- MCLengths
    MaxEdits = 2
    MaxOther = 1
    MaxNew = 2
    MaxUploads = 2
SPECIFICATION Spec
SYMMETRY MCSymmetry
CONSTRAINT MCFew
INVARIANTS
    Inv
    ShownIsStored
    HistoryShown
    ChartTrue
    PictureLast
PROPERTY UntouchedKeeps
