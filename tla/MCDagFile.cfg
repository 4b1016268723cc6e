CONSTANTS
    h1 = h1
    h2 = h2
    Ids <- MCIds
    Nodes = 4
    Percent = 2
    MaxCrashes = 0
SYMMETRY MCSymmetry
SPECIFICATION Spec
INVARIANT TypeOK
INVARIANT FileConsistent
INVARIANT HandleDataValid
PROPERTY MemoSpec
