CONSTANTS
    h1 = h1
    h2 = h2
    Ids <- MCIds
    Nodes = 4
    Percent = 2
    MaxCrashes = 1
SPECIFICATION LiveSpec
PROPERTY BuildReturns
