SPECIFICATION SessionFairSpec
CONSTANTS
    n1 = n1
    n2 = n2
    n3 = n3
    plain = plain
    labelled = labelled
    a = a
    b = b
    empty = empty
    alice = alice
    bob = bob
    dim = dim
    Names = {n1, n2, n3}
    Rankings <- TwoRankings
    Images = {plain, labelled}
    Config <- ConfigOfImages
    KeyLength <- LengthOfKeys
    NameCells <- CellsOfNames
    OtherCells <- CellsOfImages
    Header <- Columns
    Wanted = {plain, labelled}
    Options <- SomeOptions
    DefaultSize = 2
    QueryMayFail = TRUE
    MaxChanges = 2
    None = None
    Credentials = {alice, bob, dim}
    NoCredentials = NoCredentials
    Site <- Sites
INVARIANTS SessionTypeOK NothingMissed NothingTwice AllLabelsShown LinesAlign FitsWidth
PROPERTIES SearchEnds SearchesAreGranted
