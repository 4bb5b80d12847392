CONSTANTS
    Clients = {c1, c2, c3, c4}
    c1 = c1
    c2 = c2
    c3 = c3
    c4 = c4
    Word = 4
    Paths = {p1, p2}
    p1 = p1
    p2 = p2
    v1 = v1
    v2 = v2
    v3 = v3
    Versions <- MCVersions
    Mtime <- MCMtime
    Size <- MCSize
    Missing = Missing
    EmptyFile = EmptyFile
    Torn = Torn
    NoRecord = NoRecord
    k1 = k1
    k2 = k2
    k3 = k3
    k4 = k4
    k5 = k5
    k6 = k6
    Keys = {k1, k2, k3, k4, k5}
    Values = {x, y}
    NoValue = NoValue
    H1 <- MCH1
    H2 <- MCH2
    Width = 2
    Load = 1
    DropThreshold = 4
    Empty = Empty
    Tombstone = Tombstone
    MaxGroups = 4
    Elements = {"a", "b"}
    Kinds = {"number", "object"}
    MaxSize = 4
    RangesInside = FALSE
SPECIFICATION LibrarySpec
SYMMETRY Interchangeable
INVARIANT Exclusion
INVARIANT CountExact
INVARIANT RecordsHonest
INVARIANT AnswerCorrect
INVARIANT FindRight
INVARIANT VectorRight
PROPERTY ImplementsDictionary
