CONSTANTS
    k1 = k1
    k2 = k2
    k3 = k3
    k4 = k4
    k5 = k5
    k6 = k6
    Keys = {k1, k2, k3, k4, k5, k6}
    Values = {v1, v2}
    NoValue = NoValue
    H1 <- MCH1
    H2 <- MCH2
    Width = 3
    Load = 2
    DropThreshold = 4
    Empty = Empty
    Tombstone = Tombstone
    MaxGroups = 2
SPECIFICATION Spec
INVARIANT SearchesEnd
CHECK_DEADLOCK FALSE
