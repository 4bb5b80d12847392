SPECIFICATION RuntimeSpec
CONSTANTS
    Producers = {p1, p2}
    Consumers = {c1, c2}
    Value = {v1, v2}
    NoItem = NoItem
    Capacity = 2
    Word = 8
    MaxLag = 2
    MaxTicket = 4
    Objects = {"event", "input", "output", "watch", "hook", "process"}
    Class <- MCClass
    MaxStates = 3
    MaxWrites = 1
    Pointers = {"a", "b", "c"}
    Threads = {"t", "u"}
    Runner <- MCRunner
    MaxCells = 3
    Letters = {"x"}
    MaxPath = 6
SYMMETRY Symmetry
INVARIANTS SlotExclusive StatesOwned OwnedRight PathsRight
PROPERTIES HonestRefusal ImplementsFifo
