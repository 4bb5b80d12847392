CONSTANTS
    Clients = {c1, c2}
    c1 = c1
    c2 = c2
    Word = 4
SPECIFICATION LockSpec
INVARIANT ReadersKeptOut
