SPECIFICATION PathSpec
CONSTANTS
    Letters = {"x"}
    MaxPath = 4
INVARIANT NamesKept
