CONSTANTS
    Elements = {"a", "b"}
    Kinds = {"struct"}
    MaxSize = 4
    RangesInside = FALSE
SPECIFICATION VectorSpec
INVARIANT VectorRight
