SPECIFICATION Spec
CONSTANTS
    b1 = b1
    b2 = b2
    b3 = b3
    Positions = {0, 1}
    Origin = 0
    Bodies = {b1, b2, b3}
    NoBody = NoBody
    MaxEntities = 3
    MaxScene = 3
    MaxSize = 4
    MaxCalls = 5
SYMMETRY Symmetry
VIEW View
INVARIANTS DocumentKept PreviewCurrent
INVARIANTS SlotsPartitioned BodiesMatch
PROPERTIES ImplementsRelation PlayFaithful
CHECK_DEADLOCK FALSE
