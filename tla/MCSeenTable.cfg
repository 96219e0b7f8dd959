CONSTANTS
    Thread = {t1, t2}
    Key <- MCKey
    None = None
    Segment <- MCSegment
    segmentIndex <- MCSegmentIndex
    hash <- MCHash
    InitialCapacity = 4
SPECIFICATION Spec
INVARIANTS
    Findable
    AlwaysRoom
    EntriesCounted
PROPERTIES
    ImplementsSet
