CONSTANTS
    None = None
    PAGE_SIZE = 2
    Modes = {TRUE, FALSE}
    OpenMayFail = FALSE
    HeaderCuts = FALSE
    OffPage = FALSE
    HeaderLength = {2}
    TextLength = 1
    FileSize = {0, 3}
    RangeBound = {0, 2, 3, 16}
    SIZE_MODULUS = 16
SPECIFICATION HandlerSpec
CHECK_DEADLOCK FALSE
INVARIANTS
    TypeOK
    BytesInOrder
    ResourcesReleased
    Framed
    RangeServed
PROPERTIES
    StreamSpec
    ResponseEnds
