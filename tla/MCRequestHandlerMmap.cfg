CONSTANTS
    None = None
    PAGE_SIZE = 2
    Modes = {FALSE}
    OpenMayFail = FALSE
    HeaderCuts = FALSE
    OffPage = TRUE
    HeaderLength = {2}
    TextLength = 1
    FileSize = {3}
    RangeBound = {1, 2}
    SIZE_MODULUS = 16
SPECIFICATION HandlerSpec
CHECK_DEADLOCK FALSE
INVARIANTS
    BytesInOrder
