SPECIFICATION Spec
CONSTANTS
    Field <- MCField
    Plans <- MCPlans
    FieldLists <- MCFieldLists
    SizeLists <- MCSizeLists
    HandmadeBlocks <- MCHandmade
    InitialSize = 1
INVARIANTS
    ResponsesDecode
    RequestsDecode
    SentBlocksReadBack
    SessionsDecode
CHECK_DEADLOCK FALSE
