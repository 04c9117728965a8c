SPECIFICATION Spec
CONSTANTS
    Words <- MCWords
    Conversations <- MCConversations
    InitSize = 10
    StackSize = 5
    EventModes = {TRUE, FALSE}
INVARIANTS
    BufferIsQueue
    AnswersAreRequests
    WholeIsParsed
CHECK_DEADLOCK FALSE
