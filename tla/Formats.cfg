\* Every kind of input once.
CONSTANTS
    BLOCKSIZE = 8191
    Letters <- MCLetters
    RemainingLengths <- MCRemainingLengths
    Filters <- MCFilters
    TopicNames <- MCTopicNames
    Texts <- MCTexts
SPECIFICATION FormatsSpec
INVARIANTS AckRead InstructionRead RequestIsJson LengthIsEnough TopicsMatch FramesFit
CHECK_DEADLOCK FALSE
