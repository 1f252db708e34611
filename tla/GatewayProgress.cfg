\* Every send returns, also one a handler makes inside a pending send.
CONSTANTS
    reg = reg
    reg2 = reg2
    h1 = h1
    h2 = h2
    Hashes = {reg, h1, h2}
    Registrations = {reg}
    RETRIES_FOR_ACK = 2
    Codes = {200}
    MaxInstructions = 1
    MaxConnects = 1
    MaxThings = 1
    PointerHalves <- MCHalves
    PARSE_ERROR = PARSE_ERROR
    NoContext = NoContext
SPECIFICATION FairSpec
PROPERTIES SendReturns
CHECK_DEADLOCK FALSE
