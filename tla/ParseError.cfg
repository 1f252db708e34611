\* A send takes the error that answers another JSON.
CONSTANTS
    reg = reg
    reg2 = reg2
    h1 = h1
    h2 = h2
    Hashes = {h1, h2}
    Registrations = {}
    RETRIES_FOR_ACK = 2
    Codes = {200, 406}
    MaxInstructions = 0
    MaxConnects = 1
    MaxThings = 1
    PointerHalves <- MCHalves
    PARSE_ERROR = PARSE_ERROR
    NoContext = NoContext
SPECIFICATION Spec
INVARIANTS ParseErrorIsOurs
CHECK_DEADLOCK FALSE
