\* Acks late, lost, twice, overtaken and nested; reconnection; an array of things
\* that two registrations overrun.
CONSTANTS
    reg = reg
    reg2 = reg2
    h1 = h1
    h2 = h2
    Hashes = {reg, reg2, h1}
    Registrations = {reg, reg2}
    RETRIES_FOR_ACK = 2
    Codes = {200, 406}
    MaxInstructions = 1
    MaxConnects = 2
    MaxThings = 1
    PointerHalves <- MCHalves
    PARSE_ERROR = PARSE_ERROR
    NoContext = NoContext
SPECIFICATION Spec
SYMMETRY Symmetry
INVARIANTS TypeOK AnswerIsOurs RegisteredWasAccepted TimeoutExplained
CHECK_DEADLOCK FALSE
