\* Bytes: short writes and reads, time-outs inside a packet.
CONSTANTS
    Base = 2
    MaxLengthBytes = 2
    Types = {2}
    Bodies <- MCBodies
    Frames <- MCFrames
    Junk = Junk
    MaxSends = 1
    MaxPackets = 2
SPECIFICATION FairSpec
INVARIANTS TypeOK SendOutcome
PROPERTIES InOrder AllReceived
CHECK_DEADLOCK FALSE
