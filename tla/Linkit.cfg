\* The Linkit gateway, its TCP stack and the platform.
CONSTANTS
    UIP_CONNS = 2
    UIP_MAXRTX = 1
    UIP_MAXSYNRTX = 1
    HttpPorts <- MCHttpPorts
    Environments = {"platform", "anyone"}
    MaxRequests = 2
    MaxResponses = 1
SPECIFICATION FairSpec
INVARIANTS TypeOK ReceivedInOrder DeliveredWasReceived StuckExplained CliFdLive
PROPERTIES SlotsReleased BufferedIsSent
CHECK_DEADLOCK FALSE
