\* Requests, pings and a QoS 1 message: refusals, time-outs, cut frames, wrapped
\* packet ids.
CONSTANTS
    instr = instr
    httpAck = httpAck
    mA1 = mA1
    mA2 = mA2
    mB2 = mB2
    mC2 = mC2
    mH2 = mH2
    None = None
    MaxPacketId = 2
    Topics = {instr}
    Msgs = {mA1}
    TopicOf <- MCTopic
    QosOf <- MCQos
    TopicLen <- MCTopicLen
    MaxMessageHandlers = 1
    MaxIncomingQos2 = 1
    KeepAlive = TRUE
    ReentrantTopics = {}
    AppOps = {"reconnect", "connect", "subscribe", "unsubscribe", "publish", "disconnect", "yield"}
    AppQos = {0, 2}
    WriteOutcomes = {"sent", "nothing", "partial", "overrun"}
    MaxCalls = 5
    HandlerCalls = 0
    MaxStack = 2
    BrokerIds = {1}
    Refusals = TRUE
    Stalls = FALSE
    MaxRetries = 0
SPECIFICATION Spec
INVARIANTS TypeOK OnePing NoLoss
PROPERTIES AckIsOurs
CHECK_DEADLOCK FALSE
